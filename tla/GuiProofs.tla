----------------------------- MODULE GuiProofs -----------------------------
(* Proofs about the windows of the GUI: what the popup shows of a search   *)
(* (Popup over Service), and what the Devices page and the service behind  *)
(* it make of answers, closed dialogs and late reports (Devices).          *)
EXTENDS Popup, Devices, FiniteSetTheorems, SequenceTheorems, WellFoundedInduction, TLAPS

-----------------------------------------------------------------------------
(* The order of a list.                                                    *)
LEMMA RowsAreRows ==
  ASSUME NEW d \in Panod, NEW c \in Content
  PROVE  d.hist[c] \in Row /\ d.hist[c].pinned \in BOOLEAN /\ d.hist[c].seen \in Nat
<1>1. d.hist[c] \in Row
  BY DEF Panod
<1>2. d.hist[c].pinned \in BOOLEAN
  BY <1>1 DEF Row
<1>3. d.hist[c].seen \in Nat
  BY <1>1 DEF Row
<1> QED
  BY <1>1, <1>2, <1>3

(* Among some entries there is one that precedes none.                     *)
LEMMA LastEntry ==
  ASSUME NEW R, R \subseteq Entry, R # {}
  PROVE  \E x \in R : \A y \in R : ~Precedes(x, y)
<1> DEFINE M == IF \E y \in R : ~y.pinned THEN {y \in R : ~y.pinned} ELSE R
           T == {y.seen : y \in M}
           L == OpToRel(<, Nat)
<1>1. M \subseteq R /\ M # {}
  OBVIOUS
<1>2. \A y \in R : y.seen \in Nat
  BY DEF Entry
<1>3. T \subseteq Nat /\ T # {}
  BY <1>1, <1>2
<1>4. \A a, b \in Nat : <<a, b>> \in L <=> a < b
  BY DEF OpToRel
<1>5. IsWellFoundedOn(L, Nat)
  BY NatLessThanWellFounded
<1> HIDE DEF L, T
<1>6. PICK m \in T : \A k \in T : ~(<<k, m>> \in L)
  BY <1>3, <1>5, WFMin
<1>7. PICK x \in M : x.seen = m
  BY <1>6 DEF T
<1>8. \A y \in M : y.seen \in T
  BY DEF T
<1>9. \A y \in M : ~(x.seen > y.seen)
  <2> TAKE y \in M
  <2>1. y.seen \in Nat /\ x.seen \in Nat /\ y.seen \in T
    BY <1>1, <1>2, <1>8
  <2>2. ~(<<y.seen, x.seen>> \in L)
    BY <1>6, <1>7, <2>1
  <2> QED
    BY <1>4, <2>1, <2>2
<1>10. ASSUME NEW y \in R
       PROVE  ~Precedes(x, y)
  <2>0. x.pinned \in BOOLEAN /\ y.pinned \in BOOLEAN
    BY <1>1 DEF Entry
  <2>1. CASE \E z \in R : ~z.pinned
    <3>1. ~x.pinned
      BY <2>1
    <3>2. ~y.pinned => y \in M
      BY <2>1
    <3>3. ~y.pinned => ~(x.seen > y.seen)
      BY <1>9, <3>2
    <3> QED
      BY <2>0, <3>1, <3>3 DEF Precedes
  <2>2. CASE ~\E z \in R : ~z.pinned
    <3>1. y.pinned /\ y \in M
      BY <2>2
    <3> QED
      BY <1>9, <3>1 DEF Precedes
  <2> QED
    BY <2>1, <2>2
<1> QED
  BY <1>1, <1>10

Sorted(s) == \A i, j \in DOMAIN s : i < j => ~Precedes(s[j], s[i])

(* An entry that precedes none of the others goes to their end.            *)
LEMMA SortedLonger ==
  ASSUME NEW R, IsFiniteSet(R), NEW x \in R, \A y \in R : ~Precedes(x, y),
         NEW s \in SetToSeqs(R \ {x}), Sorted(s)
  PROVE  \E t \in SetToSeqs(R) : Sorted(t)
<1>n. PICK n : n = Cardinality(R \ {x})
  OBVIOUS
<1>1. n \in Nat /\ Cardinality(R) = n + 1
  <2>1. IsFiniteSet(R \ {x}) /\ Cardinality(R \ {x}) = Cardinality(R) - 1
    BY FS_RemoveElement
  <2>2. Cardinality(R \ {x}) \in Nat /\ Cardinality(R) \in Nat
    BY <2>1, FS_CardinalityType
  <2> QED
    BY <1>n, <2>1, <2>2
<1>2. s \in [1..n -> R \ {x}] /\ \A i, j \in 1..n : i # j => s[i] # s[j]
  BY <1>n DEF SetToSeqs
<1>t. PICK t : t = [i \in 1..(n + 1) |-> IF i = n + 1 THEN x ELSE s[i]]
  OBVIOUS
<1>3. \A i \in 1..(n + 1) : i # n + 1 => i \in 1..n
  BY <1>1
<1>4. DOMAIN t = 1..(n + 1) /\ t[n + 1] = x /\ \A i \in 1..n : t[i] = s[i] /\ t[i] \in R \ {x}
  BY <1>t, <1>1, <1>2
<1>5. t \in [1..(n + 1) -> R]
  BY <1>t, <1>2, <1>3
<1>6. \A i, j \in 1..(n + 1) : i # j => t[i] # t[j]
  BY <1>2, <1>3, <1>4
<1>7. t \in SetToSeqs(R)
  BY <1>1, <1>5, <1>6 DEF SetToSeqs
<1>8. Sorted(t)
  <2>1. SUFFICES ASSUME NEW i \in 1..(n + 1), NEW j \in 1..(n + 1), i < j
                 PROVE  ~Precedes(t[j], t[i])
    BY <1>4 DEF Sorted
  <2>2. i \in 1..n
    BY <1>1, <2>1
  <2>3. CASE j = n + 1
    BY <1>4, <2>2, <2>3
  <2>4. CASE j # n + 1
    <3>1. j \in 1..n /\ DOMAIN s = 1..n
      BY <1>2, <1>3, <2>4
    <3>2. ~Precedes(s[j], s[i])
      BY <2>1, <2>2, <3>1 DEF Sorted
    <3> QED
      BY <1>4, <2>2, <3>1, <3>2
  <2> QED
    BY <2>3, <2>4
<1> QED
  BY <1>7, <1>8

LEMMA SortedExists ==
  ASSUME NEW S, IsFiniteSet(S), S \subseteq Entry
  PROVE  \E s \in SetToSeqs(S) : Sorted(s)
<1> DEFINE Bad(R) == ~\E s \in SetToSeqs(R) : Sorted(s)
           T == {n \in Nat : \E R \in SUBSET S : Cardinality(R) = n /\ Bad(R)}
           L == OpToRel(<, Nat)
<1>1. SUFFICES ASSUME Bad(S)
               PROVE  FALSE
  OBVIOUS
<1>2. \A R \in SUBSET S : IsFiniteSet(R) /\ Cardinality(R) \in Nat
  BY FS_Subset, FS_CardinalityType
<1>3. T # {} /\ T \subseteq Nat
  BY <1>1, <1>2
<1>4. \A a, b \in Nat : <<a, b>> \in L <=> a < b
  BY DEF OpToRel
<1>5. IsWellFoundedOn(L, Nat)
  BY NatLessThanWellFounded
<1> HIDE DEF L
<1>6. PICK n \in T : \A k \in T : ~(<<k, n>> \in L)
  <2> HIDE DEF T
  <2> QED
    BY <1>3, <1>5, WFMin
<1>7. PICK R \in SUBSET S : Cardinality(R) = n /\ Bad(R)
  BY <1>6
<1>8. R # {}
  <2>1. SUFFICES ASSUME R = {}
                 PROVE  FALSE
    OBVIOUS
  <2>2. Cardinality(R) = 0
    BY <2>1, FS_EmptySet
  <2>e. PICK s : s = [i \in 1..0 |-> i]
    OBVIOUS
  <2>3. s \in [1..0 -> {}] /\ DOMAIN s = {}
    BY <2>e
  <2>4. s \in SetToSeqs(R)
    BY <2>1, <2>2, <2>3 DEF SetToSeqs
  <2>5. Sorted(s)
    BY <2>3 DEF Sorted
  <2> QED
    BY <1>7, <2>4, <2>5
<1>9. PICK x \in R : \A y \in R : ~Precedes(x, y)
  BY <1>8, LastEntry
<1>10. /\ R \ {x} \in SUBSET S /\ IsFiniteSet(R) /\ Cardinality(R \ {x}) \in Nat
       /\ Cardinality(R \ {x}) = n - 1 /\ n \in Nat
  BY <1>2, <1>7, FS_RemoveElement
<1>11. <<n - 1, n>> \in L
  BY <1>4, <1>10
<1>12. ~Bad(R \ {x})
  BY <1>6, <1>10, <1>11
<1> QED
  BY <1>7, <1>10, <1>9, <1>12, SortedLonger

(* What a query finds, and nothing else.                                   *)
Fits(e, q) == e.content \in Matches[q.text] /\ (q.filter = "pinned" => e.pinned)

AllFit(es, q) == \A i \in DOMAIN es : Fits(es[i], q)

LEMMA QueryFits ==
  ASSUME NEW d \in Panod, NEW q
  PROVE  query(d, q) \in Seq(Entry) /\ AllFit(query(d, q), q)
<1>s. PICK S : S = {EntryOf(d, c) : c \in Found(d, q)}
  OBVIOUS
<1>1. \A c \in Content : EntryOf(d, c) \in Entry
  <2> TAKE c \in Content
  <2>1. d.hist[c].pinned \in BOOLEAN /\ d.hist[c].seen \in Nat
    BY RowsAreRows
  <2> QED
    BY <2>1 DEF EntryOf, Entry
<1>2. Found(d, q) \subseteq Content
  BY DEF Found
<1>3. S \subseteq Entry
  BY <1>s, <1>1, <1>2
<1>4. IsFiniteSet(S)
  <2>1. IsFiniteSet(Found(d, q))
    BY <1>2, FS_Subset, ServiceAssumption
  <2>f. PICK f : f = [c \in Found(d, q) |-> EntryOf(d, c)]
    OBVIOUS
  <2>2. f \in Surjection(Found(d, q), S)
    BY <1>s, <2>f DEF Surjection
  <2> QED
    BY <2>1, <2>2, FS_Surjection
<1>5. \E s \in SetToSeqs(S) : Sorted(s)
  BY <1>3, <1>4, SortedExists
<1>6. query(d, q) \in SetToSeqs(S)
  BY <1>s, <1>5 DEF query, InOrder, Sorted
<1>7. query(d, q) \in [1..Cardinality(S) -> S] /\ Cardinality(S) \in Nat
  BY <1>4, <1>6, FS_CardinalityType DEF SetToSeqs
<1>8. ASSUME NEW e \in S
      PROVE  Fits(e, q)
  <2>1. PICK c \in Found(d, q) : e = EntryOf(d, c)
    BY <1>s
  <2>2. e.content = c /\ c \in Matches[q.text]
    BY <2>1 DEF EntryOf, Found
  <2>3. q.filter = "pinned" => d.hist[c].pinned
    BY DEF Found
  <2>4. e.pinned = d.hist[c].pinned
    BY <2>1 DEF EntryOf
  <2> QED
    BY <2>2, <2>3, <2>4 DEF Fits
<1>9. AllFit(query(d, q), q)
  BY <1>7, <1>8 DEF AllFit
<1>10. query(d, q) \in Seq(Entry)
  BY <1>3, <1>7, SeqDef
<1> QED
  BY <1>9, <1>10

LEMMA PageFits ==
  ASSUME NEW es \in Seq(Entry), NEW q, AllFit(es, q), NEW offset \in Nat
  PROVE  PageOf(es, offset) \in Seq(Entry) /\ AllFit(PageOf(es, offset), q)
<1>m. PICK m : m = IF offset + PAGE_LIMIT < Len(es) THEN offset + PAGE_LIMIT ELSE Len(es)
  OBVIOUS
<1>1. PAGE_LIMIT \in Nat /\ Len(es) \in Nat /\ m \in 0..Len(es) /\ DOMAIN es = 1..Len(es)
  <2>1. PAGE_LIMIT \in Nat
    BY ServiceAssumption
  <2> QED
    BY <1>m, <2>1
<1>2. PageOf(es, offset) = SubSeq(es, offset + 1, m)
  BY <1>m DEF PageOf
<1>p. PICK p : p = SubSeq(es, offset + 1, m)
  OBVIOUS
<1>3. p \in Seq(Entry) /\ \A i \in DOMAIN p : i + offset \in DOMAIN es /\ p[i] = es[i + offset]
  <2>1. p \in Seq(Entry)
    <3>1. \A i \in (offset + 1)..m : es[i] \in Entry
      BY <1>1
    <3> QED
      BY <1>1, <1>p, <3>1
  <2>2. Len(p) = IF offset + 1 <= m THEN m - offset ELSE 0
    BY <1>1, <1>p
  <2>3. \A i \in 1..Len(p) : i + offset \in 1..Len(es)
    BY <1>1, <2>2
  <2>4. \A i \in 1..Len(p) : p[i] = es[i + offset]
    BY <1>1, <1>p, <2>2
  <2> QED
    BY <1>1, <2>1, <2>3, <2>4
<1> QED
  BY <1>2, <1>p, <1>3 DEF AllFit

LEMMA ListFits ==
  ASSUME NEW d \in Panod, NEW q, q.offset \in Nat
  PROVE  list(d, q).rows \in Seq(Entry) /\ AllFit(list(d, q).rows, q)
<1>1. query(d, q) \in Seq(Entry) /\ AllFit(query(d, q), q)
  BY QueryFits
<1>2. PageOf(query(d, q), q.offset) \in Seq(Entry) /\ AllFit(PageOf(query(d, q), q.offset), q)
  BY <1>1, PageFits
<1>3. CASE d.app_locked
  <2>1. list(d, q).rows = <<>>
    BY <1>3 DEF list
  <2> QED
    BY <2>1 DEF AllFit
<1>4. CASE ~d.app_locked
  <2>1. list(d, q).rows = PageOf(query(d, q), q.offset)
    BY <1>4 DEF list
  <2> QED
    BY <1>2, <2>1
<1> QED
  BY <1>3, <1>4

-----------------------------------------------------------------------------
(* panod keeps its shape.                                                  *)
States == {"absent", "live", "deleted", "evicted"}

LEMMA HistoryIs ==
  ASSUME NEW d \in Panod, NEW h \in [Content -> Row]
  PROVE  [d EXCEPT !.hist = h] \in Panod
BY DEF Panod

LEMMA BumpIsPanod ==
  ASSUME NEW d \in Panod
  PROVE  bump(d) \in Panod
<1>1. d.revision \in Nat \ {0} /\ d.watched \in Nat \ {0}
  BY DEF Panod
<1>w. PICK n \in Nat \ {0} : n = IF Receivers = {} THEN d.watched ELSE d.revision + 1
  BY <1>1
<1>r. PICK k \in Nat \ {0} : k = d.revision + 1
  BY <1>1
<1>2. bump(d) = [d EXCEPT !.revision = k, !.watched = n]
  BY <1>w, <1>r DEF bump
<1> QED
  BY <1>2 DEF Panod

LEMMA SetStateIsPanod ==
  ASSUME NEW d \in Panod, NEW cs, NEW st \in States
  PROVE  SetState(d, cs, st) \in Panod
<1>h. PICK h : h = [c \in Content |-> IF c \in cs THEN [d.hist[c] EXCEPT !.state = st] ELSE d.hist[c]]
  OBVIOUS
<1>1. \A c \in Content : d.hist[c] \in Row /\ [d.hist[c] EXCEPT !.state = st] \in Row
  <2> TAKE c \in Content
  <2>1. d.hist[c] \in Row
    BY RowsAreRows
  <2> QED
    BY <2>1 DEF Row, States
<1>2. h \in [Content -> Row]
  BY <1>h, <1>1
<1>3. SetState(d, cs, st) = [d EXCEPT !.hist = h]
  BY <1>h DEF SetState
<1> QED
  BY <1>2, <1>3, HistoryIs

LEMMA GarbageIsPanod ==
  ASSUME NEW d \in Panod
  PROVE  collect_garbage(d) \subseteq Panod
<1> SUFFICES ASSUME NEW x \in collect_garbage(d)
             PROVE  x \in Panod
  OBVIOUS
<1>1. \E old, gone : x = SetState(SetState(d, old, "evicted"), gone, "absent")
  BY DEF collect_garbage
<1> QED
  BY <1>1, SetStateIsPanod DEF States

LEMMA BumpedIsPanod ==
  ASSUME NEW ds \in SUBSET Panod
  PROVE  Bumped(ds) \subseteq Panod
BY BumpIsPanod DEF Bumped

LEMMA RowIsPanod ==
  ASSUME NEW d \in Panod, NEW c \in Content, NEW r \in Row
  PROVE  [d EXCEPT !.hist[c] = r] \in Panod
<1>h. PICK h : h = [d.hist EXCEPT ![c] = r]
  OBVIOUS
<1>1. h \in [Content -> Row]
  BY <1>h DEF Panod
<1>2. [d EXCEPT !.hist[c] = r] = [d EXCEPT !.hist = h]
  BY <1>h
<1> QED
  BY <1>1, <1>2, HistoryIs

(* What requests make of it.                                               *)
LEMMA RequestsArePanod ==
  ASSUME NEW d \in Panod, NEW c, NEW b \in BOOLEAN
  PROVE  /\ set_pinned(d, c, b) \subseteq Panod
         /\ delete(d, c) \subseteq Panod /\ restore(d, c) \subseteq Panod
         /\ clear(d) \subseteq Panod /\ recall(d, c) \subseteq Panod
<1>1. set_pinned(d, c, b) \subseteq Panod
  <2> SUFFICES ASSUME NEW x \in set_pinned(d, c, b)
               PROVE  x \in Panod
    OBVIOUS
  <2>1. c \in Content /\ x = bump([d EXCEPT !.hist[c].pinned = b])
    BY DEF set_pinned, In
  <2>r. PICK r : r = [d.hist[c] EXCEPT !.pinned = b]
    OBVIOUS
  <2>2. r \in Row
    BY <2>1, <2>r, RowsAreRows DEF Row
  <2>3. [d EXCEPT !.hist[c].pinned = b] = [d EXCEPT !.hist[c] = r]
    BY <2>r
  <2> QED
    BY <2>1, <2>2, <2>3, RowIsPanod, BumpIsPanod
<1>2. delete(d, c) \subseteq Panod
  <2> SUFFICES ASSUME NEW x \in delete(d, c)
               PROVE  x \in Panod
    OBVIOUS
  <2>1. PICK y : x \in Bumped(collect_garbage(SetState(d, {y}, "deleted")))
    BY DEF delete
  <2>2. SetState(d, {y}, "deleted") \in Panod
    BY SetStateIsPanod DEF States
  <2> QED
    BY <2>1, <2>2, GarbageIsPanod, BumpedIsPanod
<1>3. restore(d, c) \subseteq Panod
  <2> SUFFICES ASSUME NEW x \in restore(d, c)
               PROVE  x \in Panod
    OBVIOUS
  <2>1. PICK y : x = bump(SetState(d, {y}, "live"))
    BY DEF restore
  <2> QED
    BY <2>1, SetStateIsPanod, BumpIsPanod DEF States
<1>4. clear(d) \subseteq Panod
  <2>1. SetState(d, {e \in In(d, "live") : ~d.hist[e].pinned}, "absent") \in Panod
    BY SetStateIsPanod DEF States
  <2> QED
    BY <2>1, GarbageIsPanod, BumpedIsPanod DEF clear
<1>5. recall(d, c) \subseteq Panod
  <2> SUFFICES ASSUME NEW x \in recall(d, c)
               PROVE  x \in Panod
    OBVIOUS
  <2>1. PICK y \in Content : x = bump([d EXCEPT !.hist[y].seen = d.revision + 1])
    BY DEF recall, In
  <2>n. PICK n \in Nat : n = d.revision + 1
    BY DEF Panod
  <2>r. PICK r : r = [d.hist[y] EXCEPT !.seen = n]
    OBVIOUS
  <2>2. r \in Row
    BY <2>r, RowsAreRows DEF Row
  <2>3. [d EXCEPT !.hist[y].seen = d.revision + 1] = [d EXCEPT !.hist[y] = r]
    BY <2>n, <2>r
  <2> QED
    BY <2>1, <2>2, <2>3, RowIsPanod, BumpIsPanod
<1> QED
  BY <1>1, <1>2, <1>3, <1>4, <1>5

LEMMA FlagsArePanod ==
  ASSUME NEW d \in Panod, NEW b \in BOOLEAN
  PROVE  /\ set_private_mode(d, b) \subseteq Panod
         /\ engage_lock(d) \subseteq Panod /\ unlock(d) \subseteq Panod
<1>1. [d EXCEPT !.private = b] \in Panod /\ [d EXCEPT !.app_locked = TRUE] \in Panod
      /\ [d EXCEPT !.app_locked = FALSE] \in Panod
  BY DEF Panod
<1> QED
  BY <1>1, BumpIsPanod DEF set_private_mode, engage_lock, unlock

LEMMA OthersArePanod ==
  ASSUME NEW d \in Panod
  PROVE  Others(d) \subseteq Panod
<1>1. ASSUME NEW c \in Content
      PROVE  store(d, c) \subseteq Panod
  <2>n. PICK n \in Nat : n = d.revision + 1
    BY DEF Panod
  <2>r. PICK r : r = [state |-> "live", pinned |-> d.hist[c].pinned, seen |-> n]
    OBVIOUS
  <2>1. r \in Row
    BY <2>r, RowsAreRows DEF Row
  <2>2. [d EXCEPT !.hist[c] = [state |-> "live", pinned |-> @.pinned, seen |-> d.revision + 1]]
          = [d EXCEPT !.hist[c] = r]
    BY <2>n, <2>r
  <2> QED
    BY <2>1, <2>2, RowIsPanod, GarbageIsPanod, BumpedIsPanod DEF store
<1>2. /\ set_private_mode(d, ~d.private) \subseteq Panod
      /\ engage_lock(d) \subseteq Panod /\ unlock(d) \subseteq Panod
  <2>1. (~d.private) \in BOOLEAN
    OBVIOUS
  <2> QED
    BY <2>1, FlagsArePanod
<1> SUFFICES ASSUME NEW x \in Others(d)
             PROVE  x \in Panod
  OBVIOUS
<1>3. CASE \E c \in Content : x \in store(d, c)
  BY <1>1, <1>3
<1>4. CASE x \in set_private_mode(d, ~d.private) \/ x \in engage_lock(d) \/ x \in unlock(d)
  BY <1>2, <1>4
<1>5. \/ \E c \in Content : x \in store(d, c)
      \/ x \in set_private_mode(d, ~d.private) \/ x \in engage_lock(d) \/ x \in unlock(d)
  BY DEF Others
<1> QED
  BY <1>3, <1>4, <1>5

-----------------------------------------------------------------------------
(* The popup: what the callbacks share, and what is on its way.            *)
UiShape ==
  [window : {"closed", "shown", "hidden"}, text : Texts, filter : Filters, generation : BOOLEAN,
   rendered_query : Texts, entries : Seq(Entry), stack : {"list", "empty", "error"},
   exhausted : BOOLEAN, loading_more : BOOLEAN, revision : Nat, private : BOOLEAN, pollers : Int]

Question == [text : Texts, filter : Filters, offset : Nat]

Reply == [is : {"pending", "failure", "count", "entries"}, rows : Seq(Entry)]

CallShape == [q : Question, more : BOOLEAN, newest : BOOLEAN, answer : Reply]

(* A page that is not superseded was asked for with the chip of now, and   *)
(* with the search of now unless a keystroke's timer is running.           *)
Asked(r, u) == r.q.filter = u.filter /\ (r.q.text = u.text \/ u.generation)

Waits(cs) == \E r \in cs : r.newest /\ ~r.more

PopInv ==
  /\ panod \in Panod
  /\ ui \in UiShape
  /\ calls \in SUBSET CallShape
  /\ ~ui.generation /\ ~Waits(calls) => AllFit(ui.entries, current_query(ui, 0))
  /\ \A r \in calls : r.newest => Asked(r, ui)
  /\ \A r \in calls : AllFit(r.answer.rows, r.q)

Alike(u, v) ==
  u.text = v.text /\ u.filter = v.filter /\ u.generation = v.generation /\ u.entries = v.entries

LEMMA QuietStep ==
  ASSUME PopInv, panod' \in Panod, ui' \in UiShape, Alike(ui', ui), calls' = calls
  PROVE  PopInv'
<1>1. ui'.text = ui.text /\ ui'.filter = ui.filter /\ ui'.entries = ui.entries
  BY DEF Alike
<1>2. ui'.generation = ui.generation
  BY DEF Alike
<1>3. current_query(ui, 0)' = current_query(ui, 0)
  BY <1>1 DEF current_query
<1>4. ~ui.generation /\ ~Waits(calls) => AllFit(ui.entries, current_query(ui, 0))
  BY DEF PopInv
<1>5. (~ui.generation /\ ~Waits(calls) => AllFit(ui.entries, current_query(ui, 0)))'
  BY <1>1, <1>2, <1>3, <1>4 DEF AllFit, Fits, Waits
<1>6. (\A r \in calls : r.newest => Asked(r, ui))'
  BY <1>1, <1>2 DEF PopInv, Asked
<1>7. (\A r \in calls : AllFit(r.answer.rows, r.q))'
  BY DEF PopInv, AllFit, Fits
<1> QED
  BY <1>5, <1>6, <1>7 DEF PopInv

LEMMA PageIsCall ==
  ASSUME NEW u \in UiShape, NEW n \in Nat, NEW b \in BOOLEAN
  PROVE  /\ Page(u, n, b) \in CallShape
         /\ Page(u, n, b).q = current_query(u, n)
         /\ Page(u, n, b).newest /\ Page(u, n, b).more = b
         /\ Page(u, n, b).answer.rows = <<>>
         /\ current_query(u, n).text = u.text /\ current_query(u, n).filter = u.filter
<1>1. current_query(u, n) \in Question
  BY DEF current_query, Question, UiShape
<1>2. Pending \in Reply
  BY DEF Pending, Reply
<1> QED
  BY <1>1, <1>2 DEF Page, CallShape, Pending, current_query

LEMMA StatusIs ==
  ASSUME NEW u \in UiShape, NEW d \in Panod, NEW ok \in BOOLEAN
  PROVE  /\ sync_status(u, d, ok) \in UiShape
         /\ Alike(sync_status(u, d, ok), u)
<1>1. d.private \in BOOLEAN /\ d.revision \in Nat
  BY DEF Panod
<1>v. PICK v : v = sync_status(u, d, ok)
  OBVIOUS
<1>2. CASE ok
  <2>b. PICK b \in BOOLEAN : b = d.private
    BY <1>1
  <2>n. PICK n \in Nat : n = d.revision
    BY <1>1
  <2>1. v = [u EXCEPT !.private = b, !.revision = n]
    BY <1>v, <1>2, <2>b, <2>n DEF sync_status
  <2>2. v \in UiShape
    BY <2>1 DEF UiShape
  <2>3. v.text = u.text /\ v.filter = u.filter /\ v.generation = u.generation /\ v.entries = u.entries
    BY <2>1 DEF UiShape
  <2> QED
    BY <1>v, <2>2, <2>3 DEF Alike
<1>3. CASE ~ok
  BY <1>v, <1>3 DEF sync_status, Alike
<1> QED
  BY <1>2, <1>3

LEMMA RefreshStep ==
  ASSUME PopInv, panod' \in Panod, NEW u \in UiShape, NEW ok \in BOOLEAN, refresh(u, ok)
  PROVE  PopInv'
<1>p. PICK p : p = Page(u, 0, FALSE)
  OBVIOUS
<1>1. /\ p \in CallShape /\ p.q.text = u.text /\ p.q.filter = u.filter
      /\ p.newest /\ ~p.more /\ p.answer.rows = <<>>
  <2>1. p \in CallShape /\ p.q = current_query(u, 0) /\ p.newest /\ p.more = FALSE /\ p.answer.rows = <<>>
    BY <1>p, PageIsCall
  <2>2. current_query(u, 0).text = u.text /\ current_query(u, 0).filter = u.filter
    BY PageIsCall
  <2> QED
    BY <2>1, <2>2
<1>2. calls' = Superseded(calls) \cup {p}
  BY <1>p DEF refresh, Refresh
<1>3. ui' \in UiShape /\ ui'.text = u.text /\ ui'.filter = u.filter
  <2>1. ui' = sync_status(u, panod', ok)
    BY DEF refresh
  <2>2. ui' \in UiShape /\ Alike(ui', u)
    BY <2>1, StatusIs
  <2> QED
    BY <2>2 DEF Alike
<1>4. ASSUME NEW r \in Superseded(calls)
      PROVE  r \in CallShape /\ ~r.newest /\ AllFit(r.answer.rows, r.q)
  <2>1. PICK x \in calls : r = [x EXCEPT !.newest = FALSE]
    BY DEF Superseded
  <2>2. x \in CallShape /\ AllFit(x.answer.rows, x.q)
    BY DEF PopInv
  <2>3. r \in CallShape /\ ~r.newest /\ r.answer = x.answer /\ r.q = x.q
    BY <2>1, <2>2 DEF CallShape
  <2> QED
    BY <2>2, <2>3
<1>5. Waits(calls')
  BY <1>1, <1>2 DEF Waits
<1>6. calls' \in SUBSET CallShape
  BY <1>1, <1>2, <1>4
<1>7. (\A r \in calls : r.newest => Asked(r, ui))'
  BY <1>1, <1>2, <1>3, <1>4 DEF Asked
<1>8. AllFit(p.answer.rows, p.q)
  BY <1>1 DEF AllFit
<1>9. (\A r \in calls : AllFit(r.answer.rows, r.q))'
  <2>1. SUFFICES ASSUME NEW r \in calls'
                 PROVE  AllFit(r.answer.rows, r.q)'
    OBVIOUS
  <2>2. AllFit(r.answer.rows, r.q)
    BY <1>2, <1>4, <1>8
  <2> QED
    BY <2>2 DEF AllFit, Fits
<1>10. (~ui.generation /\ ~Waits(calls) => AllFit(ui.entries, current_query(ui, 0)))'
  BY <1>5
<1> QED
  BY <1>3, <1>6, <1>7, <1>9, <1>10 DEF PopInv

LEMMA NewUiIs == NewUi \in UiShape /\ Closed \in UiShape /\ NewUi.entries = <<>> /\ Closed.entries = <<>>
<1>1. "" \in Texts
  BY ServiceAssumption
<1>2. NewUi \in UiShape /\ NewUi.entries = <<>>
  <2>t. PICK t \in Texts : t = ""
    BY <1>1
  <2>e. PICK es \in Seq(Entry) : es = <<>>
    BY EmptySeq
  <2>f. PICK f \in Filters : f = "all"
    BY DEF Filters
  <2>1. NewUi = [window |-> "shown", text |-> t, filter |-> f, generation |-> FALSE,
                 rendered_query |-> t, entries |-> es, stack |-> "list", exhausted |-> TRUE,
                 loading_more |-> FALSE, revision |-> 0, private |-> FALSE, pollers |-> 0]
    BY <2>t, <2>e, <2>f DEF NewUi
  <2>2. NewUi \in UiShape
    BY <2>1 DEF UiShape
  <2> QED
    BY <2>2, <2>1, <2>e
<1> QED
  BY <1>2 DEF Closed, UiShape

LEMMA BlankStep ==
  ASSUME panod' \in Panod, ui' \in UiShape, ui'.entries = <<>>, calls' = {}
  PROVE  PopInv'
BY DEF PopInv, AllFit

-----------------------------------------------------------------------------
(* The answers.                                                            *)
LEMMA AnswerKeepsPopInv ==
  ASSUME PopInv, NEW r \in calls, Answer(r)
  PROVE  PopInv'
<1>1. panod' = panod /\ ui' = ui
  BY DEF Answer
<1>2. PICK ok \in BOOLEAN :
        calls' = (calls \ {r}) \cup {[r EXCEPT !.answer = IF ok THEN list(panod, r.q) ELSE Failure]}
  BY DEF Answer
<1>a. PICK a : a = IF ok THEN list(panod, r.q) ELSE Failure
  OBVIOUS
<1>b. PICK b : b = [r EXCEPT !.answer = a]
  OBVIOUS
<1>3. calls' = (calls \ {r}) \cup {b}
  BY <1>2, <1>a, <1>b
<1>4. panod \in Panod /\ r \in CallShape /\ r.q \in Question /\ r.q.offset \in Nat
  <2>1. panod \in Panod /\ r \in CallShape
    BY DEF PopInv
  <2> QED
    BY <2>1 DEF CallShape, Question
<1>5. a \in Reply /\ AllFit(a.rows, r.q)
  <2>1. CASE ok
    <3>1. a.rows \in Seq(Entry) /\ AllFit(a.rows, r.q)
      BY <1>4, <1>a, <2>1, ListFits
    <3>2. a = list(panod, r.q)
      BY <1>a, <2>1
    <3>3. a = [is |-> a.is, rows |-> a.rows] /\ a.is \in {"count", "entries"}
      BY <3>2 DEF list
    <3> QED
      BY <3>1, <3>3 DEF Reply
  <2>2. CASE ~ok
    <3>1. a = [is |-> "failure", rows |-> <<>>]
      BY <1>a, <2>2 DEF Failure
    <3>2. <<>> \in Seq(Entry)
      BY EmptySeq
    <3> QED
      BY <3>1, <3>2 DEF Reply, AllFit
  <2> QED
    BY <2>1, <2>2
<1>6. /\ b \in CallShape /\ b.q = r.q /\ b.answer = a
      /\ b.more = r.more /\ b.newest = r.newest
  BY <1>4, <1>5, <1>b DEF CallShape
<1>7. calls' \in SUBSET CallShape
  BY <1>3, <1>6 DEF PopInv
<1>8. Waits(calls) => Waits(calls')
  <2>1. SUFFICES ASSUME NEW x \in calls, x.newest, ~x.more
                 PROVE  \E y \in calls' : y.newest /\ ~y.more
    BY DEF Waits
  <2>2. CASE x = r
    BY <1>3, <1>6, <2>1, <2>2
  <2>3. CASE x # r
    BY <1>3, <2>1, <2>3
  <2> QED
    BY <2>2, <2>3
<1>9. (~ui.generation /\ ~Waits(calls) => AllFit(ui.entries, current_query(ui, 0)))'
  <2>1. ~ui.generation /\ ~Waits(calls) => AllFit(ui.entries, current_query(ui, 0))
    BY DEF PopInv
  <2>2. AllFit(ui.entries, current_query(ui, 0)) => AllFit(ui.entries, current_query(ui, 0))'
    BY <1>1 DEF AllFit, Fits, current_query
  <2>3. Waits(calls') = Waits(calls)'
    BY DEF Waits
  <2> QED
    BY <1>1, <1>8, <2>1, <2>2, <2>3
<1>10. (\A x \in calls : x.newest => Asked(x, ui))'
  <2>1. \A x \in calls : x.newest => Asked(x, ui)
    BY DEF PopInv
  <2>2. \A x \in calls' : x.newest => Asked(x, ui)
    BY <1>3, <1>6, <2>1 DEF Asked
  <2> QED
    BY <1>1, <2>2 DEF Asked
<1>11. (\A x \in calls : AllFit(x.answer.rows, x.q))'
  <2>1. \A x \in calls : AllFit(x.answer.rows, x.q)
    BY DEF PopInv
  <2>2. \A x \in calls' : AllFit(x.answer.rows, x.q)
    BY <1>3, <1>5, <1>6, <2>1
  <2> QED
    BY <2>2 DEF AllFit, Fits
<1> QED
  BY <1>1, <1>4, <1>7, <1>9, <1>10, <1>11 DEF PopInv

(* Rows at the end of rows.                                                *)
LEMMA AppendFits ==
  ASSUME NEW q, NEW es \in Seq(Entry), NEW rows \in Seq(Entry), AllFit(es, q), AllFit(rows, q)
  PROVE  es \o rows \in Seq(Entry) /\ AllFit(es \o rows, q)
<1>1. es \o rows \in Seq(Entry)
  OBVIOUS
<1>2. ASSUME NEW i \in DOMAIN (es \o rows)
      PROVE  Fits((es \o rows)[i], q)
  <2>1. Len(es) \in Nat /\ Len(rows) \in Nat /\ DOMAIN es = 1..Len(es) /\ DOMAIN rows = 1..Len(rows)
        /\ i \in 1..(Len(es) + Len(rows))
    OBVIOUS
  <2>2. CASE i <= Len(es)
    <3>1. i \in 1..Len(es) /\ (es \o rows)[i] = es[i]
      BY <2>1, <2>2
    <3> QED
      BY <2>1, <3>1 DEF AllFit
  <2>3. CASE ~(i <= Len(es))
    <3>1. i - Len(es) \in 1..Len(rows) /\ (es \o rows)[i] = rows[i - Len(es)]
      BY <2>1, <2>3
    <3> QED
      BY <2>1, <3>1 DEF AllFit
  <2> QED
    BY <2>2, <2>3
<1> QED
  BY <1>1, <1>2 DEF AllFit

LEMMA AppendEntriesIs ==
  ASSUME NEW u \in UiShape, NEW rows \in Seq(Entry)
  PROVE  /\ append_entries(u, rows) \in UiShape
         /\ append_entries(u, rows).entries = u.entries \o rows
         /\ append_entries(u, rows).text = u.text /\ append_entries(u, rows).filter = u.filter
         /\ append_entries(u, rows).generation = u.generation
<1>1. u.entries \in Seq(Entry)
  BY DEF UiShape
<1>2. u.entries \o rows \in Seq(Entry) /\ (Len(rows) < PAGE_LIMIT) \in BOOLEAN
  BY <1>1
<1>e. PICK es \in Seq(Entry) : es = u.entries \o rows
  BY <1>2
<1>x. PICK x \in BOOLEAN : x = (Len(rows) < PAGE_LIMIT)
  BY <1>2
<1>3. append_entries(u, rows) = [u EXCEPT !.entries = es, !.exhausted = x]
  BY <1>e, <1>x DEF append_entries
<1> QED
  BY <1>3, <1>e DEF UiShape

(* A further page is added to the rows.                                    *)
LEMMA NextPageIs ==
  ASSUME NEW u \in UiShape, NEW a \in Reply
  PROVE  /\ next_page(u, a) \in UiShape
         /\ next_page(u, a).entries = u.entries \o a.rows
         /\ next_page(u, a).text = u.text /\ next_page(u, a).filter = u.filter
         /\ next_page(u, a).generation = u.generation
<1>1. a.rows \in Seq(Entry) /\ u.entries \in Seq(Entry)
  BY DEF UiShape, Reply
<1>2. CASE a.rows # <<>>
  BY <1>1, <1>2, AppendEntriesIs DEF next_page
<1>3. CASE a.rows = <<>>
  <2>1. next_page(u, a) = [u EXCEPT !.exhausted = TRUE]
    BY <1>3 DEF next_page
  <2>2. u.entries \o a.rows = u.entries
    BY <1>1, <1>3
  <2> QED
    BY <2>1, <2>2 DEF UiShape
<1> QED
  BY <1>2, <1>3

(* A first page takes the place of the rows.                               *)
LEMMA ShowPageIs ==
  ASSUME NEW u \in UiShape, NEW a \in Reply
  PROVE  /\ show_page(u, a) \in UiShape
         /\ show_page(u, a).entries = a.rows \/ show_page(u, a).entries = <<>>
         /\ show_page(u, a).text = u.text /\ show_page(u, a).filter = u.filter
         /\ show_page(u, a).generation = u.generation
<1>c. PICK c : c = [u EXCEPT !.rendered_query = u.text, !.entries = <<>>, !.exhausted = TRUE]
  OBVIOUS
<1>1. a.rows \in Seq(Entry) /\ u.text \in Texts /\ <<>> \in Seq(Entry)
  BY EmptySeq DEF UiShape, Reply
<1>2. /\ c \in UiShape /\ c.entries = <<>> /\ c.text = u.text /\ c.filter = u.filter
      /\ c.generation = u.generation
  <2>e. PICK es \in Seq(Entry) : es = <<>>
    BY <1>1
  <2>t. PICK t \in Texts : t = u.text
    BY <1>1
  <2>1. c = [u EXCEPT !.rendered_query = t, !.entries = es, !.exhausted = TRUE]
    BY <1>c, <2>e, <2>t
  <2> QED
    BY <2>1, <2>e DEF UiShape
<1>3. CASE a.is = "entries" /\ u.rendered_query = u.text /\ same_rows(u.entries, a.rows)
  <2>1. show_page(u, a) = u
    BY <1>3 DEF show_page
  <2> QED
    BY <2>1, <1>3 DEF same_rows
<1>d. ASSUME ~(a.is = "entries" /\ u.rendered_query = u.text /\ same_rows(u.entries, a.rows))
      PROVE  \/ show_page(u, a) = [c EXCEPT !.stack = "error"]
             \/ show_page(u, a) = [c EXCEPT !.stack = "empty"]
             \/ show_page(u, a) = [append_entries(c, a.rows) EXCEPT !.stack = "list"]
  BY <1>d, <1>c DEF show_page
<1>4. CASE show_page(u, a) = [c EXCEPT !.stack = "error"]
  BY <1>2, <1>4 DEF UiShape
<1>5. CASE show_page(u, a) = [c EXCEPT !.stack = "empty"]
  BY <1>2, <1>5 DEF UiShape
<1>6. CASE show_page(u, a) = [append_entries(c, a.rows) EXCEPT !.stack = "list"]
  <2>w. PICK w : w = append_entries(c, a.rows)
    OBVIOUS
  <2>1. /\ w \in UiShape /\ w.entries = c.entries \o a.rows /\ w.text = c.text /\ w.filter = c.filter
        /\ w.generation = c.generation
    BY <1>1, <1>2, <2>w, AppendEntriesIs
  <2>2. c.entries \o a.rows = a.rows
    BY <1>1, <1>2
  <2>3. show_page(u, a) = [w EXCEPT !.stack = "list"]
    BY <1>6, <2>w
  <2> QED
    BY <1>2, <2>1, <2>2, <2>3 DEF UiShape
<1> QED
  BY <1>3, <1>d, <1>4, <1>5, <1>6

LEMMA PageArrivesKeepsPopInv ==
  ASSUME PopInv, NEW r \in calls, PageArrives(r)
  PROVE  PopInv'
<1>u. PICK u : u = [ui EXCEPT !.loading_more = ui.loading_more /\ ~r.more]
  OBVIOUS
<1>v. PICK v : v = IF ~r.newest THEN u
                   ELSE IF r.more THEN next_page(u, r.answer) ELSE show_page(u, r.answer)
  OBVIOUS
<1>1. panod' = panod /\ calls' = calls \ {r} /\ ui' = v
  BY <1>u, <1>v DEF PageArrives
<1>2. /\ ui \in UiShape /\ panod \in Panod /\ calls \in SUBSET CallShape
      /\ \A x \in calls : x.newest => Asked(x, ui)
      /\ \A x \in calls : AllFit(x.answer.rows, x.q)
  BY DEF PopInv
<1>3. /\ u \in UiShape /\ u.text = ui.text /\ u.filter = ui.filter /\ u.generation = ui.generation
      /\ u.entries = ui.entries
  <2>1. (ui.loading_more /\ ~r.more) \in BOOLEAN
    OBVIOUS
  <2>b. PICK b \in BOOLEAN : b = (ui.loading_more /\ ~r.more)
    BY <2>1
  <2>2. u = [ui EXCEPT !.loading_more = b]
    BY <1>u, <2>b
  <2> QED
    BY <1>2, <2>2 DEF UiShape
<1>a. PICK a : a = r.answer
  OBVIOUS
<1>4. r \in CallShape /\ a \in Reply /\ a.rows \in Seq(Entry) /\ AllFit(a.rows, r.q)
  <2>1. r \in CallShape /\ AllFit(a.rows, r.q)
    BY <1>a, <1>2
  <2>2. a \in Reply
    BY <1>a, <2>1 DEF CallShape
  <2> QED
    BY <2>1, <2>2 DEF Reply
<1>5. /\ v \in UiShape /\ v.text = ui.text /\ v.filter = ui.filter /\ v.generation = ui.generation
  <2>1. CASE ~r.newest
    BY <1>v, <1>3, <2>1
  <2>2. CASE r.newest /\ r.more
    BY <1>v, <1>a, <1>3, <1>4, <2>2, NextPageIs
  <2>3. CASE r.newest /\ ~r.more
    BY <1>v, <1>a, <1>3, <1>4, <2>3, ShowPageIs
  <2> QED
    BY <2>1, <2>2, <2>3
<1>q. PICK q : q = current_query(ui, 0)
  OBVIOUS
<1>6. q.text = ui.text /\ q.filter = ui.filter
  BY <1>q DEF current_query
<1>7. ~ui.generation /\ ~Waits(calls) => AllFit(ui.entries, q)
  BY <1>q DEF PopInv
<1>8. r.newest /\ ~ui.generation => AllFit(a.rows, q)
  <2>1. SUFFICES ASSUME r.newest, ~ui.generation
                 PROVE  AllFit(a.rows, q)
    OBVIOUS
  <2>2. r.q.text = q.text /\ r.q.filter = q.filter
    BY <1>2, <1>6, <2>1 DEF Asked
  <2> QED
    BY <1>4, <2>2 DEF AllFit, Fits
<1>9. ASSUME ~ui.generation, ~Waits(calls \ {r})
      PROVE  AllFit(v.entries, q)
  <2>1. CASE r.newest /\ ~r.more
    <3>1. v.entries = a.rows \/ v.entries = <<>>
      BY <1>v, <1>a, <1>3, <1>4, <2>1, ShowPageIs
    <3>2. AllFit(<<>>, q)
      BY DEF AllFit
    <3> QED
      BY <1>8, <1>9, <2>1, <3>1, <3>2
  <2>2. CASE ~(r.newest /\ ~r.more)
    <3>1. ~Waits(calls)
      BY <1>9, <2>2 DEF Waits
    <3>2. AllFit(ui.entries, q)
      BY <1>7, <1>9, <3>1
    <3>3. CASE ~r.newest
      BY <1>v, <1>3, <3>2, <3>3
    <3>4. CASE r.newest /\ r.more
      <4>1. v.entries = u.entries \o a.rows
        BY <1>v, <1>a, <1>3, <1>4, <3>4, NextPageIs
      <4>2. u.entries \in Seq(Entry)
        BY <1>3 DEF UiShape
      <4> QED
        BY <1>3, <1>4, <1>8, <1>9, <3>2, <3>4, <4>1, <4>2, AppendFits
    <3> QED
      BY <2>2, <3>3, <3>4
  <2> QED
    BY <2>1, <2>2
<1>10. (~ui.generation /\ ~Waits(calls) => AllFit(ui.entries, current_query(ui, 0)))'
  <2>1. current_query(ui, 0)' = q
    BY <1>1, <1>5, <1>q DEF current_query
  <2>2. Waits(calls)' = Waits(calls \ {r})
    BY <1>1 DEF Waits
  <2>3. (AllFit(ui.entries, current_query(ui, 0)))' = AllFit(v.entries, q)
    BY <1>1, <2>1 DEF AllFit, Fits
  <2> QED
    BY <1>1, <1>5, <1>9, <2>2, <2>3
<1>11. (\A x \in calls : x.newest => Asked(x, ui))'
  <2>1. \A x \in calls' : x.newest => Asked(x, ui)
    BY <1>1, <1>2
  <2> QED
    BY <1>1, <1>5, <2>1 DEF Asked
<1>12. (\A x \in calls : AllFit(x.answer.rows, x.q))'
  <2>1. \A x \in calls' : AllFit(x.answer.rows, x.q)
    BY <1>1, <1>2
  <2> QED
    BY <2>1 DEF AllFit, Fits
<1> QED
  BY <1>1, <1>2, <1>5, <1>10, <1>11, <1>12 DEF PopInv

-----------------------------------------------------------------------------
(* What the user does.                                                     *)
LEMMA TypeKeepsPopInv ==
  ASSUME PopInv, NEW t \in Texts, Type(t)
  PROVE  PopInv'
<1>1. panod' = panod /\ calls' = calls /\ ui' = [ui EXCEPT !.text = t, !.generation = TRUE]
  BY DEF Type
<1>2. ui \in UiShape /\ panod \in Panod /\ calls \in SUBSET CallShape
  BY DEF PopInv
<1>3. ui' \in UiShape /\ ui'.filter = ui.filter /\ ui'.generation
  BY <1>1, <1>2 DEF UiShape
<1>4. (~ui.generation /\ ~Waits(calls) => AllFit(ui.entries, current_query(ui, 0)))'
  BY <1>3
<1>5. (\A x \in calls : x.newest => Asked(x, ui))'
  BY <1>1, <1>3 DEF Asked, PopInv
<1>6. (\A x \in calls : AllFit(x.answer.rows, x.q))'
  BY <1>1 DEF AllFit, Fits, PopInv
<1> QED
  BY <1>1, <1>2, <1>3, <1>4, <1>5, <1>6 DEF PopInv

LEMMA LoadKeepsPopInv ==
  ASSUME PopInv, load_next_page
  PROVE  PopInv'
<1>1. /\ panod' = panod /\ ui' = [ui EXCEPT !.loading_more = TRUE]
      /\ calls' = calls \cup {Page(ui, Len(ui.entries), TRUE)}
  BY DEF load_next_page
<1>2. ui \in UiShape /\ panod \in Panod /\ calls \in SUBSET CallShape
  BY DEF PopInv
<1>3. /\ ui' \in UiShape /\ ui'.filter = ui.filter /\ ui'.generation = ui.generation
      /\ ui'.text = ui.text /\ ui'.entries = ui.entries
  BY <1>1, <1>2 DEF UiShape
<1>p. PICK p : p = Page(ui, Len(ui.entries), TRUE)
  OBVIOUS
<1>4. /\ p \in CallShape /\ p.q.text = ui.text /\ p.q.filter = ui.filter
      /\ p.newest /\ p.more /\ p.answer.rows = <<>>
  <2>n. PICK n \in Nat : n = Len(ui.entries)
    BY <1>2 DEF UiShape
  <2>1. /\ p \in CallShape /\ p.q = current_query(ui, n) /\ p.newest /\ p.more = TRUE
        /\ p.answer.rows = <<>>
    BY <1>p, <1>2, <2>n, PageIsCall
  <2>2. current_query(ui, n).text = ui.text /\ current_query(ui, n).filter = ui.filter
    BY <1>2, PageIsCall
  <2> QED
    BY <2>1, <2>2
<1>5. calls' = calls \cup {p}
  BY <1>1, <1>p
<1>6. calls' \in SUBSET CallShape
  BY <1>2, <1>4, <1>5
<1>7. (~ui.generation /\ ~Waits(calls) => AllFit(ui.entries, current_query(ui, 0)))'
  <2>1. ~ui.generation /\ ~Waits(calls) => AllFit(ui.entries, current_query(ui, 0))
    BY DEF PopInv
  <2>2. current_query(ui, 0)' = current_query(ui, 0)
    BY <1>3 DEF current_query
  <2>3. Waits(calls) => Waits(calls)'
    BY <1>5 DEF Waits
  <2>4. AllFit(ui.entries, current_query(ui, 0)) => AllFit(ui.entries, current_query(ui, 0))'
    BY <1>3, <2>2 DEF AllFit, Fits
  <2> QED
    BY <1>3, <2>1, <2>3, <2>4
<1>8. (\A x \in calls : x.newest => Asked(x, ui))'
  <2>1. \A x \in calls' : x.newest => Asked(x, ui)
    BY <1>4, <1>5 DEF Asked, PopInv
  <2> QED
    BY <1>3, <2>1 DEF Asked
<1>9. (\A x \in calls : AllFit(x.answer.rows, x.q))'
  <2>1. AllFit(p.answer.rows, p.q)
    BY <1>4 DEF AllFit
  <2>2. \A x \in calls' : AllFit(x.answer.rows, x.q)
    BY <1>5, <2>1 DEF PopInv
  <2> QED
    BY <2>2 DEF AllFit, Fits
<1> QED
  BY <1>1, <1>2, <1>3, <1>6, <1>7, <1>8, <1>9 DEF PopInv

LEMMA BuildKeepsPopInv ==
  ASSUME PopInv, build
  PROVE  PopInv'
<1>1. panod' = panod /\ panod \in Panod
  BY DEF PopInv, build
<1>2. PICK ok \in BOOLEAN : /\ ui' = sync_status([NewUi EXCEPT !.pollers = 1], panod, ok)
                            /\ calls' = {Page(NewUi, 0, FALSE)}
  BY DEF build
<1>u. PICK u : u = [NewUi EXCEPT !.pollers = 1]
  OBVIOUS
<1>3. /\ u \in UiShape /\ u.text = NewUi.text /\ u.filter = NewUi.filter
  BY <1>u, NewUiIs DEF UiShape
<1>4. current_query(u, 0) = current_query(NewUi, 0)
  BY <1>3 DEF current_query
<1>5. Page(u, 0, FALSE) = Page(NewUi, 0, FALSE)
  BY <1>4 DEF Page
<1>6. ui' = sync_status(u, panod', ok) /\ calls' = {Page(u, 0, FALSE)}
  BY <1>1, <1>2, <1>5, <1>u
<1>p. PICK p : p = Page(u, 0, FALSE)
  OBVIOUS
<1>7. /\ p \in CallShape /\ p.q.text = u.text /\ p.q.filter = u.filter
      /\ p.newest /\ ~p.more /\ p.answer.rows = <<>>
  <2>1. p \in CallShape /\ p.q = current_query(u, 0) /\ p.newest /\ p.more = FALSE /\ p.answer.rows = <<>>
    BY <1>3, <1>p, PageIsCall
  <2>2. current_query(u, 0).text = u.text /\ current_query(u, 0).filter = u.filter
    BY <1>3, PageIsCall
  <2> QED
    BY <2>1, <2>2
<1>8. ui' \in UiShape /\ ui'.text = u.text /\ ui'.filter = u.filter
  <2>1. ui' \in UiShape /\ Alike(ui', u)
    BY <1>1, <1>3, <1>6, StatusIs
  <2> QED
    BY <2>1 DEF Alike
<1>9. Waits(calls')
  BY <1>6, <1>7, <1>p DEF Waits
<1>10. (~ui.generation /\ ~Waits(calls) => AllFit(ui.entries, current_query(ui, 0)))'
  BY <1>9
<1>11. (\A x \in calls : x.newest => Asked(x, ui))'
  BY <1>6, <1>7, <1>8, <1>p DEF Asked
<1>12. (\A x \in calls : AllFit(x.answer.rows, x.q))'
  <2>1. calls' = {p} /\ AllFit(p.answer.rows, p.q)
    BY <1>6, <1>7, <1>p DEF AllFit
  <2> QED
    BY <2>1 DEF AllFit, Fits
<1> QED
  BY <1>1, <1>6, <1>7, <1>8, <1>10, <1>11, <1>12, <1>p DEF PopInv

(* A request on the GTK thread leaves panod as it may be.                  *)
LEMMA CallIsPanod ==
  ASSUME panod \in Panod, NEW ok \in BOOLEAN, NEW read, NEW ds \in SUBSET Panod, Call(ok, read, ds)
  PROVE  panod' \in Panod
BY DEF Call

LEMMA ThenStep ==
  ASSUME PopInv, panod' \in Panod, NEW ok \in BOOLEAN, NEW read \in BOOLEAN, Then(ok, read)
  PROVE  PopInv'
<1>1. ui \in UiShape
  BY DEF PopInv
<1>2. CASE ok
  <2>1. refresh(ui, read)
    BY <1>2 DEF Then
  <2> QED
    BY <1>1, <2>1, RefreshStep
<1>3. CASE ~ok
  <2>1. ui' = ui /\ calls' = calls
    BY <1>3 DEF Then
  <2>2. Alike(ui', ui) /\ ui' \in UiShape
    BY <1>1, <2>1 DEF Alike
  <2> QED
    BY <2>1, <2>2, QuietStep
<1> QED
  BY <1>2, <1>3

LEMMA UserKeepsPopInv ==
  ASSUME PopInv, UserNext
  PROVE  PopInv'
<1>0. ui \in UiShape /\ panod \in Panod
  BY DEF PopInv
<1>1. CASE build
  BY <1>1, BuildKeepsPopInv
<1>2. CASE \E t \in Texts : Type(t)
  BY <1>2, TypeKeepsPopInv
<1>3. ASSUME NEW f \in Filters, ChooseChip(f)
      PROVE  PopInv'
  <2>1. PICK ok \in BOOLEAN : panod' = panod /\ refresh([ui EXCEPT !.filter = f], ok)
    BY <1>3 DEF ChooseChip
  <2>2. [ui EXCEPT !.filter = f] \in UiShape
    BY <1>0 DEF UiShape
  <2> QED
    BY <1>0, <2>1, <2>2, RefreshStep
<1>4. CASE Retry
  <2>1. PICK ok \in BOOLEAN : panod' = panod /\ refresh(ui, ok)
    BY <1>4 DEF Retry
  <2> QED
    BY <1>0, <2>1, RefreshStep
<1>5. CASE load_next_page
  BY <1>5, LoadKeepsPopInv
<1>6. ASSUME NEW e, toggle_pin(e)
      PROVE  PopInv'
  <2>1. PICK ok \in BOOLEAN, read \in BOOLEAN : Call(ok, read, set_pinned(panod, e.content, ~e.pinned)) /\ Then(ok, read)
    BY <1>6 DEF toggle_pin
  <2>2. (~e.pinned) \in BOOLEAN
    OBVIOUS
  <2>3. set_pinned(panod, e.content, ~e.pinned) \in SUBSET Panod
    BY <1>0, <2>2, RequestsArePanod
  <2>4. panod' \in Panod
    BY <1>0, <2>1, <2>3, CallIsPanod
  <2> QED
    BY <2>1, <2>4, ThenStep
<1>7. ASSUME NEW e, delete_entry(e)
      PROVE  PopInv'
  <2>1. PICK ok \in BOOLEAN, read \in BOOLEAN : Call(ok, read, delete(panod, e.content)) /\ Then(ok, read)
    BY <1>7 DEF delete_entry
  <2>2. delete(panod, e.content) \in SUBSET Panod
    BY <1>0, RequestsArePanod
  <2>3. panod' \in Panod
    BY <1>0, <2>1, <2>2, CallIsPanod
  <2> QED
    BY <2>1, <2>3, ThenStep
<1>8. ASSUME NEW e, Recall(e)
      PROVE  PopInv'
  <2>1. panod' = panod /\ calls' = calls /\ ui' = [ui EXCEPT !.window = "hidden"]
    BY <1>8 DEF Recall
  <2>2. ui' \in UiShape /\ Alike(ui', ui)
    BY <1>0, <2>1 DEF UiShape, Alike
  <2> QED
    BY <1>0, <2>1, <2>2, QuietStep
<1>9. ASSUME NEW c, Undo(c)
      PROVE  PopInv'
  <2>1. PICK ok \in BOOLEAN, read \in BOOLEAN : Call(ok, read, restore(panod, c)) /\ Then(ok, read)
    BY <1>9 DEF Undo
  <2>2. restore(panod, c) \in SUBSET Panod
    BY <1>0, RequestsArePanod
  <2>3. panod' \in Panod
    BY <1>0, <2>1, <2>2, CallIsPanod
  <2> QED
    BY <2>1, <2>3, ThenStep
<1>10. CASE confirm_clear
  <2>1. PICK ok \in BOOLEAN, read \in BOOLEAN : Call(ok, read, clear(panod)) /\ Then(ok, read)
    BY <1>10 DEF confirm_clear
  <2>2. clear(panod) \in SUBSET Panod
    BY <1>0, RequestsArePanod
  <2>3. panod' \in Panod
    BY <1>0, <2>1, <2>2, CallIsPanod
  <2> QED
    BY <2>1, <2>3, ThenStep
<1>11. CASE TogglePrivate
  <2>1. PICK ok \in BOOLEAN : /\ Call(ok, TRUE, set_private_mode(panod, ~ui.private))
                              /\ ui' = IF ok THEN [ui EXCEPT !.private = ~@] ELSE ui
    BY <1>11 DEF TogglePrivate
  <2>2. calls' = calls
    BY <1>11 DEF TogglePrivate
  <2>3. (~ui.private) \in BOOLEAN
    OBVIOUS
  <2>4. set_private_mode(panod, ~ui.private) \in SUBSET Panod
    BY <1>0, <2>3, FlagsArePanod
  <2>5. panod' \in Panod
    BY <1>0, <2>1, <2>4, CallIsPanod
  <2>b. PICK b \in BOOLEAN : b = ~ui.private
    BY <2>3
  <2>6. ui' = [ui EXCEPT !.private = b] \/ ui' = ui
    BY <2>1, <2>b
  <2>7. ui' \in UiShape /\ Alike(ui', ui)
    BY <1>0, <2>6 DEF UiShape, Alike
  <2> QED
    BY <2>2, <2>5, <2>7, QuietStep
<1>12. CASE Close
  <2>1. panod' = panod /\ calls' = {} /\ ui' = Closed
    BY <1>12 DEF Close
  <2> QED
    BY <1>0, <2>1, NewUiIs, BlankStep
<1> QED
  BY <1>1, <1>2, <1>3, <1>4, <1>5, <1>6, <1>7, <1>8, <1>9, <1>10, <1>11, <1>12 DEF UserNext

(* Timers and callbacks.                                                   *)
LEMMA PollKeepsPopInv ==
  ASSUME PopInv, Poll
  PROVE  PopInv'
<1>0. ui \in UiShape /\ panod \in Panod /\ panod' = panod
  BY DEF PopInv, Poll
<1>1. \/ \E again \in BOOLEAN : refresh(sync_status(ui, panod, TRUE), again)
      \/ \E ok \in BOOLEAN : ui' = sync_status(ui, panod, ok) /\ calls' = calls
      \/ ui' = [ui EXCEPT !.pollers = @ - 1] /\ calls' = calls
  BY DEF Poll
<1>2. ASSUME NEW again \in BOOLEAN, refresh(sync_status(ui, panod, TRUE), again)
      PROVE  PopInv'
  BY <1>0, <1>2, StatusIs, RefreshStep
<1>3. ASSUME NEW ok \in BOOLEAN, ui' = sync_status(ui, panod, ok), calls' = calls
      PROVE  PopInv'
  BY <1>0, <1>3, StatusIs, QuietStep
<1>4. CASE ui' = [ui EXCEPT !.pollers = @ - 1] /\ calls' = calls
  <2>1. ui' \in UiShape /\ Alike(ui', ui)
    BY <1>0, <1>4 DEF UiShape, Alike
  <2> QED
    BY <1>0, <1>4, <2>1, QuietStep
<1> QED
  BY <1>1, <1>2, <1>3, <1>4

LEMMA GtkKeepsPopInv ==
  ASSUME PopInv, GtkNext
  PROVE  PopInv'
<1>0. ui \in UiShape /\ panod \in Panod
  BY DEF PopInv
<1>1. CASE KeystrokeTimer
  <2>1. PICK ok \in BOOLEAN : panod' = panod /\ refresh([ui EXCEPT !.generation = FALSE], ok)
    BY <1>1 DEF KeystrokeTimer
  <2>2. [ui EXCEPT !.generation = FALSE] \in UiShape
    BY <1>0 DEF UiShape
  <2> QED
    BY <1>0, <2>1, <2>2, RefreshStep
<1>2. CASE Poll
  BY <1>2, PollKeepsPopInv
<1>3. CASE RecallTimer
  <2>1. panod' = panod /\ ui' = ui /\ calls' = calls
    BY <1>3 DEF RecallTimer
  <2> QED
    BY <1>0, <2>1, QuietStep DEF Alike
<1>4. CASE RecallAnswer
  <2>1. PICK ok \in BOOLEAN : Call(ok, TRUE, recall(panod, recalling.of))
    BY <1>4 DEF RecallAnswer
  <2>2. ui' = ui /\ calls' = calls
    BY <1>4 DEF RecallAnswer
  <2>3. recall(panod, recalling.of) \in SUBSET Panod
    BY <1>0, RequestsArePanod
  <2>4. panod' \in Panod
    BY <1>0, <2>1, <2>3, CallIsPanod
  <2> QED
    BY <1>0, <2>2, <2>4, QuietStep DEF Alike
<1>5. CASE RecallReturns
  <2>0. panod' = panod
    BY <1>5 DEF RecallReturns
  <2>1. CASE ui' = Closed /\ calls' = {}
    BY <1>0, <2>0, <2>1, NewUiIs, BlankStep
  <2>2. CASE ui' = [ui EXCEPT !.window = "shown", !.pollers = @ + 1] /\ calls' = calls
    <3>n. PICK n \in Int : n = ui.pollers + 1
      BY <1>0 DEF UiShape
    <3>1. ui' = [ui EXCEPT !.window = "shown", !.pollers = n]
      BY <2>2, <3>n
    <3>2. ui' \in UiShape
      BY <1>0, <3>1 DEF UiShape
    <3>3. Alike(ui', ui)
      BY <1>0, <3>1 DEF UiShape, Alike
    <3> QED
      BY <1>0, <2>0, <2>2, <3>2, <3>3, QuietStep
  <2> QED
    BY <1>5, <2>1, <2>2 DEF RecallReturns, recall_with
<1> QED
  BY <1>1, <1>2, <1>3, <1>4, <1>5 DEF GtkNext

LEMMA ServiceKeepsPopInv ==
  ASSUME PopInv, ServiceNext
  PROVE  PopInv'
<1>0. ui \in UiShape /\ panod \in Panod /\ ui' = ui /\ calls' = calls
  BY DEF PopInv, ServiceNext
<1>1. SvcNext
  BY DEF ServiceNext
<1>2. panod' \in Others(panod) \/ panod' \in collect_garbage(panod) \/ panod' = panod
  BY <1>1 DEF SvcNext, OtherClient, maintain, Subscribe, SubscribeLoop, WriteEvent, Changed, Disconnect
<1>3. panod' \in Panod
  BY <1>0, <1>2, OthersArePanod, GarbageIsPanod
<1> QED
  BY <1>0, <1>3, QuietStep DEF Alike

LEMMA PopInvStep ==
  ASSUME PopInv, [Next]_vars
  PROVE  PopInv'
<1>1. CASE UserNext
  BY <1>1, UserKeepsPopInv
<1>2. CASE GtkNext
  BY <1>2, GtkKeepsPopInv
<1>3. CASE WorkerNext
  BY <1>3, AnswerKeepsPopInv, PageArrivesKeepsPopInv DEF WorkerNext
<1>4. CASE ServiceNext
  BY <1>4, ServiceKeepsPopInv
<1>5. CASE UNCHANGED vars
  <2>1. panod' = panod /\ ui' = ui /\ calls' = calls
    BY <1>5 DEF vars
  <2>2. ui \in UiShape /\ panod \in Panod
    BY DEF PopInv
  <2> QED
    BY <2>1, <2>2, QuietStep DEF Alike
<1> QED
  BY <1>1, <1>2, <1>3, <1>4, <1>5 DEF Next

LEMMA PopInvInit ==
  ASSUME Init
  PROVE  PopInv
<1>1. panod \in Panod
  <2>1. PICK h : /\ panod = [hist |-> h, private |-> FALSE, app_locked |-> FALSE,
                             revision |-> 1, watched |-> 1]
                 /\ \/ h = [c \in Content |-> NoRow]
                    \/ h = [c \in Content |-> [NoRow EXCEPT !.state = "live"]]
    BY DEF Init, SvcInit
  <2>2. NoRow \in Row /\ [NoRow EXCEPT !.state = "live"] \in Row
    BY DEF NoRow, Row
  <2>3. h \in [Content -> Row]
    BY <2>1, <2>2
  <2> QED
    BY <2>1, <2>3 DEF Panod
<1>2. ui = Closed /\ calls = {}
  BY DEF Init
<1>3. AllFit(ui.entries, current_query(ui, 0))
  BY <1>2, NewUiIs DEF AllFit
<1> QED
  BY <1>1, <1>2, <1>3, NewUiIs DEF PopInv

(* When nothing is on its way, every row in the grid is one the search box *)
(* and the chip ask for, in whatever order panod answered the pages and    *)
(* the timers ran (query_generation, the generation of the keystrokes).    *)
THEOREM RowsMatch == Spec => []OnlyMatches
<1>1. Init => PopInv
  BY PopInvInit
<1>2. PopInv /\ [Next]_vars => PopInv'
  BY PopInvStep
<1>3. PopInv => OnlyMatches
  <2>1. SUFFICES ASSUME PopInv, AtRest, NEW e \in Shown
                 PROVE  e.content \in Matches[ui.text] /\ (ui.filter = "pinned" => e.pinned)
    BY DEF OnlyMatches
  <2>2. ~ui.generation /\ ~Waits(calls)
    BY <2>1 DEF AtRest, Waits
  <2>3. AllFit(ui.entries, current_query(ui, 0))
    BY <2>1, <2>2 DEF PopInv
  <2>4. PICK i \in DOMAIN ui.entries : e = ui.entries[i]
    BY DEF Shown
  <2>5. Fits(e, current_query(ui, 0))
    BY <2>3, <2>4 DEF AllFit
  <2> QED
    BY <2>5 DEF Fits, current_query
<1> QED
  BY <1>1, <1>2, <1>3, PTL DEF Spec

-----------------------------------------------------------------------------
(* The Devices page.  DevInv is the inductive invariant: where a question  *)
(* and its answer are (Match), who was agreed to (Consent), which request  *)
(* the dialog would cancel (Closes), how old a report may be (Timely).     *)

(* The state of the page, of the service and of what is between them.      *)
Groups == {"none", "member", "removed"}
Report == [up : BOOLEAN, v : Nat, group : Groups]
Tidings == [is : {"listening", "link", "joining", "ask", "failed", "done", "error"}, of : Nat, v : Nat]

ServiceShape ==
  [at : {"down", "starting", "up"}, v : Nat, group : Groups, window : Flow \cup {None}, tries : Nat,
   attempt : [n : Nat, at : {"idle", "asked", "accepted", "refused"}]]

PageShape ==
  [open : BOOLEAN, shown : Report, by : {"refresh", "switch"}, told : Nat, probing : BOOLEAN,
   again : BOOLEAN, switch : BOOLEAN, toggling : BOOLEAN, slot : Flow \cup {None},
   top : Flow \cup {None}]

ProbeShape == [by : {"refresh", "switch"}, at : {"asks", "back"}, saw : Report, on : BOOLEAN, polls : Nat]

WorkerShape ==
  [at : {"free", "unit", "unitback", "request", "requestback"},
   of : {"none", "stop", "start", "remove", "leave"}, ok : BOOLEAN, v : Nat]

SubpageShape ==
  [kind : Kind \cup {"none"}, screen : {"none", "form", "busy", "listening", "link", "ask", "end"},
   about : Nat, over : BOOLEAN, started : BOOLEAN, handle : BOOLEAN, leaving : BOOLEAN]

WireShape ==
  [thread : {"none", "connecting", "connected", "reading", "done"}, shut : BOOLEAN, served : BOOLEAN,
   up : Seq(BOOLEAN), down : Seq(Tidings)]

TaskShape ==
  [at : {"none", "request", "loop", "asking", "joining", "joinasking", "finishing", "failing", "ended"},
   inbox : Seq(Tidings), asked : Nat]

JoinedShape == [all : Seq(Kind), in : SUBSET Nat]

DevShape ==
  /\ service \in ServiceShape /\ page \in PageShape /\ probes \in SUBSET ProbeShape
  /\ worker \in WorkerShape /\ flow \in [Flow -> SubpageShape] /\ wire \in [Flow -> WireShape]
  /\ ctl \in [Flow -> TaskShape] /\ said \in SUBSET Nat /\ joined \in JoinedShape

(* The answers.  A task that waits for one has asked one question, which   *)
(* is on its way, on the screen, or answered by the one line that is on    *)
(* its way back; no other task has a question or an answer under way.      *)
NoAsk(es) == \A i \in DOMAIN es : es[i].is # "ask"

OneAsk(es, n) == \A i \in DOMAIN es : es[i].is = "ask" => es[i].of = n /\ i = Len(es)

Silent(w, fl) == ~fl.over => NoAsk(w.down) /\ fl.screen # "ask"

Asks(t, w, fl) ==
  ~fl.over => /\ OneAsk(w.down, t.asked)
              /\ fl.screen = "ask" => w.down = <<>> /\ fl.about = t.asked

Yes(t, w, ys) == \E b \in BOOLEAN : w.up = <<b>> /\ (b => t.asked \in ys)

Base(t, w, fl) ==
  /\ w.thread \in {"none", "connecting"} => t.at = "none"
  /\ fl.screen \in {"none", "form"} => w.thread = "none"
  /\ fl.started <=> w.thread # "none"
  /\ w.shut => fl.over

Match(t, w, fl, ys) ==
  /\ Base(t, w, fl)
  /\ t.at \in {"none", "request", "loop", "joining"} => w.up = <<>> /\ Silent(w, fl)
  /\ t.at \in {"asking", "joinasking"} =>
       \/ w.up = <<>> /\ Asks(t, w, fl)
       \/ Yes(t, w, ys) /\ Silent(w, fl)
  /\ t.at = "finishing" => t.asked \in ys

(* Who may be a member: the user said yes, or the attempt came by a link.  *)
Agreed(n, ys, all) == n \in ys \/ (n \in DOMAIN all /\ all[n] = "invite")

Consent(s, j, ys) ==
  /\ s.attempt.at = "accepted" => Agreed(s.attempt.n, ys, j.all)
  /\ \A n \in j.in : Agreed(n, ys, j.all)

Windowed(s, fs) == s.window # None => fs[s.window].kind \in {"pair", "invite"}

(* The request of a subpage that is not over, nor about to be, is the one  *)
(* that the open dialog would cancel.                                      *)
Closes(p, fs) ==
  /\ p.top # None => p.open /\ p.slot = p.top
  /\ \A f \in Flow :
       /\ fs[f].leaving => p.top # f
       /\ fs[f].started /\ ~fs[f].over /\ ~fs[f].leaving => p.top = f

(* No line tells of a state that is still to come, at most one probe is    *)
(* under way for the page, and what it brings is shown only when it is not *)
(* older than what the user was told.                                      *)
Dated(es, v) == \A i \in DOMAIN es : es[i].v <= v

OneProbe(p, ps) ==
  /\ \A x \in ps : x.by = "refresh" => p.probing
  /\ \A x, y \in ps : x.by = "refresh" /\ y.by = "refresh" => x = y

Timely(p, ps) ==
  ~p.again => \A x \in ps : x.by = "refresh" /\ x.at = "back" /\ x.saw.up => x.saw.v >= p.told

Fresh(p) == p.shown.up => p.shown.v >= p.told \/ p.by = "switch"

DevInv ==
  /\ DevShape
  /\ \A f \in Flow : /\ Match(ctl[f], wire[f], flow[f], said)
                     /\ Dated(wire[f].down, service.v) /\ Dated(ctl[f].inbox, service.v)
  /\ Windowed(service, flow) /\ Consent(service, joined, said)
  /\ page.told <= service.v /\ worker.v <= service.v
  /\ OneProbe(page, probes) /\ Timely(page, probes) /\ Fresh(page)
  /\ Closes(page, flow)

-----------------------------------------------------------------------------
(* Lines and tasks have their shape.                                       *)
LEMMA NoneIsNoFlow == None \notin Flow /\ Flow \subseteq Nat /\ None \in Nat
BY DevicesAssumption DEF None

LEMMA TidingsAre ==
  /\ \A n \in Nat : /\ Event("ask", n) \in Tidings /\ Event("failed", n) \in Tidings
                    /\ Event("listening", n) \in Tidings /\ Event("link", n) \in Tidings
                    /\ Event("joining", n) \in Tidings
  /\ \A v \in Nat : Done(v) \in Tidings
  /\ Error \in Tidings
BY DEF Event, Done, Error, Tidings, None

LEMMA BlanksAre ==
  NoTask \in TaskShape /\ Ended \in TaskShape /\ Blank \in SubpageShape /\ NoWire \in WireShape
<1>1. <<>> \in Seq(Tidings) /\ <<>> \in Seq(BOOLEAN)
  BY EmptySeq
<1>2. NoTask \in TaskShape
  <2>e. PICK es \in Seq(Tidings) : es = <<>>
    BY <1>1
  <2>1. NoTask = [at |-> "none", inbox |-> es, asked |-> 0]
    BY <2>e DEF NoTask, None
  <2> QED
    BY <2>1 DEF TaskShape
<1>3. Ended \in TaskShape
  BY <1>2 DEF Ended, TaskShape
<1>4. Blank \in SubpageShape
  BY DEF Blank, SubpageShape, None
<1>5. NoWire \in WireShape
  <2>e. PICK es \in Seq(Tidings) : es = <<>>
    BY <1>1
  <2>b. PICK bs \in Seq(BOOLEAN) : bs = <<>>
    BY <1>1
  <2>1. NoWire = [thread |-> "none", shut |-> FALSE, served |-> FALSE, up |-> bs, down |-> es]
    BY <2>e, <2>b DEF NoWire
  <2> QED
    BY <2>1 DEF WireShape
<1> QED
  BY <1>2, <1>3, <1>4, <1>5

(* A line at the end of what the client has not read.                      *)
Sent(w, e) == [w EXCEPT !.down = IF w.shut THEN w.down ELSE Append(w.down, e)]
SentLast(w, e) == [Sent(w, e) EXCEPT !.served = FALSE]

LEMMA SentIs ==
  ASSUME NEW w \in WireShape, NEW e \in Tidings
  PROVE  /\ Sent(w, e) \in WireShape /\ SentLast(w, e) \in WireShape
         /\ \A x \in {Sent(w, e), SentLast(w, e)} :
              /\ x.thread = w.thread /\ x.shut = w.shut /\ x.up = w.up
              /\ x.down = IF w.shut THEN w.down ELSE Append(w.down, e)
<1>1. w.down \in Seq(Tidings) /\ w.shut \in BOOLEAN
  BY DEF WireShape
<1>2. Append(w.down, e) \in Seq(Tidings)
  BY <1>1
<1>d. PICK es \in Seq(Tidings) : es = IF w.shut THEN w.down ELSE Append(w.down, e)
  BY <1>1, <1>2
<1>3. Sent(w, e) = [w EXCEPT !.down = es]
  BY <1>d DEF Sent
<1>4. SentLast(w, e) = [[w EXCEPT !.down = es] EXCEPT !.served = FALSE]
  BY <1>3 DEF SentLast
<1>5. Sent(w, e) \in WireShape
  BY <1>3 DEF WireShape
<1>6. SentLast(w, e) \in WireShape
  BY <1>4 DEF WireShape
<1>7. /\ Sent(w, e).thread = w.thread /\ Sent(w, e).shut = w.shut /\ Sent(w, e).up = w.up
      /\ Sent(w, e).down = es
  BY <1>3 DEF WireShape
<1>8. /\ SentLast(w, e).thread = w.thread /\ SentLast(w, e).shut = w.shut /\ SentLast(w, e).up = w.up
      /\ SentLast(w, e).down = es
  BY <1>4 DEF WireShape
<1> QED
  BY <1>d, <1>5, <1>6, <1>7, <1>8

LEMMA WritesAre ==
  ASSUME wire \in [Flow -> WireShape], NEW f \in Flow, NEW e
  PROVE  /\ Write(f, e) = [wire EXCEPT ![f] = Sent(wire[f], e)]
         /\ LastLine(f, e) = [wire EXCEPT ![f] = SentLast(wire[f], e)]
<1>1. Write(f, e) = [wire EXCEPT ![f] = Sent(wire[f], e)]
  BY DEF Write, Shut, Sent
<1>2. LastLine(f, e) = [wire EXCEPT ![f] = SentLast(wire[f], e)]
  BY DEF LastLine, Shut, Sent, SentLast
<1> QED
  BY <1>1, <1>2

(* A line for a task that waits for one.                                   *)
Got(t, e) == [t EXCEPT !.inbox = IF t.at \in {"loop", "asking"} THEN Append(t.inbox, e) ELSE t.inbox]

LEMMA GotIs ==
  ASSUME NEW t \in TaskShape, NEW e \in Tidings
  PROVE  /\ Got(t, e) \in TaskShape /\ Got(t, e).at = t.at /\ Got(t, e).asked = t.asked
         /\ Got(t, e).inbox = t.inbox \/ Got(t, e).inbox = Append(t.inbox, e)
<1>1. t.inbox \in Seq(Tidings)
  BY DEF TaskShape
<1>2. Append(t.inbox, e) \in Seq(Tidings)
  BY <1>1
<1>d. PICK es \in Seq(Tidings) : es = IF t.at \in {"loop", "asking"} THEN Append(t.inbox, e) ELSE t.inbox
  BY <1>1, <1>2
<1>3. Got(t, e) = [t EXCEPT !.inbox = es]
  BY <1>d DEF Got
<1> QED
  BY <1>d, <1>3 DEF TaskShape

LEMMA TellIs ==
  ASSUME ctl \in [Flow -> TaskShape], NEW f, NEW e
  PROVE  Tell(f, e) = IF f \in Flow THEN [ctl EXCEPT ![f] = Got(ctl[f], e)] ELSE ctl
BY DEF Tell, Got

-----------------------------------------------------------------------------
(* Questions among the lines.                                              *)
LEMMA AskAppended ==
  ASSUME NEW es \in Seq(Tidings), NEW e \in Tidings, NoAsk(es)
  PROVE  /\ e.is # "ask" => NoAsk(Append(es, e))
         /\ OneAsk(Append(es, e), e.of)
<1>1. /\ Len(es) \in Nat /\ DOMAIN es = 1..Len(es) /\ DOMAIN Append(es, e) = 1..(Len(es) + 1)
      /\ Len(Append(es, e)) = Len(es) + 1
  OBVIOUS
<1>2. \A i \in 1..(Len(es) + 1) : Append(es, e)[i] = IF i = Len(es) + 1 THEN e ELSE es[i]
  BY <1>1
<1>3. \A i \in 1..(Len(es) + 1) : i # Len(es) + 1 => i \in 1..Len(es)
  BY <1>1
<1>4. e.is # "ask" => NoAsk(Append(es, e))
  BY <1>1, <1>2, <1>3 DEF NoAsk
<1>5. OneAsk(Append(es, e), e.of)
  BY <1>1, <1>2, <1>3 DEF NoAsk, OneAsk
<1> QED
  BY <1>4, <1>5

(* t is es without its first event. *)
Rest(t, es) ==
  /\ Len(t) \in Nat /\ Len(es) = Len(t) + 1
  /\ \A i \in 1..Len(t) : t[i] = es[i + 1] /\ i + 1 \in 1..Len(es)

LEMMA AskLeft ==
  ASSUME NEW t, NEW es, NEW n, Rest(t, es), OneAsk(es, n)
  PROVE  OneAsk(t, n)
<1>1. ASSUME NEW i \in 1..Len(t), t[i].is = "ask"
      PROVE  t[i].of = n /\ i = Len(t)
  <2>1. t[i] = es[i + 1] /\ i + 1 \in 1..Len(es)
    BY DEF Rest
  <2>2. es[i + 1].of = n /\ i + 1 = Len(es)
    BY <1>1, <2>1 DEF OneAsk
  <2>m. PICK m \in Nat : m = Len(t) /\ Len(es) = m + 1
    BY DEF Rest
  <2>3. i = m
    BY <2>2, <2>m
  <2> QED
    BY <2>1, <2>2, <2>3, <2>m
<1> QED
  BY <1>1 DEF OneAsk

LEMMA AskTaken ==
  ASSUME NEW es \in Seq(Tidings), es # <<>>, NEW n
  PROVE  /\ Head(es) \in Tidings /\ Tail(es) \in Seq(Tidings)
         /\ NoAsk(es) => Head(es).is # "ask" /\ NoAsk(Tail(es))
         /\ OneAsk(es, n) => OneAsk(Tail(es), n)
         /\ OneAsk(es, n) /\ Head(es).is = "ask" => Head(es).of = n /\ Tail(es) = <<>>
<1>1. /\ Len(es) \in Nat /\ Len(es) > 0 /\ DOMAIN es = 1..Len(es) /\ Head(es) = es[1]
      /\ Head(es) \in Tidings /\ Tail(es) \in Seq(Tidings) /\ Len(Tail(es)) = Len(es) - 1
      /\ DOMAIN Tail(es) = 1..(Len(es) - 1)
  OBVIOUS
<1>2. \A i \in 1..(Len(es) - 1) : Tail(es)[i] = es[i + 1] /\ i + 1 \in 1..Len(es)
  BY <1>1
<1>3. 1 \in 1..Len(es)
  BY <1>1
<1>4. NoAsk(es) => Head(es).is # "ask" /\ NoAsk(Tail(es))
  BY <1>1, <1>2, <1>3 DEF NoAsk
<1>5. OneAsk(es, n) => OneAsk(Tail(es), n)
  <2>t. PICK t : t = Tail(es)
    OBVIOUS
  <2>1. Rest(t, es)
    BY <1>1, <1>2, <2>t DEF Rest
  <2>2. OneAsk(es, n) => OneAsk(t, n)
    BY <2>1, AskLeft
  <2> QED
    BY <2>2, <2>t
<1>6. OneAsk(es, n) /\ Head(es).is = "ask" => Head(es).of = n /\ Tail(es) = <<>>
  <2>1. SUFFICES ASSUME OneAsk(es, n), Head(es).is = "ask"
                 PROVE  Head(es).of = n /\ Tail(es) = <<>>
    OBVIOUS
  <2>2. Head(es).of = n /\ 1 = Len(es)
    BY <1>1, <1>3, <2>1 DEF OneAsk
  <2>3. Len(Tail(es)) = 0
    <3>m. PICK m \in Nat : m = Len(es)
      BY <1>1
    <3>1. m - 1 = 0
      BY <2>2, <3>m
    <3> QED
      BY <1>1, <3>m, <3>1
  <2> QED
    BY <1>1, <2>2, <2>3, EmptySeq
<1> QED
  BY <1>1, <1>4, <1>5, <1>6

(* What a step of the task or of the subpage leaves in order.              *)
LEMMA MatchMore ==
  ASSUME NEW t, NEW w, NEW fl, NEW ys, NEW zs, Match(t, w, fl, ys), ys \subseteq zs
  PROVE  Match(t, w, fl, zs)
BY DEF Match, Yes

LEMMA SayMatch ==
  ASSUME NEW t, NEW u, NEW w \in WireShape, NEW fl, NEW ys, NEW e \in Tidings, Match(t, w, fl, ys),
         t.at \in {"request", "loop", "joining"}, u.at \in {"request", "loop", "joining"},
         e.is # "ask"
  PROVE  Match(u, w, fl, ys) /\ Match(u, Sent(w, e), fl, ys)
<1>1. Match(u, w, fl, ys)
  BY DEF Match, Base
<1>2. /\ Sent(w, e).thread = w.thread /\ Sent(w, e).shut = w.shut /\ Sent(w, e).up = w.up
      /\ Sent(w, e).down = IF w.shut THEN w.down ELSE Append(w.down, e)
  BY SentIs
<1>3. w.down \in Seq(Tidings)
  BY DEF WireShape
<1>4. NoAsk(w.down) => NoAsk(Sent(w, e).down)
  BY <1>2, <1>3, AskAppended
<1>5. Silent(w, fl) => Silent(Sent(w, e), fl)
  BY <1>4 DEF Silent
<1> QED
  BY <1>1, <1>2, <1>5 DEF Match, Base

LEMMA EndMatch ==
  ASSUME NEW t, NEW u, NEW w, NEW x, NEW fl, NEW ys, Match(t, w, fl, ys), t.at # "none",
         u.at \in {"ended", "failing"}, x.thread = w.thread, x.shut = w.shut
  PROVE  Match(u, x, fl, ys)
BY DEF Match, Base

LEMMA AskMatch ==
  ASSUME NEW t, NEW u, NEW w \in WireShape, NEW fl, NEW ys, NEW e \in Tidings, Match(t, w, fl, ys),
         t.at \in {"loop", "joining"}, u.at \in {"asking", "joinasking"}, u.asked = e.of
  PROVE  Match(u, Sent(w, e), fl, ys)
<1>2. /\ Sent(w, e).thread = w.thread /\ Sent(w, e).shut = w.shut /\ Sent(w, e).up = w.up
      /\ Sent(w, e).down = IF w.shut THEN w.down ELSE Append(w.down, e)
  BY SentIs
<1>3. w.down \in Seq(Tidings) /\ w.shut \in BOOLEAN
  BY DEF WireShape
<1>4. w.up = <<>> /\ Silent(w, fl) /\ (w.shut => fl.over)
  BY DEF Match, Base
<1>5. ASSUME ~fl.over
      PROVE  OneAsk(Sent(w, e).down, u.asked) /\ fl.screen # "ask"
  <2>1. NoAsk(w.down) /\ fl.screen # "ask" /\ ~w.shut
    BY <1>4, <1>5 DEF Silent
  <2>2. OneAsk(Append(w.down, e), e.of)
    BY <1>3, <2>1, AskAppended
  <2> QED
    BY <1>2, <2>1, <2>2
<1>6. Asks(u, Sent(w, e), fl)
  BY <1>5 DEF Asks
<1> QED
  BY <1>2, <1>4, <1>6 DEF Match, Base

(* An answer that is taken is the answer to the question that was asked.   *)
Popped(w) == [w EXCEPT !.up = IF w.up = <<>> THEN w.up ELSE Tail(w.up)]

LEMMA OneAnswer ==
  ASSUME NEW b \in BOOLEAN
  PROVE  <<b>> # <<>> /\ Head(<<b>>) = b /\ Tail(<<b>>) = <<>>
OBVIOUS

LEMMA PoppedIs ==
  ASSUME NEW w \in WireShape
  PROVE  /\ Popped(w) \in WireShape /\ Popped(w).thread = w.thread /\ Popped(w).shut = w.shut
         /\ Popped(w).down = w.down /\ Popped(w).up = IF w.up = <<>> THEN w.up ELSE Tail(w.up)
<1>1. w.up \in Seq(BOOLEAN)
  BY DEF WireShape
<1>t. w.up # <<>> => Tail(w.up) \in Seq(BOOLEAN)
  BY <1>1, HeadTailProperties
<1>u. PICK bs \in Seq(BOOLEAN) : bs = IF w.up = <<>> THEN w.up ELSE Tail(w.up)
  BY <1>1, <1>t
<1>2. Popped(w) = [w EXCEPT !.up = bs]
  BY <1>u DEF Popped
<1> QED
  BY <1>u, <1>2 DEF WireShape

LEMMA AnswerMatch ==
  ASSUME NEW t, NEW u, NEW w \in WireShape, NEW fl, NEW ys, Match(t, w, fl, ys),
         t.at \in {"asking", "joinasking"}, w.up # <<>> \/ w.shut
  PROVE  /\ w.up # <<>> /\ Head(w.up) => t.asked \in ys
         /\ u.at = "loop" => Match(u, Popped(w), fl, ys)
         /\ u.at = "failing" => Match(u, Popped(w), fl, ys)
         /\ u.at = "finishing" /\ u.asked = t.asked /\ w.up # <<>> /\ Head(w.up)
              => Match(u, Popped(w), fl, ys)
<1>1. /\ Popped(w).thread = w.thread /\ Popped(w).shut = w.shut
      /\ Popped(w).down = w.down /\ Popped(w).up = IF w.up = <<>> THEN w.up ELSE Tail(w.up)
  BY PoppedIs
<1>2. Base(t, w, fl) /\ (w.up = <<>> \/ (Yes(t, w, ys) /\ Silent(w, fl)))
  BY DEF Match
<1>3. u.at # "none" /\ t.at # "none" => Base(u, Popped(w), fl)
  BY <1>1, <1>2 DEF Base
<1>4. w.up # <<>> /\ Head(w.up) => t.asked \in ys
  BY <1>2, OneAnswer DEF Yes
<1>5. Popped(w).up = <<>>
  BY <1>1, <1>2, OneAnswer DEF Yes
<1>6. Silent(Popped(w), fl)
  <2>1. CASE w.up = <<>>
    BY <1>2, <2>1 DEF Silent, Base
  <2>2. CASE w.up # <<>>
    BY <1>1, <1>2, <2>2 DEF Silent
  <2> QED
    BY <2>1, <2>2
<1> QED
  BY <1>3, <1>4, <1>5, <1>6 DEF Match

LEMMA OverMatch ==
  ASSUME NEW t, NEW w, NEW x, NEW fl, NEW gl, NEW ys, Match(t, w, fl, ys), Base(t, x, gl), gl.over,
         x.up = w.up
  PROVE  Match(t, x, gl, ys)
<1>1. Silent(x, gl) /\ Asks(t, x, gl)
  BY DEF Silent, Asks
<1>2. Yes(t, w, ys) => Yes(t, x, ys)
  BY DEF Yes
<1> QED
  BY <1>1, <1>2 DEF Match

LEMMA KeepMatch ==
  ASSUME NEW t, NEW w, NEW x, NEW fl, NEW gl, NEW ys, Match(t, w, fl, ys), Base(t, x, gl),
         gl.over = fl.over, gl.about = fl.about, gl.screen = fl.screen,
         x.up = w.up, x.down = w.down
  PROVE  Match(t, x, gl, ys)
<1>1. (Silent(w, fl) => Silent(x, gl)) /\ (Asks(t, w, fl) => Asks(t, x, gl))
  BY DEF Silent, Asks
<1>2. Yes(t, w, ys) => Yes(t, x, ys)
  BY DEF Yes
<1> QED
  BY <1>1, <1>2 DEF Match

(* A line of the service on the screen of a subpage.                       *)
LEMMA ShowMatch ==
  ASSUME NEW t, NEW w \in WireShape, NEW x, NEW fl, NEW gl, NEW ys, Match(t, w, fl, ys),
         w.thread = "reading", ~fl.over, w.down # <<>>,
         gl.over = fl.over, gl.started = fl.started, gl.about = Head(w.down).of,
         Head(w.down).is # "ask" /\ fl.screen # "ask" => gl.screen # "ask",
         gl.screen \in {"none", "form"} => fl.screen \in {"none", "form"},
         x.up = w.up, x.down = Tail(w.down), x.thread = w.thread, x.shut = w.shut
  PROVE  Match(t, x, gl, ys)
<1>0. w.down \in Seq(Tidings)
  BY DEF WireShape
<1>e. PICK e : e = Head(w.down)
  OBVIOUS
<1>1. Base(t, x, gl)
  BY DEF Match, Base
<1>2. Yes(t, w, ys) => Yes(t, x, ys)
  BY DEF Yes
<1>3. Silent(w, fl) => Silent(x, gl)
  <2>1. NoAsk(w.down) => e.is # "ask" /\ NoAsk(Tail(w.down))
    BY <1>0, <1>e, AskTaken
  <2> QED
    BY <1>e, <2>1 DEF Silent
<1>4. Asks(t, w, fl) => Asks(t, x, gl)
  <2>1. SUFFICES ASSUME Asks(t, w, fl)
                 PROVE  OneAsk(x.down, t.asked) /\ (gl.screen = "ask" => x.down = <<>> /\ gl.about = t.asked)
    BY DEF Asks
  <2>2. OneAsk(w.down, t.asked) /\ fl.screen # "ask"
    BY <2>1 DEF Asks
  <2>3. OneAsk(Tail(w.down), t.asked) /\ (e.is = "ask" => e.of = t.asked /\ Tail(w.down) = <<>>)
    BY <1>0, <1>e, <2>2, AskTaken
  <2> QED
    BY <1>e, <2>2, <2>3
<1> QED
  BY <1>1, <1>2, <1>3, <1>4 DEF Match

(* The user answers the question that is on the screen.                    *)
LEMMA UserMatch ==
  ASSUME NEW t, NEW w \in WireShape, NEW x, NEW fl, NEW gl, NEW ys, NEW b \in BOOLEAN,
         Match(t, w, fl, ys), ~fl.over, fl.screen = "ask", gl.over = fl.over, gl.started = fl.started, gl.screen = "busy",
         x.up = Append(w.up, b), x.down = w.down, x.thread = w.thread, x.shut = w.shut
  PROVE  Match(t, x, gl, IF b THEN ys \cup {fl.about} ELSE ys)
<1>z. PICK zs : zs = IF b THEN ys \cup {fl.about} ELSE ys
  OBVIOUS
<1>1. ~Silent(w, fl)
  BY DEF Silent
<1>2. ~(t.at \in {"none", "request", "loop", "joining"})
  BY <1>1 DEF Match
<1>3. Base(t, x, gl)
  BY DEF Match, Base
<1>4. ASSUME t.at \in {"asking", "joinasking"}
      PROVE  Yes(t, x, zs) /\ Silent(x, gl)
  <2>1. w.up = <<>> /\ Asks(t, w, fl)
    BY <1>1, <1>4 DEF Match
  <2>2. w.down = <<>> /\ fl.about = t.asked
    BY <2>1 DEF Asks
  <2>3. x.up = <<b>> /\ NoAsk(x.down)
    BY <2>1, <2>2 DEF NoAsk
  <2>4. b => t.asked \in zs
    BY <1>z, <2>2
  <2> QED
    BY <2>3, <2>4 DEF Yes, Silent
<1>5. t.at = "finishing" => t.asked \in zs
  BY <1>z DEF Match
<1>6. Match(t, x, gl, zs)
  BY <1>2, <1>3, <1>4, <1>5 DEF Match
<1> QED
  BY <1>z, <1>6

(* A request that is about to go out.                                      *)
LEMMA FreshMatch ==
  ASSUME NEW t, NEW u, NEW w, NEW x, NEW fl, NEW gl, NEW ys, Match(t, w, fl, ys),
         w.thread \in {"none", "connecting"}, u.at \in {"none", "request"}, Base(u, x, gl),
         gl.over = fl.over, gl.screen # "ask" \/ gl.screen = fl.screen, x.up = w.up, x.down = w.down
  PROVE  Match(u, x, gl, ys)
<1>1. t.at = "none"
  BY DEF Match, Base
<1>2. w.up = <<>> /\ Silent(w, fl)
  BY <1>1 DEF Match
<1>3. Silent(x, gl)
  BY <1>2 DEF Silent
<1> QED
  BY <1>2, <1>3 DEF Match

-----------------------------------------------------------------------------
(* A step of one subpage, its connection and its task.                     *)
LEMMA DatedLonger ==
  ASSUME NEW es \in Seq(Tidings), NEW v \in Nat, NEW w \in Nat, v <= w, Dated(es, v)
  PROVE  Dated(es, w)
<1>1. ASSUME NEW i \in DOMAIN es
      PROVE  es[i].v <= w
  <2>1. es[i] \in Tidings
    OBVIOUS
  <2>2. es[i].v \in Nat /\ es[i].v <= v
    BY <2>1 DEF Tidings, Dated
  <2> QED
    BY <2>2
<1> QED
  BY <1>1 DEF Dated

OneStep(f, t, w, fl) ==
  /\ ctl' = [ctl EXCEPT ![f] = t] /\ wire' = [wire EXCEPT ![f] = w] /\ flow' = [flow EXCEPT ![f] = fl]
  /\ t \in TaskShape /\ w \in WireShape /\ fl \in SubpageShape
  /\ Match(t, w, fl, said') /\ Dated(w.down, service'.v) /\ Dated(t.inbox, service'.v)

Orderly ==
  /\ service' \in ServiceShape /\ service'.v >= service.v
  /\ page' \in PageShape /\ probes' \in SUBSET ProbeShape /\ page'.told <= service'.v
  /\ worker' \in WorkerShape /\ worker'.v <= service'.v
  /\ said' \in SUBSET Nat /\ said \subseteq said' /\ joined' \in JoinedShape
  /\ Windowed(service', flow') /\ Consent(service', joined', said')
  /\ OneProbe(page', probes') /\ Timely(page', probes') /\ Fresh(page')
  /\ Closes(page', flow')

LEMMA OneStepKeeps ==
  ASSUME DevInv, NEW f \in Flow, NEW t, NEW w, NEW fl, OneStep(f, t, w, fl), Orderly
  PROVE  DevInv'
<1>1. /\ ctl \in [Flow -> TaskShape] /\ wire \in [Flow -> WireShape] /\ flow \in [Flow -> SubpageShape]
      /\ service.v \in Nat /\ service'.v \in Nat /\ service'.v >= service.v
  BY DEF DevInv, DevShape, Orderly, ServiceShape
<1>2. /\ ctl' = [ctl EXCEPT ![f] = t] /\ wire' = [wire EXCEPT ![f] = w] /\ flow' = [flow EXCEPT ![f] = fl]
      /\ t \in TaskShape /\ w \in WireShape /\ fl \in SubpageShape
  BY DEF OneStep
<1>3. ctl' \in [Flow -> TaskShape] /\ wire' \in [Flow -> WireShape] /\ flow' \in [Flow -> SubpageShape]
  BY <1>1, <1>2
<1>4. DevShape'
  BY <1>3 DEF DevShape, Orderly
<1>5. ASSUME NEW g \in Flow
      PROVE  /\ Match(ctl'[g], wire'[g], flow'[g], said')
             /\ Dated(wire'[g].down, service'.v) /\ Dated(ctl'[g].inbox, service'.v)
  <2>1. CASE g = f
    <3>1. ctl'[g] = t /\ wire'[g] = w /\ flow'[g] = fl
      BY <1>1, <1>2, <2>1
    <3> QED
      BY <3>1 DEF OneStep
  <2>2. CASE g # f
    <3>1. ctl'[g] = ctl[g] /\ wire'[g] = wire[g] /\ flow'[g] = flow[g]
      BY <1>1, <1>2, <2>2
    <3>2. Match(ctl[g], wire[g], flow[g], said')
      BY MatchMore DEF DevInv, Orderly
    <3>3. wire[g].down \in Seq(Tidings) /\ ctl[g].inbox \in Seq(Tidings)
      BY <1>1 DEF WireShape, TaskShape
    <3>4. Dated(wire[g].down, service.v) /\ Dated(ctl[g].inbox, service.v)
      BY DEF DevInv
    <3>5. Dated(wire[g].down, service'.v) /\ Dated(ctl[g].inbox, service'.v)
      BY <1>1, <3>3, <3>4, DatedLonger
    <3> QED
      BY <3>1, <3>2, <3>5
  <2> QED
    BY <2>1, <2>2
<1>6. (\A g \in Flow : /\ Match(ctl[g], wire[g], flow[g], said)
                       /\ Dated(wire[g].down, service.v) /\ Dated(ctl[g].inbox, service.v))'
  BY <1>5
<1>7. (Windowed(service, flow) /\ Consent(service, joined, said))'
  BY DEF Orderly
<1>8. (page.told <= service.v /\ worker.v <= service.v)'
  BY DEF Orderly
<1>9. (OneProbe(page, probes) /\ Timely(page, probes) /\ Fresh(page) /\ Closes(page, flow))'
  BY DEF Orderly
<1> QED
  BY <1>4, <1>6, <1>7, <1>8, <1>9 DEF DevInv

(* The service works on the request of a subpage.                          *)
GuiStays == page' = page /\ probes' = probes /\ worker' = worker /\ flow' = flow /\ said' = said

LEMMA TaskStep ==
  ASSUME DevInv, NEW f \in Flow, NEW t \in TaskShape, NEW w \in WireShape, GuiStays,
         ctl' = [ctl EXCEPT ![f] = t], wire' = [wire EXCEPT ![f] = w],
         Match(t, w, flow[f], said), Dated(w.down, service'.v), Dated(t.inbox, service'.v),
         service' \in ServiceShape, service'.v >= service.v, joined' \in JoinedShape,
         Windowed(service', flow), Consent(service', joined', said)
  PROVE  DevInv'
<1>1. flow \in [Flow -> SubpageShape] /\ flow' = flow
  BY DEF DevInv, DevShape, GuiStays
<1>2. flow' = [flow EXCEPT ![f] = flow[f]] /\ flow[f] \in SubpageShape
  BY <1>1
<1>3. OneStep(f, t, w, flow[f])
  BY <1>2 DEF OneStep, GuiStays
<1>4. /\ page' \in PageShape /\ probes' \in SUBSET ProbeShape /\ worker' \in WorkerShape
      /\ said' \in SUBSET Nat /\ said \subseteq said'
  BY DEF DevInv, DevShape, GuiStays
<1>5. page'.told <= service'.v /\ worker'.v <= service'.v
  <2>1. /\ page.told \in Nat /\ worker.v \in Nat /\ service.v \in Nat /\ service'.v \in Nat
        /\ page.told <= service.v /\ worker.v <= service.v
    BY DEF DevInv, DevShape, PageShape, WorkerShape, ServiceShape
  <2> QED
    BY <2>1 DEF GuiStays
<1>6. Windowed(service', flow') /\ Consent(service', joined', said')
  BY DEF GuiStays
<1>7. OneProbe(page', probes') /\ Timely(page', probes') /\ Fresh(page') /\ Closes(page', flow')
  BY DEF DevInv, GuiStays
<1>8. Orderly
  BY <1>4, <1>5, <1>6, <1>7 DEF Orderly
<1> QED
  BY <1>3, <1>8, OneStepKeeps

(* What the lines and the service carry over.                              *)
LEMMA DatedAppend ==
  ASSUME NEW es \in Seq(Tidings), NEW e \in Tidings, NEW v \in Nat, Dated(es, v), e.v <= v
  PROVE  Dated(Append(es, e), v)
<1>1. /\ Len(es) \in Nat /\ DOMAIN es = 1..Len(es) /\ DOMAIN Append(es, e) = 1..(Len(es) + 1)
  OBVIOUS
<1>2. \A i \in 1..(Len(es) + 1) : Append(es, e)[i] = IF i = Len(es) + 1 THEN e ELSE es[i]
  BY <1>1
<1>3. \A i \in 1..(Len(es) + 1) : i # Len(es) + 1 => i \in 1..Len(es)
  BY <1>1
<1> QED
  BY <1>1, <1>2, <1>3 DEF Dated

LEMMA DatedTail ==
  ASSUME NEW es \in Seq(Tidings), es # <<>>, NEW v \in Nat, Dated(es, v)
  PROVE  Dated(Tail(es), v) /\ Head(es).v <= v
<1>1. /\ Len(es) \in Nat /\ Len(es) > 0 /\ DOMAIN es = 1..Len(es) /\ Head(es) = es[1]
      /\ DOMAIN Tail(es) = 1..(Len(es) - 1)
  OBVIOUS
<1>2. \A i \in 1..(Len(es) - 1) : Tail(es)[i] = es[i + 1] /\ i + 1 \in 1..Len(es)
  BY <1>1
<1>3. 1 \in 1..Len(es)
  BY <1>1
<1> QED
  BY <1>1, <1>2, <1>3 DEF Dated

LEMMA DatedSent ==
  ASSUME NEW w \in WireShape, NEW e \in Tidings, NEW v \in Nat, Dated(w.down, v), e.v <= v
  PROVE  Dated(Sent(w, e).down, v) /\ Dated(SentLast(w, e).down, v)
<1>1. w.down \in Seq(Tidings)
  BY DEF WireShape
<1>2. Dated(Append(w.down, e), v)
  BY <1>1, DatedAppend
<1>3. /\ Sent(w, e).down = IF w.shut THEN w.down ELSE Append(w.down, e)
      /\ SentLast(w, e).down = IF w.shut THEN w.down ELSE Append(w.down, e)
  BY SentIs
<1> QED
  BY <1>2, <1>3

LEMMA ServiceKept ==
  ASSUME NEW s, NEW x, NEW fs, NEW j, NEW ys, Windowed(s, fs), Consent(s, j, ys),
         x.window = s.window \/ x.window = None, x.attempt = s.attempt \/ x.attempt.at # "accepted"
  PROVE  Windowed(x, fs) /\ Consent(x, j, ys)
BY DEF Windowed, Consent

LEMMA CloseWindowIs ==
  ASSUME NEW s \in ServiceShape, NEW f
  PROVE  LET x == close_window(s, f)
         IN  /\ x \in ServiceShape /\ x.v = s.v /\ (x.window = s.window \/ x.window = None)
             /\ (x.attempt = s.attempt \/ x.attempt.at # "accepted")
<1>x. PICK x : x = close_window(s, f)
  OBVIOUS
<1>1. NoAttempt \in [n : Nat, at : {"idle", "asked", "accepted", "refused"}] /\ NoAttempt.at # "accepted"
  BY DEF NoAttempt, None
<1>2. CASE s.window # f
  BY <1>x, <1>2 DEF close_window
<1>3. CASE s.window = f
  <2>1. x = [s EXCEPT !.window = None, !.attempt = NoAttempt]
    BY <1>x, <1>3 DEF close_window
  <2>2. x \in ServiceShape
    BY <1>1, <2>1 DEF ServiceShape
  <2>3. x.v = s.v /\ x.window = None /\ x.attempt = NoAttempt
    BY <2>1 DEF ServiceShape
  <2> QED
    BY <1>x, <1>1, <2>2, <2>3
<1> QED
  BY <1>2, <1>3

(* The parts of the invariant that most steps use.                         *)
LEMMA DevParts ==
  ASSUME DevInv, NEW f \in Flow
  PROVE  /\ service \in ServiceShape /\ service.v \in Nat /\ joined \in JoinedShape
         /\ ctl[f] \in TaskShape /\ wire[f] \in WireShape /\ flow[f] \in SubpageShape
         /\ wire \in [Flow -> WireShape] /\ ctl \in [Flow -> TaskShape]
         /\ Match(ctl[f], wire[f], flow[f], said)
         /\ Dated(wire[f].down, service.v) /\ Dated(ctl[f].inbox, service.v)
         /\ Windowed(service, flow) /\ Consent(service, joined, said)
<1>1. /\ service \in ServiceShape /\ joined \in JoinedShape
      /\ ctl[f] \in TaskShape /\ wire[f] \in WireShape /\ flow[f] \in SubpageShape
      /\ wire \in [Flow -> WireShape] /\ ctl \in [Flow -> TaskShape]
  BY DEF DevInv, DevShape
<1>2. service.v \in Nat
  BY <1>1 DEF ServiceShape
<1> QED
  BY <1>1, <1>2 DEF DevInv

(* A task that ends.                                                       *)
LEMMA EndKeepsDevInv ==
  ASSUME DevInv, NEW f \in Flow, NEW e \in Tidings, GuiStays, ctl[f].at # "none",
         ctl' = [ctl EXCEPT ![f] = Ended], wire' = LastLine(f, e) \/ wire' = Write(f, e),
         service' \in ServiceShape, service'.v >= service.v, joined' \in JoinedShape, e.v <= service'.v,
         Windowed(service', flow), Consent(service', joined', said)
  PROVE  DevInv'
<1>1. /\ service.v \in Nat /\ wire[f] \in WireShape /\ wire \in [Flow -> WireShape]
      /\ Match(ctl[f], wire[f], flow[f], said) /\ Dated(wire[f].down, service.v)
  BY DevParts
<1>2. service'.v \in Nat /\ wire[f].down \in Seq(Tidings)
  BY <1>1 DEF ServiceShape, WireShape
<1>3. Dated(wire[f].down, service'.v)
  BY <1>1, <1>2, DatedLonger
<1>4. PICK w \in {Sent(wire[f], e), SentLast(wire[f], e)} : wire' = [wire EXCEPT ![f] = w]
  BY <1>1, WritesAre
<1>5. w \in WireShape /\ w.thread = wire[f].thread /\ w.shut = wire[f].shut
  BY <1>1, SentIs
<1>6. Dated(w.down, service'.v)
  BY <1>1, <1>2, <1>3, DatedSent
<1>7. Ended.at = "ended" /\ Ended.inbox = <<>>
  BY DEF Ended, NoTask
<1>8. Match(Ended, w, flow[f], said)
  BY <1>1, <1>5, <1>7, EndMatch
<1>9. Dated(Ended.inbox, service'.v)
  BY <1>7 DEF Dated
<1> QED
  BY <1>4, <1>5, <1>6, <1>8, <1>9, BlanksAre, TaskStep

-----------------------------------------------------------------------------
(* What the service does with a request.                                   *)
LEMMA ErrorIs == Error \in Tidings /\ Error.v = 0 /\ Error.is = "error"
BY TidingsAre DEF Error, Event

LEMMA ServiceStays ==
  ASSUME DevInv, service' = service, joined' = joined
  PROVE  /\ service' \in ServiceShape /\ service'.v \in Nat /\ service'.v >= service.v
         /\ joined' \in JoinedShape /\ service'.v = service.v
         /\ Windowed(service', flow) /\ Consent(service', joined', said)
<1>1. service \in ServiceShape /\ joined \in JoinedShape
  BY DEF DevInv, DevShape
<1>2. service.v \in Nat
  BY <1>1 DEF ServiceShape
<1> QED
  BY <1>1, <1>2 DEF DevInv

LEMMA HandleKeepsDevInv ==
  ASSUME DevInv, NEW f \in Flow, Handle(f)
  PROVE  DevInv'
<1>0. GuiStays /\ joined' = joined /\ ctl[f].at = "request"
  BY DEF Handle, guiVars, GuiStays
<1>1. /\ service \in ServiceShape /\ service.v \in Nat /\ joined \in JoinedShape
      /\ ctl[f] \in TaskShape /\ wire[f] \in WireShape
      /\ wire \in [Flow -> WireShape]
      /\ Match(ctl[f], wire[f], flow[f], said)
      /\ Dated(wire[f].down, service.v) /\ Dated(ctl[f].inbox, service.v)
      /\ Windowed(service, flow) /\ Consent(service, joined, said)
  BY DevParts
<1> DEFINE windowed == flow[f].kind \in {"pair", "invite"}
           refused  == IF windowed THEN service.group = "removed" ELSE service.group = "member"
<1>h. PICK hello : hello = CASE flow[f].kind = "pair" -> "listening"
                             [] flow[f].kind = "invite" -> "link"
                             [] OTHER -> "joining"
  OBVIOUS
<1>2. hello \in {"listening", "link", "joining"}
  BY <1>h
<1>e. PICK e : e = Event(hello, None)
  OBVIOUS
<1>3. e \in Tidings /\ e.is # "ask" /\ e.v = 0
  BY <1>2, <1>e, TidingsAre, NoneIsNoFlow DEF Event
<1>4. CASE refused
  <2>1. ctl' = [ctl EXCEPT ![f] = Ended] /\ wire' = LastLine(f, Error) /\ service' = service
    BY <1>4 DEF Handle
  <2>2. Error.v <= service'.v
    BY <1>1, <2>1, ErrorIs
  <2> QED
    BY <1>0, <2>1, <2>2, ErrorIs, ServiceStays, EndKeepsDevInv
<1>5. CASE ~refused /\ windowed
  <2>1. /\ service' = [service EXCEPT !.group = "member", !.window = f, !.tries = 0,
                                      !.v = IF service.group = "member" THEN @ ELSE @ + 1,
                                      !.attempt = NoAttempt]
        /\ ctl' = [ctl EXCEPT ![f] = IF Shut(f) THEN Ended ELSE [ctl[f] EXCEPT !.at = "loop"]]
        /\ wire' = IF Shut(f) THEN LastLine(f, Error) ELSE Write(f, Event(hello, None))
    BY <1>5, <1>h DEF Handle
  <2>v. PICK v \in Nat : v = IF service.group = "member" THEN service.v ELSE service.v + 1
    BY <1>1
  <2>a. PICK a \in [n : Nat, at : {"idle", "asked", "accepted", "refused"}] : a = NoAttempt
    BY DEF NoAttempt, None
  <2>2. service' = [service EXCEPT !.group = "member", !.window = f, !.tries = 0, !.v = v, !.attempt = a]
    BY <2>1, <2>v, <2>a
  <2>3. service' \in ServiceShape
    BY <1>1, <2>2 DEF ServiceShape, Groups
  <2>4. service'.v = v /\ service'.window = f /\ service'.attempt = a /\ v >= service.v
    BY <1>1, <2>2, <2>v DEF ServiceShape
  <2>5. Windowed(service', flow) /\ Consent(service', joined', said)
    <3>1. a.at # "accepted"
      BY <2>a DEF NoAttempt
    <3> QED
      BY <1>0, <1>1, <1>5, <2>4, <3>1 DEF Windowed, Consent
  <2>6. CASE Shut(f)
    <3>1. ctl' = [ctl EXCEPT ![f] = Ended] /\ wire' = LastLine(f, Error)
      BY <2>1, <2>6
    <3>2. Error.v <= service'.v
      BY <2>4, ErrorIs
    <3> QED
      BY <1>0, <1>1, <2>3, <2>4, <2>5, <3>1, <3>2, ErrorIs, EndKeepsDevInv
  <2>7. CASE ~Shut(f)
    <3>t. PICK t : t = [ctl[f] EXCEPT !.at = "loop"]
      OBVIOUS
    <3>1. t \in TaskShape /\ t.at = "loop" /\ t.inbox = ctl[f].inbox
      BY <1>1, <3>t DEF TaskShape
    <3>2. ctl' = [ctl EXCEPT ![f] = t] /\ wire' = [wire EXCEPT ![f] = Sent(wire[f], e)]
      BY <1>1, <1>e, <2>1, <2>7, <3>t, WritesAre
    <3>3. Match(t, Sent(wire[f], e), flow[f], said) /\ Sent(wire[f], e) \in WireShape
      BY <1>0, <1>1, <1>3, <3>1, SayMatch, SentIs
    <3>4. wire[f].down \in Seq(Tidings) /\ ctl[f].inbox \in Seq(Tidings) /\ e.v <= v
      BY <1>1, <1>3 DEF WireShape, TaskShape
    <3>5. Dated(wire[f].down, v) /\ Dated(ctl[f].inbox, v)
      BY <1>1, <2>4, <3>4, DatedLonger
    <3>6. Dated(Sent(wire[f], e).down, service'.v) /\ Dated(t.inbox, service'.v)
      BY <1>1, <1>3, <2>4, <3>1, <3>4, <3>5, DatedSent
    <3> QED
      BY <1>0, <1>1, <2>3, <2>4, <2>5, <3>1, <3>2, <3>3, <3>6, TaskStep
  <2> QED
    BY <2>6, <2>7
<1>6. CASE ~refused /\ ~windowed
  <2>1. /\ ctl' = [ctl EXCEPT ![f] = IF Shut(f) /\ flow[f].kind = "join" THEN Ended
                                     ELSE [ctl[f] EXCEPT !.at = "joining"]]
        /\ wire' = IF flow[f].kind = "join" THEN Write(f, Event(hello, None)) ELSE wire
        /\ service' = service
    BY <1>6, <1>h DEF Handle
  <2>2. CASE Shut(f) /\ flow[f].kind = "join"
    <3>1. ctl' = [ctl EXCEPT ![f] = Ended] /\ wire' = Write(f, e) /\ e.v <= service'.v
      BY <1>1, <1>3, <1>e, <2>1, <2>2
    <3> QED
      BY <1>0, <1>3, <2>1, <3>1, ServiceStays, EndKeepsDevInv
  <2>3. CASE ~(Shut(f) /\ flow[f].kind = "join")
    <3>t. PICK t : t = [ctl[f] EXCEPT !.at = "joining"]
      OBVIOUS
    <3>1. t \in TaskShape /\ t.at = "joining" /\ t.inbox = ctl[f].inbox
      BY <1>1, <3>t DEF TaskShape
    <3>2. PICK w \in {Sent(wire[f], e), wire[f]} : wire' = [wire EXCEPT ![f] = w]
      <4>1. CASE flow[f].kind = "join"
        BY <1>1, <1>e, <2>1, <4>1, WritesAre
      <4>2. CASE flow[f].kind # "join"
        BY <1>1, <2>1, <4>2
      <4> QED
        BY <4>1, <4>2
    <3>3. ctl' = [ctl EXCEPT ![f] = t]
      BY <2>1, <2>3, <3>t
    <3>4. Match(t, w, flow[f], said) /\ w \in WireShape
      <4>1. Match(t, Sent(wire[f], e), flow[f], said) /\ Match(t, wire[f], flow[f], said)
        BY <1>0, <1>1, <1>3, <3>1, SayMatch
      <4>2. Sent(wire[f], e) \in WireShape
        BY <1>1, <1>3, SentIs
      <4> QED
        BY <1>1, <4>1, <4>2
    <3>5. Dated(w.down, service'.v) /\ Dated(t.inbox, service'.v)
      BY <1>1, <1>3, <2>1, <3>1, DatedSent
    <3> QED
      BY <1>0, <2>1, <3>1, <3>2, <3>3, <3>4, <3>5, ServiceStays, TaskStep
  <2> QED
    BY <2>2, <2>3
<1> QED
  BY <1>4, <1>5, <1>6

LEMMA EndsKeepDevInv ==
  ASSUME DevInv, NEW f \in Flow, client_gone(f) \/ Expires(f)
  PROVE  DevInv'
<1>0. GuiStays /\ joined' = joined /\ ctl[f].at # "none"
  BY DEF client_gone, Expires, guiVars, GuiStays
<1>1. Ends(f, Error)
  BY DEF client_gone, Expires
<1>2. ctl' = [ctl EXCEPT ![f] = Ended] /\ wire' = LastLine(f, Error) /\ service' = close_window(service, f)
  BY <1>1 DEF Ends
<1>3. /\ service \in ServiceShape /\ service.v \in Nat /\ joined \in JoinedShape
      /\ Windowed(service, flow) /\ Consent(service, joined, said)
  BY DevParts
<1>4. /\ service' \in ServiceShape /\ service'.v = service.v
      /\ (service'.window = service.window \/ service'.window = None)
      /\ (service'.attempt = service.attempt \/ service'.attempt.at # "accepted")
  BY <1>2, <1>3, CloseWindowIs
<1>5. Windowed(service', flow) /\ Consent(service', joined', said)
  BY <1>0, <1>3, <1>4, ServiceKept
<1>6. Error.v <= service'.v /\ service'.v >= service.v
  BY <1>3, <1>4, ErrorIs
<1> QED
  BY <1>0, <1>2, <1>3, <1>4, <1>5, <1>6, ErrorIs, EndKeepsDevInv

LEMMA TakeEventKeepsDevInv ==
  ASSUME DevInv, NEW f \in Flow, TakeEvent(f)
  PROVE  DevInv'
<1>0. GuiStays /\ joined' = joined /\ ctl[f].at = "loop" /\ ctl[f].inbox # <<>>
  BY DEF TakeEvent, guiVars, GuiStays
<1>1. /\ service \in ServiceShape /\ service.v \in Nat /\ joined \in JoinedShape
      /\ ctl[f] \in TaskShape /\ wire[f] \in WireShape
      /\ wire \in [Flow -> WireShape]
      /\ Match(ctl[f], wire[f], flow[f], said)
      /\ Dated(wire[f].down, service.v) /\ Dated(ctl[f].inbox, service.v)
      /\ Windowed(service, flow) /\ Consent(service, joined, said)
  BY DevParts
<1>e. PICK e : e = Head(ctl[f].inbox)
  OBVIOUS
<1>2. ctl[f].inbox \in Seq(Tidings)
  BY <1>1 DEF TaskShape
<1>3. e \in Tidings /\ Tail(ctl[f].inbox) \in Seq(Tidings) /\ e.of \in Nat
  <2>1. e \in Tidings /\ Tail(ctl[f].inbox) \in Seq(Tidings)
    BY <1>0, <1>2, <1>e, AskTaken
  <2> QED
    BY <2>1 DEF Tidings
<1>4. e.v <= service.v /\ Dated(Tail(ctl[f].inbox), service.v)
  BY <1>0, <1>1, <1>2, <1>e, DatedTail
<1>5. CASE e.is = "done" \/ Shut(f)
  <2>1. /\ ctl' = [ctl EXCEPT ![f] = Ended] /\ wire' = LastLine(f, e)
        /\ service' = IF e.is = "done" THEN service ELSE close_window(service, f)
    BY <1>5, <1>e DEF TakeEvent
  <2>2. /\ service' \in ServiceShape /\ service'.v = service.v
        /\ (service'.window = service.window \/ service'.window = None)
        /\ (service'.attempt = service.attempt \/ service'.attempt.at # "accepted")
    BY <1>1, <2>1, CloseWindowIs
  <2>3. Windowed(service', flow) /\ Consent(service', joined', said)
    BY <1>0, <1>1, <2>2, ServiceKept
  <2>4. e.v <= service'.v /\ service'.v >= service.v
    BY <1>1, <1>4, <2>2
  <2> QED
    BY <1>0, <1>1, <1>3, <2>1, <2>2, <2>3, <2>4, EndKeepsDevInv
<1>6. CASE ~(e.is = "done" \/ Shut(f))
  <2>r. PICK r : r = [ctl[f] EXCEPT !.inbox = Tail(ctl[f].inbox)]
    OBVIOUS
  <2>1. r \in TaskShape /\ r.at = "loop" /\ r.inbox = Tail(ctl[f].inbox)
    <3>i. PICK es \in Seq(Tidings) : es = Tail(ctl[f].inbox)
      BY <1>3
    <3>1. r = [ctl[f] EXCEPT !.inbox = es]
      BY <2>r, <3>i
    <3> QED
      BY <1>0, <1>1, <3>1, <3>i DEF TaskShape
  <2>2. /\ ctl' = [ctl EXCEPT ![f] = IF e.is = "ask" THEN [r EXCEPT !.at = "asking", !.asked = e.of] ELSE r]
        /\ wire' = Write(f, e) /\ service' = service
    BY <1>6, <1>e, <2>r DEF TakeEvent
  <2>3. wire' = [wire EXCEPT ![f] = Sent(wire[f], e)] /\ Sent(wire[f], e) \in WireShape
    BY <1>1, <1>3, <2>2, WritesAre, SentIs
  <2>4. Dated(Sent(wire[f], e).down, service'.v)
    BY <1>1, <1>3, <1>4, <2>2, DatedSent
  <2>5. CASE e.is = "ask"
    <3>t. PICK t : t = [r EXCEPT !.at = "asking", !.asked = e.of]
      OBVIOUS
    <3>1. t \in TaskShape /\ t.at = "asking" /\ t.asked = e.of /\ t.inbox = r.inbox
      BY <1>3, <2>1, <3>t DEF TaskShape
    <3>2. ctl' = [ctl EXCEPT ![f] = t]
      BY <2>2, <2>5, <3>t
    <3>3. Match(t, Sent(wire[f], e), flow[f], said)
      BY <1>0, <1>1, <1>3, <3>1, AskMatch
    <3>4. Dated(t.inbox, service'.v)
      BY <1>4, <2>1, <2>2, <3>1
    <3> QED
      BY <1>0, <2>2, <2>3, <2>4, <3>1, <3>2, <3>3, <3>4, ServiceStays, TaskStep
  <2>6. CASE e.is # "ask"
    <3>2. ctl' = [ctl EXCEPT ![f] = r]
      BY <2>2, <2>6
    <3>3. Match(r, Sent(wire[f], e), flow[f], said)
      BY <1>0, <1>1, <1>3, <2>1, <2>6, SayMatch
    <3>4. Dated(r.inbox, service'.v)
      BY <1>4, <2>1, <2>2
    <3> QED
      BY <1>0, <2>1, <2>2, <2>3, <2>4, <3>2, <3>3, <3>4, ServiceStays, TaskStep
  <2> QED
    BY <2>5, <2>6
<1> QED
  BY <1>5, <1>6

LEMMA TakeAnswerKeepsDevInv ==
  ASSUME DevInv, NEW f \in Flow, TakeAnswer(f)
  PROVE  DevInv'
<1>0. /\ GuiStays /\ joined' = joined /\ ctl[f].at = "asking"
      /\ (wire[f].up # <<>> \/ wire[f].shut)
  BY DEF TakeAnswer, guiVars, GuiStays, HasAnswer, Shut
<1>1. /\ service \in ServiceShape /\ service.v \in Nat /\ joined \in JoinedShape
      /\ ctl[f] \in TaskShape /\ wire[f] \in WireShape
      /\ wire \in [Flow -> WireShape] /\ ctl \in [Flow -> TaskShape]
      /\ Match(ctl[f], wire[f], flow[f], said)
      /\ Dated(wire[f].down, service.v) /\ Dated(ctl[f].inbox, service.v)
      /\ Windowed(service, flow) /\ Consent(service, joined, said)
  BY DevParts
<1>t. PICK t : t = [ctl[f] EXCEPT !.at = "loop", !.asked = None]
  OBVIOUS
<1>2. t \in TaskShape /\ t.at = "loop" /\ t.inbox = ctl[f].inbox
  BY <1>1, <1>t, NoneIsNoFlow DEF TaskShape
<1>3. ctl' = [ctl EXCEPT ![f] = t]
  <2>1. ctl' = [ctl EXCEPT ![f].at = "loop", ![f].asked = None]
    BY DEF TakeAnswer
  <2> QED
    BY <1>1, <1>t, <2>1
<1>4. wire' = [wire EXCEPT ![f] = Popped(wire[f])]
  BY <1>1 DEF TakeAnswer, Popped
<1>5. Popped(wire[f]) \in WireShape /\ Popped(wire[f]).down = wire[f].down
  BY <1>1, PoppedIs
<1>6. /\ Match(t, Popped(wire[f]), flow[f], said)
      /\ wire[f].up # <<>> /\ Head(wire[f].up) => ctl[f].asked \in said
  BY <1>0, <1>1, <1>2, AnswerMatch
<1>7. Accepts(f) => ctl[f].asked \in said
  BY <1>6 DEF Accepts
<1>8. /\ service' \in ServiceShape /\ service'.v = service.v
      /\ Windowed(service', flow) /\ Consent(service', joined', said)
  <2>1. CASE service.attempt # [n |-> ctl[f].asked, at |-> "asked"]
    <3>1. service' = service
      BY <2>1 DEF TakeAnswer
    <3> QED
      BY <1>0, <1>1, <3>1
  <2>2. CASE service.attempt = [n |-> ctl[f].asked, at |-> "asked"]
    <3>a. PICK a \in {"accepted", "refused"} : a = IF Accepts(f) THEN "accepted" ELSE "refused"
      OBVIOUS
    <3>b. PICK b : b = [n |-> ctl[f].asked, at |-> a]
      OBVIOUS
    <3>1. service' = [service EXCEPT !.attempt = b]
      <4>1. service' = [service EXCEPT !.attempt.at = a]
        BY <2>2, <3>a DEF TakeAnswer
      <4>2. [service.attempt EXCEPT !.at = a] = b
        BY <2>2, <3>b
      <4> QED
        BY <4>1, <4>2
    <3>2. b \in [n : Nat, at : {"idle", "asked", "accepted", "refused"}]
      BY <1>1, <3>b DEF TaskShape
    <3>3. service' \in ServiceShape /\ service'.v = service.v
          /\ service'.window = service.window /\ service'.attempt = b
      BY <1>1, <3>1, <3>2 DEF ServiceShape
    <3>4. b.at = "accepted" => b.n \in said
      BY <1>7, <3>a, <3>b
    <3>5. Consent(service', joined', said)
      BY <1>0, <1>1, <3>3, <3>4 DEF Consent, Agreed
    <3>6. Windowed(service', flow)
      BY <1>1, <3>3 DEF Windowed
    <3> QED
      BY <3>3, <3>5, <3>6
  <2> QED
    BY <2>1, <2>2
<1>9. /\ service'.v >= service.v /\ Dated(Popped(wire[f]).down, service'.v)
      /\ Dated(t.inbox, service'.v)
  BY <1>1, <1>2, <1>5, <1>8
<1> QED
  BY <1>0, <1>1, <1>2, <1>3, <1>4, <1>5, <1>6, <1>8, <1>9, TaskStep

(* Attempts of other devices.                                              *)
LEMMA ToldKeepsDevInv ==
  ASSUME DevInv, NEW f \in Flow, NEW e \in Tidings, GuiStays, wire' = wire,
         ctl' = ctl \/ ctl' = [ctl EXCEPT ![f] = Got(ctl[f], e)],
         service' \in ServiceShape, service'.v >= service.v, joined' \in JoinedShape, e.v <= service'.v,
         Windowed(service', flow), Consent(service', joined', said)
  PROVE  DevInv'
<1>1. /\ service.v \in Nat /\ wire \in [Flow -> WireShape]
      /\ ctl[f] \in TaskShape /\ wire[f] \in WireShape /\ ctl \in [Flow -> TaskShape]
      /\ Match(ctl[f], wire[f], flow[f], said)
      /\ Dated(wire[f].down, service.v) /\ Dated(ctl[f].inbox, service.v)
  BY DevParts
<1>2. service'.v \in Nat /\ wire[f].down \in Seq(Tidings) /\ ctl[f].inbox \in Seq(Tidings)
  BY <1>1 DEF ServiceShape, WireShape, TaskShape
<1>3. Dated(wire[f].down, service'.v) /\ Dated(ctl[f].inbox, service'.v)
  BY <1>1, <1>2, DatedLonger
<1>4. PICK t \in {ctl[f], Got(ctl[f], e)} : ctl' = [ctl EXCEPT ![f] = t]
  <2>1. CASE ctl' = ctl
    BY <1>1, <2>1
  <2>2. CASE ctl' = [ctl EXCEPT ![f] = Got(ctl[f], e)]
    BY <2>2
  <2> QED
    BY <2>1, <2>2
<1>5. /\ t \in TaskShape /\ t.at = ctl[f].at /\ t.asked = ctl[f].asked
      /\ t.inbox = ctl[f].inbox \/ t.inbox = Append(ctl[f].inbox, e)
  BY <1>1, GotIs
<1>6. Dated(t.inbox, service'.v)
  BY <1>2, <1>3, <1>5, DatedAppend
<1>7. Match(t, wire[f], flow[f], said)
  BY <1>1, <1>5 DEF Match, Base, Asks, Yes
<1>8. wire' = [wire EXCEPT ![f] = wire[f]]
  BY <1>1
<1> QED
  BY <1>1, <1>3, <1>4, <1>5, <1>6, <1>7, <1>8, TaskStep

(* What was agreed to stays agreed to, and other steps leave the tasks.    *)
LEMMA AgreedLonger ==
  ASSUME NEW all \in Seq(Kind), NEW k \in Kind, NEW n, NEW ys, Agreed(n, ys, all)
  PROVE  Agreed(n, ys, Append(all, k))
<1>1. DOMAIN all = 1..Len(all) /\ DOMAIN Append(all, k) = 1..(Len(all) + 1) /\ Len(all) \in Nat
  OBVIOUS
<1>2. \A i \in 1..Len(all) : i \in 1..(Len(all) + 1) /\ Append(all, k)[i] = all[i]
  BY <1>1
<1> QED
  BY <1>1, <1>2 DEF Agreed

LEMMA AppendedKind ==
  ASSUME NEW j \in JoinedShape, NEW k \in Kind
  PROVE  /\ [j EXCEPT !.all = Append(j.all, k)] \in JoinedShape
         /\ [j EXCEPT !.all = Append(j.all, k)].all = Append(j.all, k)
         /\ [j EXCEPT !.all = Append(j.all, k)].in = j.in
         /\ 1 + Len(j.all) \in Nat /\ 1 + Len(j.all) \in DOMAIN Append(j.all, k)
         /\ Append(j.all, k)[1 + Len(j.all)] = k
<1>1. j.all \in Seq(Kind) /\ Len(j.all) \in Nat
  BY DEF JoinedShape
<1>2. Append(j.all, k) \in Seq(Kind) /\ DOMAIN Append(j.all, k) = 1..(Len(j.all) + 1)
  BY <1>1
<1>3. 1 + Len(j.all) \in Nat /\ 1 + Len(j.all) \in DOMAIN Append(j.all, k)
  BY <1>1, <1>2
<1>4. Append(j.all, k)[1 + Len(j.all)] = k
  BY <1>1
<1>s. PICK s \in Seq(Kind) : s = Append(j.all, k)
  BY <1>2
<1>5. [j EXCEPT !.all = s] \in JoinedShape /\ [j EXCEPT !.all = s].all = s /\ [j EXCEPT !.all = s].in = j.in
  BY DEF JoinedShape
<1> QED
  BY <1>3, <1>4, <1>5, <1>s

(* A step that no subpage takes part in.                                   *)
LEMMA AsideStep ==
  ASSUME DevInv, ctl' = ctl, wire' = wire, flow' = flow, Orderly
  PROVE  DevInv'
<1>1. /\ ctl \in [Flow -> TaskShape] /\ wire \in [Flow -> WireShape] /\ flow \in [Flow -> SubpageShape]
      /\ service.v \in Nat /\ service'.v \in Nat /\ service'.v >= service.v
  BY DEF DevInv, DevShape, Orderly, ServiceShape
<1>2. DevShape'
  BY <1>1 DEF DevShape, Orderly
<1>3. ASSUME NEW g \in Flow
      PROVE  /\ Match(ctl'[g], wire'[g], flow'[g], said')
             /\ Dated(wire'[g].down, service'.v) /\ Dated(ctl'[g].inbox, service'.v)
  <2>1. ctl'[g] = ctl[g] /\ wire'[g] = wire[g] /\ flow'[g] = flow[g]
    OBVIOUS
  <2>2. Match(ctl[g], wire[g], flow[g], said')
    BY MatchMore DEF DevInv, Orderly
  <2>3. wire[g].down \in Seq(Tidings) /\ ctl[g].inbox \in Seq(Tidings)
    BY <1>1 DEF WireShape, TaskShape
  <2>4. Dated(wire[g].down, service.v) /\ Dated(ctl[g].inbox, service.v)
    BY DEF DevInv
  <2>5. Dated(wire[g].down, service'.v) /\ Dated(ctl[g].inbox, service'.v)
    BY <1>1, <2>3, <2>4, DatedLonger
  <2> QED
    BY <2>1, <2>2, <2>5
<1>4. (\A g \in Flow : /\ Match(ctl[g], wire[g], flow[g], said)
                       /\ Dated(wire[g].down, service.v) /\ Dated(ctl[g].inbox, service.v))'
  BY <1>3
<1>5. (Windowed(service, flow) /\ Consent(service, joined, said))'
  BY DEF Orderly
<1>6. (page.told <= service.v /\ worker.v <= service.v)'
  BY DEF Orderly
<1>7. (OneProbe(page, probes) /\ Timely(page, probes) /\ Fresh(page) /\ Closes(page, flow))'
  BY DEF Orderly
<1> QED
  BY <1>2, <1>4, <1>5, <1>6, <1>7 DEF DevInv

LEMMA ServiceStep ==
  ASSUME DevInv, GuiStays, ctl' = ctl, wire' = wire,
         service' \in ServiceShape, service'.v >= service.v, joined' \in JoinedShape,
         Windowed(service', flow), Consent(service', joined', said)
  PROVE  DevInv'
<1>4. /\ page' \in PageShape /\ probes' \in SUBSET ProbeShape /\ worker' \in WorkerShape
      /\ said' \in SUBSET Nat /\ said \subseteq said' /\ flow' = flow
  BY DEF DevInv, DevShape, GuiStays
<1>5. page'.told <= service'.v /\ worker'.v <= service'.v
  <2>1. /\ page.told \in Nat /\ worker.v \in Nat /\ service.v \in Nat /\ service'.v \in Nat
        /\ page.told <= service.v /\ worker.v <= service.v
    BY DEF DevInv, DevShape, PageShape, WorkerShape, ServiceShape
  <2> QED
    BY <2>1 DEF GuiStays
<1>6. Windowed(service', flow') /\ Consent(service', joined', said')
  BY DEF GuiStays
<1>7. OneProbe(page', probes') /\ Timely(page', probes') /\ Fresh(page') /\ Closes(page', flow')
  BY DEF DevInv, GuiStays
<1>8. Orderly
  BY <1>4, <1>5, <1>6, <1>7 DEF Orderly
<1> QED
  BY <1>4, <1>8, AsideStep

LEMMA AttemptBeginsKeepsDevInv ==
  ASSUME DevInv, AttemptBegins
  PROVE  DevInv'
<1>f. PICK f : f = service.window
  OBVIOUS
<1>0. GuiStays /\ wire' = wire /\ f # None
  BY <1>f DEF AttemptBegins, guiVars, GuiStays
<1>1. f \in Flow /\ f \in Flow \cup {None}
  BY <1>0, <1>f DEF DevInv, DevShape, ServiceShape
<1>2. /\ service \in ServiceShape /\ service.v \in Nat /\ joined \in JoinedShape
      /\ ctl \in [Flow -> TaskShape] /\ flow[f] \in SubpageShape
      /\ Windowed(service, flow) /\ Consent(service, joined, said)
  BY <1>1, DevParts
<1>k. PICK k : k = flow[f].kind
  OBVIOUS
<1>3. k \in {"pair", "invite"} /\ k \in Kind
  BY <1>0, <1>2, <1>f, <1>k DEF Windowed, Kind
<1>n. PICK n : n = 1 + Len(joined.all)
  OBVIOUS
<1>4. n = Next_n
  BY <1>n DEF Next_n
<1>5. joined' = [joined EXCEPT !.all = Append(joined.all, k)]
  BY <1>f, <1>k DEF AttemptBegins
<1>6. /\ joined' \in JoinedShape /\ joined'.all = Append(joined.all, k) /\ joined'.in = joined.in
      /\ n \in Nat /\ n \in DOMAIN joined'.all /\ joined'.all[n] = k
  BY <1>2, <1>3, <1>5, <1>n, AppendedKind
<1>e. PICK e : e = Event("ask", n)
  OBVIOUS
<1>7. e \in Tidings /\ e.v = 0
  BY <1>6, <1>e, TidingsAre DEF Event
<1>a. PICK a \in {"asked", "accepted"} : a = IF k = "pair" THEN "asked" ELSE "accepted"
  OBVIOUS
<1>b. PICK b : b = [n |-> n, at |-> a]
  OBVIOUS
<1>8. service' = [service EXCEPT !.attempt = b]
  BY <1>4, <1>a, <1>b, <1>k, <1>f DEF AttemptBegins
<1>9. b \in [n : Nat, at : {"idle", "asked", "accepted", "refused"}]
  BY <1>6, <1>b
<1>10. /\ service' \in ServiceShape /\ service'.v = service.v /\ service'.window = service.window
       /\ service'.attempt = b
  BY <1>2, <1>8, <1>9 DEF ServiceShape
<1>11. ctl' = ctl \/ ctl' = [ctl EXCEPT ![f] = Got(ctl[f], e)]
  <2>1. ctl' = ctl \/ ctl' = Tell(f, e)
    BY <1>4, <1>e, <1>f DEF AttemptBegins
  <2> QED
    BY <1>1, <1>2, <2>1, TellIs
<1>12. Windowed(service', flow)
  BY <1>2, <1>10 DEF Windowed
<1>13. Consent(service', joined', said)
  <2>1. ASSUME b.at = "accepted"
        PROVE  Agreed(b.n, said, joined'.all)
    <3>1. k = "invite" /\ b.n = n
      BY <1>3, <1>a, <1>b, <2>1
    <3> QED
      BY <1>6, <3>1 DEF Agreed
  <2>2. \A m \in joined.in : Agreed(m, said, joined.all)
    BY <1>2 DEF Consent
  <2>3. joined.all \in Seq(Kind)
    BY <1>2 DEF JoinedShape
  <2>4. \A m \in joined.in : Agreed(m, said, joined'.all)
    BY <1>3, <1>6, <2>2, <2>3, AgreedLonger
  <2> QED
    BY <1>6, <1>10, <2>1, <2>4 DEF Consent
<1>14. e.v <= service'.v /\ service'.v >= service.v
  BY <1>2, <1>7, <1>10
<1> QED
  BY <1>0, <1>1, <1>6, <1>7, <1>10, <1>11, <1>12, <1>13, <1>14, ToldKeepsDevInv

LEMMA AttemptEndsKeepsDevInv ==
  ASSUME DevInv, AttemptJoins \/ AttemptFails
  PROVE  DevInv'
<1>0. GuiStays /\ wire' = wire
  BY DEF AttemptJoins, AttemptFails, guiVars, GuiStays
<1>1. /\ service \in ServiceShape /\ service.v \in Nat /\ joined \in JoinedShape
      /\ ctl \in [Flow -> TaskShape] /\ service.tries \in Nat
      /\ Windowed(service, flow) /\ Consent(service, joined, said)
      /\ service.attempt.n \in Nat /\ service.window \in Flow \cup {None}
  <2>1. service \in ServiceShape /\ joined \in JoinedShape /\ ctl \in [Flow -> TaskShape]
    BY DEF DevInv, DevShape
  <2> QED
    BY <2>1 DEF DevInv, ServiceShape
<1>a. PICK a \in [n : Nat, at : {"idle", "asked", "accepted", "refused"}] : a = NoAttempt
  BY DEF NoAttempt, None
<1>2. a.at # "accepted"
  BY <1>a DEF NoAttempt
<1>3. \E e \in Tidings :
        /\ ctl' = Tell(service.window, e)
        /\ e.v <= service'.v /\ service' \in ServiceShape /\ service'.v >= service.v
        /\ service'.window \in {service.window, None} /\ service'.attempt = a
        /\ joined' \in JoinedShape /\ Consent(service', joined', said)
  <2>1. CASE AttemptJoins
    <3>v. PICK v \in Nat : v = service.v + 1
      BY <1>1
    <3>1. /\ service' = [service EXCEPT !.window = None, !.attempt = a, !.v = v]
          /\ ctl' = Tell(service.window, Done(v))
          /\ joined' = [joined EXCEPT !.in = joined.in \cup {service.attempt.n}]
          /\ service.attempt.at = "accepted"
      BY <2>1, <1>a, <3>v DEF AttemptJoins
    <3>2. service' \in ServiceShape
      BY <1>1, <3>1 DEF ServiceShape
    <3>3. service'.v = v /\ service'.window = None /\ service'.attempt = a
      BY <1>1, <3>1 DEF ServiceShape
    <3>4. v >= service.v /\ Done(v) \in Tidings /\ Done(v).v <= v
      BY <1>1, <3>v, TidingsAre DEF Done
    <3>i. PICK ms \in SUBSET Nat : ms = joined.in \cup {service.attempt.n}
      BY <1>1 DEF JoinedShape
    <3>5. joined' \in JoinedShape /\ joined'.all = joined.all /\ joined'.in = ms
      BY <1>1, <3>1, <3>i DEF JoinedShape
    <3>6. Consent(service', joined', said)
      BY <1>1, <1>2, <3>1, <3>3, <3>5, <3>i DEF Consent
    <3> QED
      BY <3>1, <3>2, <3>3, <3>4, <3>5, <3>6
  <2>2. CASE AttemptFails
    <3>e. PICK e : e = Event("failed", service.attempt.n)
      OBVIOUS
    <3>1. e \in Tidings /\ e.v = 0
      BY <1>1, <3>e, TidingsAre DEF Event
    <3>k. PICK k \in Nat : k = service.tries + 1
      BY <1>1
    <3>w. PICK w \in Flow \cup {None} : w = IF k = MAX_ATTEMPTS THEN None ELSE service.window
      BY <1>1
    <3>2. /\ service' = [service EXCEPT !.attempt = a, !.tries = k, !.window = w]
          /\ ctl' = Tell(service.window, e) /\ joined' = joined
      BY <2>2, <1>a, <3>e, <3>k, <3>w DEF AttemptFails
    <3>3. service' \in ServiceShape
      BY <1>1, <3>2 DEF ServiceShape
    <3>4. service'.v = service.v /\ service'.window = w /\ service'.attempt = a
      BY <1>1, <3>2 DEF ServiceShape
    <3>5. Consent(service', joined', said)
      BY <1>1, <1>2, <3>2, <3>4 DEF Consent
    <3>6. e.v <= service'.v /\ service'.v >= service.v
      BY <1>1, <3>1, <3>4
    <3> QED
      BY <1>1, <3>1, <3>2, <3>3, <3>4, <3>5, <3>6, <3>w
  <2> QED
    BY <2>1, <2>2
<1>4. PICK e \in Tidings :
        /\ ctl' = Tell(service.window, e)
        /\ e.v <= service'.v /\ service' \in ServiceShape /\ service'.v >= service.v
        /\ service'.window \in {service.window, None} /\ service'.attempt = a
        /\ joined' \in JoinedShape /\ Consent(service', joined', said)
  BY <1>3
<1>5. Windowed(service', flow)
  BY <1>1, <1>4 DEF Windowed
<1>6. CASE service.window \in Flow
  <2>1. ctl' = [ctl EXCEPT ![service.window] = Got(ctl[service.window], e)]
    BY <1>1, <1>4, <1>6, TellIs
  <2> QED
    BY <1>0, <1>4, <1>5, <1>6, <2>1, ToldKeepsDevInv
<1>7. CASE service.window \notin Flow
  <2>1. ctl' = ctl
    BY <1>1, <1>4, <1>7, TellIs
  <2> QED
    BY <1>0, <1>4, <1>5, <2>1, ServiceStep
<1> QED
  BY <1>6, <1>7

(* This device joins another one's group.                                  *)
LEMMA JoinAsksKeepsDevInv ==
  ASSUME DevInv, NEW f \in Flow, JoinAsks(f)
  PROVE  DevInv'
<1>0. GuiStays /\ service' = service /\ ctl[f].at = "joining"
  BY DEF JoinAsks, guiVars, GuiStays
<1>1. /\ service \in ServiceShape /\ service.v \in Nat /\ joined \in JoinedShape
      /\ ctl[f] \in TaskShape /\ wire[f] \in WireShape
      /\ wire \in [Flow -> WireShape] /\ ctl \in [Flow -> TaskShape]
      /\ Match(ctl[f], wire[f], flow[f], said)
      /\ Dated(wire[f].down, service.v) /\ Dated(ctl[f].inbox, service.v)
      /\ Windowed(service, flow) /\ Consent(service, joined, said)
  BY DevParts
<1>n. PICK n : n = 1 + Len(joined.all)
  OBVIOUS
<1>k. PICK k \in Kind : k = "joincode"
  BY DEF Kind
<1>2. joined' = [joined EXCEPT !.all = Append(joined.all, k)]
  BY <1>k DEF JoinAsks
<1>3. /\ joined' \in JoinedShape /\ joined'.all = Append(joined.all, k) /\ joined'.in = joined.in
      /\ n \in Nat
  BY <1>1, <1>2, <1>n, AppendedKind
<1>e. PICK e : e = Event("ask", n)
  OBVIOUS
<1>4. e \in Tidings /\ e.v = 0 /\ e.of = n
  BY <1>3, <1>e, TidingsAre DEF Event
<1>t. PICK t : t = [ctl[f] EXCEPT !.at = "joinasking", !.asked = n]
  OBVIOUS
<1>5. t \in TaskShape /\ t.at = "joinasking" /\ t.asked = n /\ t.inbox = ctl[f].inbox
  BY <1>1, <1>3, <1>t DEF TaskShape
<1>6. ctl' = [ctl EXCEPT ![f] = t] /\ wire' = Write(f, e)
  BY <1>n, <1>e, <1>t DEF JoinAsks, Next_n
<1>7. wire' = [wire EXCEPT ![f] = Sent(wire[f], e)] /\ Sent(wire[f], e) \in WireShape
  BY <1>1, <1>4, <1>6, WritesAre, SentIs
<1>8. Match(t, Sent(wire[f], e), flow[f], said)
  BY <1>0, <1>1, <1>4, <1>5, AskMatch
<1>9. Dated(Sent(wire[f], e).down, service'.v) /\ Dated(t.inbox, service'.v)
  BY <1>0, <1>1, <1>4, <1>5, DatedSent
<1>10. joined.all \in Seq(Kind)
  BY <1>1 DEF JoinedShape
<1>11. Consent(service', joined', said) /\ Windowed(service', flow)
  BY <1>0, <1>1, <1>3, <1>10, AgreedLonger DEF Consent
<1>12. service' \in ServiceShape /\ service'.v >= service.v
  BY <1>0, <1>1
<1> QED
  BY <1>0, <1>3, <1>5, <1>6, <1>7, <1>8, <1>9, <1>11, <1>12, TaskStep

LEMMA JoinAnsweredKeepsDevInv ==
  ASSUME DevInv, NEW f \in Flow, JoinAnswered(f)
  PROVE  DevInv'
<1>0. /\ GuiStays /\ joined' = joined /\ service' = service /\ ctl[f].at = "joinasking"
      /\ (wire[f].up # <<>> \/ wire[f].shut)
  BY DEF JoinAnswered, guiVars, GuiStays, HasAnswer, Shut
<1>1. /\ ctl[f] \in TaskShape /\ wire[f] \in WireShape
      /\ wire \in [Flow -> WireShape] /\ ctl \in [Flow -> TaskShape]
      /\ Match(ctl[f], wire[f], flow[f], said)
      /\ Dated(wire[f].down, service.v) /\ Dated(ctl[f].inbox, service.v)
  BY DevParts
<1>a. PICK a \in {"finishing", "failing"} : a = IF Accepts(f) THEN "finishing" ELSE "failing"
  OBVIOUS
<1>t. PICK t : t = [ctl[f] EXCEPT !.at = a]
  OBVIOUS
<1>2. t \in TaskShape /\ t.at = a /\ t.asked = ctl[f].asked /\ t.inbox = ctl[f].inbox
  BY <1>1, <1>t DEF TaskShape
<1>3. ctl' = [ctl EXCEPT ![f] = t]
  <2>1. ctl' = [ctl EXCEPT ![f].at = a]
    BY <1>a DEF JoinAnswered
  <2> QED
    BY <1>1, <1>t, <2>1
<1>4. wire' = [wire EXCEPT ![f] = Popped(wire[f])]
  BY <1>1 DEF JoinAnswered, Popped
<1>5. Popped(wire[f]) \in WireShape /\ Popped(wire[f]).down = wire[f].down
  BY <1>1, PoppedIs
<1>6. a = "finishing" => wire[f].up # <<>> /\ Head(wire[f].up)
  BY <1>a DEF Accepts
<1>7. Match(t, Popped(wire[f]), flow[f], said)
  BY <1>0, <1>1, <1>2, <1>6, AnswerMatch
<1>8. Dated(Popped(wire[f]).down, service'.v) /\ Dated(t.inbox, service'.v)
  BY <1>0, <1>1, <1>2, <1>5
<1> QED
  BY <1>0, <1>2, <1>3, <1>4, <1>5, <1>7, <1>8, ServiceStays, TaskStep

LEMMA JoinEndsKeepsDevInv ==
  ASSUME DevInv, NEW f \in Flow, NEW ok \in BOOLEAN, JoinEnds(f, ok)
  PROVE  DevInv'
<1>0. GuiStays /\ ctl' = [ctl EXCEPT ![f] = Ended]
  BY DEF JoinEnds, guiVars, GuiStays
<1>1. /\ service \in ServiceShape /\ service.v \in Nat /\ joined \in JoinedShape
      /\ ctl[f] \in TaskShape /\ Match(ctl[f], wire[f], flow[f], said)
      /\ Windowed(service, flow) /\ Consent(service, joined, said)
  BY DevParts
<1>2. CASE ~ok
  <2>1. /\ ctl[f].at # "none" /\ service' = service /\ joined' = joined /\ wire' = LastLine(f, Error)
    BY <1>2 DEF JoinEnds
  <2>2. Error.v <= service'.v
    BY <1>1, <2>1, ErrorIs
  <2> QED
    BY <1>0, <2>1, <2>2, ErrorIs, ServiceStays, EndKeepsDevInv
<1>3. CASE ok
  <2>1. ctl[f].at \in {"finishing"} \cup IF flow[f].kind = "join" THEN {"joining"} ELSE {}
    BY <1>3 DEF JoinEnds
  <2>2. ctl[f].at # "none" /\ (flow[f].kind = "joincode" => ctl[f].at = "finishing")
    BY <2>1
  <2>v. PICK v \in Nat : v = service.v + 1
    BY <1>1
  <2>3. /\ service' = [service EXCEPT !.group = "member", !.v = v] /\ wire' = LastLine(f, Done(v))
        /\ joined' = IF flow[f].kind = "joincode" THEN [joined EXCEPT !.in = @ \cup {ctl[f].asked}]
                     ELSE joined
    BY <1>3, <2>v DEF JoinEnds
  <2>4. service' \in ServiceShape
    BY <1>1, <2>3 DEF ServiceShape, Groups
  <2>5. service'.v = v /\ service'.window = service.window /\ service'.attempt = service.attempt
    BY <1>1, <2>3 DEF ServiceShape
  <2>6. v >= service.v /\ Done(v) \in Tidings /\ Done(v).v <= v
    BY <1>1, <2>v, TidingsAre DEF Done
  <2>7. joined' \in JoinedShape /\ joined'.all = joined.all
        /\ \A n \in joined'.in : n \in joined.in \/ n \in said
    <3>1. CASE flow[f].kind = "joincode"
      <4>1. ctl[f].asked \in said /\ ctl[f].asked \in Nat
        BY <1>1, <2>2, <3>1 DEF Match, TaskShape
      <4>i. PICK ms \in SUBSET Nat : ms = joined.in \cup {ctl[f].asked}
        BY <1>1, <4>1 DEF JoinedShape
      <4>2. joined' = [joined EXCEPT !.in = ms]
        BY <2>3, <3>1, <4>i
      <4>3. joined' \in JoinedShape /\ joined'.all = joined.all /\ joined'.in = ms
        BY <1>1, <4>2 DEF JoinedShape
      <4> QED
        BY <4>1, <4>3, <4>i
    <3>2. CASE flow[f].kind # "joincode"
      BY <1>1, <2>3, <3>2
    <3> QED
      BY <3>1, <3>2
  <2>8. Consent(service', joined', said) /\ Windowed(service', flow)
    BY <1>1, <2>5, <2>7 DEF Consent, Windowed, Agreed
  <2> QED
    BY <1>0, <2>2, <2>3, <2>4, <2>5, <2>6, <2>7, <2>8, EndKeepsDevInv
<1> QED
  BY <1>2, <1>3

LEMMA ReadyKeepsDevInv ==
  ASSUME DevInv, ServiceReady \/ RemovedElsewhere
  PROVE  DevInv'
<1>0. GuiStays /\ ctl' = ctl /\ wire' = wire /\ joined' = joined
  BY DEF ServiceReady, RemovedElsewhere, guiVars, GuiStays
<1>1. /\ service \in ServiceShape /\ joined \in JoinedShape /\ service.v \in Nat
      /\ Windowed(service, flow) /\ Consent(service, joined, said)
  <2>1. service \in ServiceShape /\ joined \in JoinedShape
    BY DEF DevInv, DevShape
  <2> QED
    BY <2>1 DEF DevInv, ServiceShape
<1>2. /\ service' \in ServiceShape /\ service'.v >= service.v
      /\ service'.window = service.window /\ service'.attempt = service.attempt
  <2>1. CASE ServiceReady
    <3>1. service' = [service EXCEPT !.at = "up"]
      BY <2>1 DEF ServiceReady
    <3> QED
      BY <1>1, <3>1 DEF ServiceShape
  <2>2. CASE RemovedElsewhere
    <3>v. PICK v \in Nat : v = service.v + 1
      BY <1>1
    <3>1. service' = [service EXCEPT !.group = "removed", !.v = v]
      BY <2>2, <3>v DEF RemovedElsewhere
    <3>2. service' \in ServiceShape
      BY <1>1, <3>1 DEF ServiceShape, Groups
    <3>3. service'.v = v /\ service'.window = service.window /\ service'.attempt = service.attempt
      BY <1>1, <3>1 DEF ServiceShape
    <3> QED
      BY <1>1, <3>2, <3>3, <3>v
  <2> QED
    BY <2>1, <2>2
<1>3. Windowed(service', flow) /\ Consent(service', joined', said)
  BY <1>0, <1>1, <1>2, ServiceKept
<1> QED
  BY <1>0, <1>1, <1>2, <1>3, ServiceStep

-----------------------------------------------------------------------------
(* The page and its probes.                                                *)
LEMMA PageStep ==
  ASSUME DevInv, service' = service, ctl' = ctl, wire' = wire, flow' = flow, said' = said,
         joined' = joined, worker' \in WorkerShape, worker'.v <= service.v,
         page' \in PageShape, page'.told <= service.v, probes' \in SUBSET ProbeShape,
         OneProbe(page', probes'), Timely(page', probes'), Fresh(page'), Closes(page', flow)
  PROVE  DevInv'
<1>1. /\ service' \in ServiceShape /\ service'.v >= service.v
      /\ joined' \in JoinedShape /\ Windowed(service', flow) /\ Consent(service', joined', said)
  BY ServiceStays
<1>2. said \in SUBSET Nat
  BY DEF DevInv, DevShape
<1>3. Orderly
  BY <1>1, <1>2 DEF Orderly
<1> QED
  BY <1>3, AsideStep

LEMMA PageParts ==
  ASSUME DevInv
  PROVE  /\ service \in ServiceShape /\ service.v \in Nat
         /\ page \in PageShape /\ page.told \in Nat /\ page.told <= service.v
         /\ page.probing \in BOOLEAN /\ page.again \in BOOLEAN
         /\ worker \in WorkerShape /\ worker.v \in Nat /\ worker.v <= service.v
         /\ probes \in SUBSET ProbeShape /\ OneProbe(page, probes) /\ Timely(page, probes)
         /\ Fresh(page) /\ Closes(page, flow)
<1>1. service \in ServiceShape /\ page \in PageShape /\ worker \in WorkerShape
  BY DEF DevInv, DevShape
<1>2. service.v \in Nat
  BY <1>1 DEF ServiceShape
<1>3. page.told \in Nat /\ page.probing \in BOOLEAN /\ page.again \in BOOLEAN
  BY <1>1 DEF PageShape
<1>4. worker.v \in Nat
  BY <1>1 DEF WorkerShape
<1> QED
  BY <1>1, <1>2, <1>3, <1>4 DEF DevInv, DevShape

LEMMA StoppedIs == Stopped \in Report /\ ~Stopped.up
BY DEF Stopped, Report, Groups

LEMMA ProbeIs ==
  ASSUME NEW by \in {"refresh", "switch"}, NEW on \in BOOLEAN, NEW n \in Nat
  PROVE  Probe(by, on, n) \in ProbeShape /\ Probe(by, on, n).by = by /\ Probe(by, on, n).at = "asks"
BY StoppedIs DEF Probe, ProbeShape

Placed(p, q) == p.open = q.open /\ p.top = q.top /\ p.slot = q.slot

LEMMA PlacedCloses ==
  ASSUME NEW p, NEW q, NEW fs, Closes(q, fs), Placed(p, q)
  PROVE  Closes(p, fs)
BY DEF Closes, Placed

(* A fresh report is asked for, now or when the probe under way is back.   *)
LEMMA RefreshPageIs ==
  ASSUME NEW p \in PageShape
  PROVE  LET q == refresh_page(p)
         IN  /\ q \in PageShape /\ q.probing /\ (p.probing => q.again)
             /\ q.told = p.told /\ q.shown = p.shown /\ q.by = p.by /\ Placed(q, p)
<1>q. PICK q : q = refresh_page(p)
  OBVIOUS
<1>1. CASE p.probing
  <2>1. q = [p EXCEPT !.again = TRUE]
    BY <1>q, <1>1 DEF refresh_page
  <2>2. q \in PageShape
    BY <2>1 DEF PageShape
  <2>3. q.probing /\ q.again
    BY <1>1, <2>1 DEF PageShape
  <2>4. q.told = p.told /\ q.shown = p.shown /\ q.by = p.by /\ Placed(q, p)
    BY <2>1 DEF PageShape, Placed
  <2> QED
    BY <1>q, <2>2, <2>3, <2>4
<1>2. CASE ~p.probing
  <2>1. q = [p EXCEPT !.probing = TRUE]
    BY <1>q, <1>2 DEF refresh_page
  <2>2. q \in PageShape
    BY <2>1 DEF PageShape
  <2>3. q.probing
    BY <2>1 DEF PageShape
  <2>4. q.told = p.told /\ q.shown = p.shown /\ q.by = p.by /\ Placed(q, p)
    BY <2>1 DEF PageShape, Placed
  <2> QED
    BY <1>q, <1>2, <2>2, <2>3, <2>4
<1> QED
  BY <1>1, <1>2

LEMMA RefreshedIs ==
  ASSUME DevInv, NEW q, q.probing, page.probing => q.again
  PROVE  /\ Refreshed(probes) \in SUBSET ProbeShape
         /\ OneProbe(q, Refreshed(probes)) /\ Timely(q, Refreshed(probes))
<1>1. probes \in SUBSET ProbeShape /\ OneProbe(page, probes) /\ page.probing \in BOOLEAN
  BY PageParts
<1>p. PICK p : p = Probe("refresh", FALSE, 0)
  OBVIOUS
<1>2. p \in ProbeShape /\ p.by = "refresh" /\ p.at = "asks"
  BY <1>p, ProbeIs
<1>3. CASE page.probing
  <2>1. Refreshed(probes) = probes
    BY <1>3 DEF Refreshed
  <2> QED
    BY <1>1, <1>3, <2>1 DEF OneProbe, Timely
<1>4. CASE ~page.probing
  <2>1. Refreshed(probes) = probes \cup {p}
    BY <1>4, <1>p DEF Refreshed
  <2>2. \A x \in probes : x.by # "refresh"
    BY <1>1, <1>4 DEF OneProbe
  <2> QED
    BY <1>1, <1>2, <2>1, <2>2 DEF OneProbe, Timely
<1> QED
  BY <1>3, <1>4

LEMMA RefreshTimerKeepsDevInv ==
  ASSUME DevInv, RefreshTimer
  PROVE  DevInv'
<1>1. /\ service' = service /\ ctl' = ctl /\ wire' = wire /\ flow' = flow /\ said' = said
      /\ joined' = joined /\ worker' = worker
      /\ page' = refresh_page(page) /\ probes' = Refreshed(probes)
  BY DEF RefreshTimer
<1>2. /\ page \in PageShape /\ page.told <= service.v /\ worker \in WorkerShape /\ worker.v <= service.v
      /\ Fresh(page) /\ Closes(page, flow)
  BY PageParts
<1>3. /\ page' \in PageShape /\ page'.probing /\ (page.probing => page'.again)
      /\ page'.told = page.told /\ page'.shown = page.shown /\ page'.by = page.by /\ Placed(page', page)
  BY <1>1, <1>2, RefreshPageIs
<1>4. probes' \in SUBSET ProbeShape /\ OneProbe(page', probes') /\ Timely(page', probes')
  BY <1>1, <1>3, RefreshedIs
<1>5. Fresh(page') /\ Closes(page', flow)
  BY <1>2, <1>3, PlacedCloses DEF Fresh
<1> QED
  BY <1>1, <1>2, <1>3, <1>4, <1>5, PageStep

LEMMA AskStatusKeepsDevInv ==
  ASSUME DevInv, NEW p \in probes, AskStatus(p) \/ StatusTimeout(p)
  PROVE  DevInv'
<1>s. PICK s : /\ s \in {Status, Stopped}
               /\ probes' = (probes \ {p}) \cup {[p EXCEPT !.at = "back", !.saw = s]}
  BY DEF AskStatus, StatusTimeout
<1>x. PICK x : x = [p EXCEPT !.at = "back", !.saw = s]
  OBVIOUS
<1>1. /\ service' = service /\ ctl' = ctl /\ wire' = wire /\ flow' = flow /\ said' = said
      /\ joined' = joined /\ worker' = worker /\ page' = page
      /\ probes' = (probes \ {p}) \cup {x}
  BY <1>s, <1>x DEF AskStatus, StatusTimeout
<1>2. /\ page \in PageShape /\ page.told <= service.v /\ worker \in WorkerShape /\ worker.v <= service.v
      /\ Fresh(page) /\ Closes(page, flow) /\ probes \in SUBSET ProbeShape /\ service.v \in Nat
      /\ OneProbe(page, probes) /\ Timely(page, probes) /\ service \in ServiceShape /\ page.told \in Nat
  BY PageParts
<1>3. s \in Report /\ (s.up => s.v = service.v)
  <2>b. PICK b \in BOOLEAN : b = (service.at = "up")
    OBVIOUS
  <2>1. Status = [up |-> b, v |-> service.v, group |-> service.group]
    BY <2>b DEF Status
  <2>2. service.group \in Groups
    BY <1>2 DEF ServiceShape
  <2>3. Status \in Report /\ Status.v = service.v
    BY <1>2, <2>1, <2>2 DEF Report
  <2> QED
    BY <1>s, <2>3, StoppedIs
<1>4. p \in ProbeShape
  BY <1>2
<1>5. x \in ProbeShape /\ x.by = p.by /\ x.saw = s
  BY <1>3, <1>4, <1>x DEF ProbeShape
<1>6. OneProbe(page', probes')
  BY <1>1, <1>2, <1>5 DEF OneProbe
<1>7. Timely(page', probes')
  BY <1>1, <1>2, <1>3, <1>5 DEF Timely
<1> QED
  BY <1>1, <1>2, <1>5, <1>6, <1>7, PageStep

LEMMA ShowIs ==
  ASSUME NEW p \in PageShape, NEW st \in Report, NEW by \in {"refresh", "switch"}
  PROVE  LET q == show(p, st, by)
         IN  /\ q \in PageShape /\ q.probing = p.probing /\ q.again = p.again /\ q.told = p.told
             /\ q.by = by /\ (q.shown.up => st.up /\ q.shown.v = st.v) /\ Placed(q, p)
<1>q. PICK q : q = show(p, st, by)
  OBVIOUS
<1>1. st.up \in BOOLEAN /\ p.switch \in BOOLEAN /\ p.toggling \in BOOLEAN
  BY DEF Report, PageShape
<1>b. PICK b \in BOOLEAN : b = IF p.toggling THEN p.switch ELSE st.up
  BY <1>1
<1>r. PICK r \in Report : r = IF st.up THEN st ELSE Stopped
  BY StoppedIs
<1>2. q = [p EXCEPT !.switch = b, !.shown = r, !.by = by]
  BY <1>q, <1>b, <1>r DEF show
<1>3. q \in PageShape
  BY <1>2 DEF PageShape
<1>4. q.probing = p.probing /\ q.again = p.again
  BY <1>2 DEF PageShape
<1>5. q.told = p.told /\ q.by = by /\ q.shown = r /\ Placed(q, p)
  BY <1>2 DEF PageShape, Placed
<1>6. r.up => st.up /\ r.v = st.v
  BY <1>r, StoppedIs
<1> QED
  BY <1>q, <1>3, <1>4, <1>5, <1>6

LEMMA AnsweredKeepsDevInv ==
  ASSUME DevInv, NEW p \in probes, Answered(p)
  PROVE  DevInv'
<1>1. /\ service' = service /\ ctl' = ctl /\ wire' = wire /\ flow' = flow /\ said' = said
      /\ joined' = joined /\ worker' = worker /\ p.at = "back" /\ p.by = "refresh"
  BY DEF Answered
<1>2. /\ page \in PageShape /\ page.told <= service.v /\ worker \in WorkerShape /\ worker.v <= service.v
      /\ Fresh(page) /\ Closes(page, flow) /\ probes \in SUBSET ProbeShape
      /\ OneProbe(page, probes) /\ Timely(page, probes)
  BY PageParts
<1>3. \A x \in probes \ {p} : x.by # "refresh"
  BY <1>1, <1>2 DEF OneProbe
<1>4. p \in ProbeShape /\ p.saw \in Report
  BY <1>2 DEF ProbeShape
<1>5. CASE page.again
  <2>x. PICK x : x = Probe("refresh", FALSE, 0)
    OBVIOUS
  <2>1. page' = [page EXCEPT !.again = FALSE] /\ probes' = (probes \ {p}) \cup {x}
    BY <1>5, <2>x DEF Answered
  <2>2. x \in ProbeShape /\ x.by = "refresh" /\ x.at = "asks"
    BY <2>x, ProbeIs
  <2>3. page' \in PageShape
    BY <1>2, <2>1 DEF PageShape
  <2>4. page'.probing = page.probing
    BY <1>2, <2>1 DEF PageShape
  <2>5. /\ page'.told = page.told /\ page'.shown = page.shown /\ page'.by = page.by
        /\ Placed(page', page)
    BY <1>2, <2>1 DEF PageShape, Placed
  <2>6. page.probing
    BY <1>1, <1>2 DEF OneProbe
  <2>7. OneProbe(page', probes') /\ Timely(page', probes')
    BY <1>3, <2>1, <2>2, <2>4, <2>6 DEF OneProbe, Timely
  <2>8. Fresh(page') /\ Closes(page', flow) /\ probes' \in SUBSET ProbeShape
    BY <1>2, <2>1, <2>2, <2>5, PlacedCloses DEF Fresh
  <2> QED
    BY <1>1, <1>2, <2>3, <2>5, <2>7, <2>8, PageStep
<1>6. CASE ~page.again
  <2>q. PICK q : q = [page EXCEPT !.probing = FALSE]
    OBVIOUS
  <2>1. page' = (IF page.open THEN show(q, p.saw, "refresh") ELSE q) /\ probes' = probes \ {p}
    BY <1>6, <2>q DEF Answered
  <2>2. q \in PageShape
    BY <1>2, <2>q DEF PageShape
  <2>3. q.told = page.told /\ q.shown = page.shown /\ q.by = page.by /\ Placed(q, page)
    BY <1>2, <2>q DEF PageShape, Placed
  <2>4. p.saw.up => p.saw.v >= page.told
    BY <1>1, <1>2, <1>6 DEF Timely
  <2>5. probes' \in SUBSET ProbeShape /\ OneProbe(page', probes') /\ Timely(page', probes')
    BY <1>2, <1>3, <2>1 DEF OneProbe, Timely
  <2>6. /\ page' \in PageShape /\ page'.told = page.told /\ Fresh(page') /\ Placed(page', page)
    <3>1. CASE page.open
      <4>1. /\ page' \in PageShape /\ page'.told = q.told
            /\ (page'.shown.up => p.saw.up /\ page'.shown.v = p.saw.v) /\ Placed(page', q)
        BY <1>4, <2>1, <2>2, <3>1, ShowIs
      <4> QED
        BY <2>3, <2>4, <4>1 DEF Fresh, Placed
    <3>2. CASE ~page.open
      BY <1>2, <2>1, <2>2, <2>3, <3>2 DEF Fresh
    <3> QED
      BY <3>1, <3>2
  <2>7. Closes(page', flow)
    BY <1>2, <2>6, PlacedCloses
  <2> QED
    BY <1>1, <1>2, <2>5, <2>6, <2>7, PageStep
<1> QED
  BY <1>5, <1>6

LEMMA AwaitKeepsDevInv ==
  ASSUME DevInv, NEW p \in probes, AwaitService(p)
  PROVE  DevInv'
<1>1. /\ service' = service /\ ctl' = ctl /\ wire' = wire /\ flow' = flow /\ said' = said
      /\ joined' = joined /\ worker' = worker /\ p.at = "back" /\ p.by = "switch"
  BY DEF AwaitService
<1>2. /\ page \in PageShape /\ page.told <= service.v /\ worker \in WorkerShape /\ worker.v <= service.v
      /\ Fresh(page) /\ Closes(page, flow) /\ probes \in SUBSET ProbeShape
      /\ OneProbe(page, probes) /\ Timely(page, probes)
  BY PageParts
<1>4. p \in ProbeShape /\ p.saw \in Report /\ p.polls \in Nat /\ p.on \in BOOLEAN
  <2>1. p \in ProbeShape
    BY <1>2
  <2> QED
    BY <2>1 DEF ProbeShape
<1>5. CASE page.open /\ p.saw.up # p.on /\ p.polls > 0
  <2>x. PICK x : x = Probe("switch", p.on, p.polls - 1)
    OBVIOUS
  <2>1. page' = page /\ probes' = (probes \ {p}) \cup {x}
    BY <1>5, <2>x DEF AwaitService
  <2>2. x \in ProbeShape /\ x.by = "switch"
    <3>1. p.polls - 1 \in Nat
      BY <1>4, <1>5
    <3> QED
      BY <1>4, <2>x, <3>1, ProbeIs
  <2>3. probes' \in SUBSET ProbeShape /\ OneProbe(page', probes') /\ Timely(page', probes')
    BY <1>2, <2>1, <2>2 DEF OneProbe, Timely
  <2> QED
    BY <1>1, <1>2, <2>1, <2>3, PageStep
<1>6. CASE ~(page.open /\ p.saw.up # p.on /\ p.polls > 0)
  <2>q. PICK q : q = [page EXCEPT !.toggling = FALSE]
    OBVIOUS
  <2>1. page' = (IF page.open THEN show(q, p.saw, "switch") ELSE page) /\ probes' = probes \ {p}
    BY <1>6, <2>q DEF AwaitService
  <2>2. q \in PageShape
    BY <1>2, <2>q DEF PageShape
  <2>3. q.probing = page.probing /\ q.again = page.again
    BY <1>2, <2>q DEF PageShape
  <2>4. q.told = page.told /\ Placed(q, page)
    BY <1>2, <2>q DEF PageShape, Placed
  <2>5. /\ page' \in PageShape /\ page'.told = page.told /\ Fresh(page') /\ Placed(page', page)
        /\ page'.probing = page.probing /\ page'.again = page.again
    <3>1. CASE page.open
      <4>1. /\ page' \in PageShape /\ page'.told = q.told /\ page'.by = "switch" /\ Placed(page', q)
            /\ page'.probing = q.probing /\ page'.again = q.again
        BY <1>4, <2>1, <2>2, <3>1, ShowIs
      <4> QED
        BY <2>3, <2>4, <4>1 DEF Fresh, Placed
    <3>2. CASE ~page.open
      BY <1>2, <2>1, <3>2 DEF Placed
    <3> QED
      BY <3>1, <3>2
  <2>6. probes' \in SUBSET ProbeShape /\ OneProbe(page', probes') /\ Timely(page', probes')
    BY <1>2, <2>1, <2>5 DEF OneProbe, Timely
  <2>7. Closes(page', flow)
    BY <1>2, <2>5, PlacedCloses
  <2> QED
    BY <1>1, <1>2, <2>5, <2>6, <2>7, PageStep
<1> QED
  BY <1>5, <1>6

(* The switch and the requests of the page.                                *)
LEMMA FreeIs == Free \in WorkerShape /\ Free.v = 0
BY DEF Free, WorkerShape

LEMMA SwitchedKeepsDevInv ==
  ASSUME DevInv, service_switched \/ UnitBack
  PROVE  DevInv'
<1>1. /\ service' = service /\ ctl' = ctl /\ wire' = wire /\ flow' = flow /\ said' = said
      /\ joined' = joined /\ worker' = worker
  BY DEF service_switched, UnitBack
<1>2. /\ page \in PageShape /\ page.told <= service.v /\ worker \in WorkerShape /\ worker.v <= service.v
      /\ Fresh(page) /\ Closes(page, flow) /\ probes \in SUBSET ProbeShape /\ service.v \in Nat
      /\ OneProbe(page, probes) /\ Timely(page, probes)
  BY PageParts
<1>4. \/ probes' = probes
      \/ \E x \in ProbeShape : x.by = "switch" /\ probes' = probes \cup {x}
  <2>1. CASE service_switched
    BY <2>1 DEF service_switched
  <2>2. CASE UnitBack
    <3>b. PICK b \in BOOLEAN : b = (unit.of = "start")
      OBVIOUS
    <3>n. PICK n \in Nat : n = SERVICE_POLLS
      BY DevicesAssumption
    <3>1. probes' = probes \/ probes' = probes \cup {Probe("switch", b, n)}
      BY <2>2, <3>b, <3>n DEF UnitBack
    <3> QED
      BY <3>1, ProbeIs
  <2> QED
    BY <2>1, <2>2
<1>5. \/ page' = page
      \/ \E a, b \in BOOLEAN : page' = [page EXCEPT !.switch = a, !.toggling = b]
  <2>1. CASE service_switched
    <3>a. PICK a \in BOOLEAN : a = ~page.switch
      OBVIOUS
    <3>1. page' = [page EXCEPT !.switch = a, !.toggling = TRUE]
      BY <2>1, <3>a DEF service_switched
    <3> QED
      BY <3>1
  <2>2. CASE UnitBack
    <3>a. PICK a \in BOOLEAN : a = (unit.of = "stop")
      OBVIOUS
    <3>1. page' = page \/ page' = [page EXCEPT !.toggling = FALSE, !.switch = a]
      BY <2>2, <3>a DEF UnitBack
    <3>2. [page EXCEPT !.toggling = FALSE, !.switch = a] = [page EXCEPT !.switch = a, !.toggling = FALSE]
      BY <1>2 DEF PageShape
    <3> QED
      BY <3>1, <3>2
  <2> QED
    BY <2>1, <2>2
<1>6. page' \in PageShape
  BY <1>2, <1>5 DEF PageShape
<1>7. /\ page'.probing = page.probing /\ page'.again = page.again
  BY <1>2, <1>5 DEF PageShape
<1>8. /\ page'.told = page.told /\ page'.shown = page.shown /\ page'.by = page.by
      /\ Placed(page', page)
  BY <1>2, <1>5 DEF PageShape, Placed
<1>9. probes' \in SUBSET ProbeShape /\ OneProbe(page', probes') /\ Timely(page', probes')
  BY <1>2, <1>4, <1>7, <1>8 DEF OneProbe, Timely
<1>10. Fresh(page') /\ Closes(page', flow)
  BY <1>2, <1>8, PlacedCloses DEF Fresh
<1> QED
  BY <1>1, <1>2, <1>6, <1>8, <1>9, <1>10, PageStep

LEMMA RequestOnceKeepsDevInv ==
  ASSUME DevInv, NEW what \in {"remove", "leave"}, RequestOnce(what)
  PROVE  DevInv'
<1>1. /\ service' = service /\ ctl' = ctl /\ wire' = wire /\ flow' = flow /\ said' = said
      /\ joined' = joined /\ page' = page /\ probes' = probes
      /\ worker' = [Free EXCEPT !.at = "request", !.of = what]
  BY DEF RequestOnce
<1>2. /\ page \in PageShape /\ page.told <= service.v
      /\ Fresh(page) /\ Closes(page, flow) /\ probes \in SUBSET ProbeShape /\ service.v \in Nat
      /\ OneProbe(page, probes) /\ Timely(page, probes)
  BY PageParts
<1>3. worker' \in WorkerShape /\ worker'.v = 0
  BY <1>1, FreeIs DEF WorkerShape
<1>4. worker'.v <= service.v
  BY <1>2, <1>3
<1> QED
  BY <1>1, <1>2, <1>3, <1>4, PageStep

LEMMA RequestRunsKeepsDevInv ==
  ASSUME DevInv, NEW ok \in BOOLEAN, RequestRuns(ok)
  PROVE  DevInv'
<1>1. /\ ctl' = ctl /\ wire' = wire /\ flow' = flow /\ said' = said
      /\ joined' = joined /\ page' = page /\ probes' = probes
  BY DEF RequestRuns
<1>2. /\ page \in PageShape /\ page.told <= service.v /\ worker \in WorkerShape
      /\ Fresh(page) /\ Closes(page, flow) /\ probes \in SUBSET ProbeShape /\ service.v \in Nat
      /\ OneProbe(page, probes) /\ Timely(page, probes) /\ service \in ServiceShape /\ page.told \in Nat
  BY PageParts
<1>3. joined \in JoinedShape /\ said \in SUBSET Nat /\ Windowed(service, flow) /\ Consent(service, joined, said)
  BY DEF DevInv, DevShape
<1>4. /\ service' \in ServiceShape /\ service'.v >= service.v
      /\ service'.window = service.window /\ service'.attempt = service.attempt
  <2>1. CASE ~ok
    <3>1. service' = service
      BY <2>1 DEF RequestRuns
    <3> QED
      BY <1>2, <3>1
  <2>2. CASE ok
    <3>v. PICK v \in Nat : v = service.v + 1
      BY <1>2
    <3>g. PICK g \in Groups : g = IF worker.of = "leave" THEN "none" ELSE service.group
      BY <1>2 DEF ServiceShape, Groups
    <3>1. service' = [service EXCEPT !.v = v, !.group = g]
      BY <2>2, <3>v, <3>g DEF RequestRuns
    <3>2. service' \in ServiceShape
      BY <1>2, <3>1 DEF ServiceShape
    <3>3. service'.v = v /\ service'.window = service.window /\ service'.attempt = service.attempt
      BY <1>2, <3>1 DEF ServiceShape
    <3> QED
      BY <1>2, <3>2, <3>3, <3>v
  <2> QED
    BY <2>1, <2>2
<1>5. service'.v \in Nat
  BY <1>4 DEF ServiceShape
<1>6. worker' \in WorkerShape /\ worker'.v = service'.v
  <2>n. PICK n \in Nat : n = service'.v
    BY <1>5
  <2>1. worker' = [worker EXCEPT !.at = "requestback", !.ok = ok, !.v = n]
    BY <2>n DEF RequestRuns
  <2>2. worker' \in WorkerShape
    BY <1>2, <2>1 DEF WorkerShape
  <2>3. worker'.v = n
    BY <1>2, <2>1 DEF WorkerShape
  <2> QED
    BY <2>2, <2>3, <2>n
<1>7. Windowed(service', flow') /\ Consent(service', joined', said')
  BY <1>1, <1>3, <1>4, ServiceKept
<1>8. page'.told <= service'.v /\ worker'.v <= service'.v
  BY <1>1, <1>2, <1>4, <1>5, <1>6
<1>9. Orderly
  BY <1>1, <1>2, <1>3, <1>4, <1>6, <1>7, <1>8 DEF Orderly
<1> QED
  BY <1>1, <1>9, AsideStep

LEMMA ForgetIs ==
  ASSUME DevInv, NEW n \in Nat, NEW q, q = [refresh_page(Forget(page)) EXCEPT !.told = n]
  PROVE  /\ q \in PageShape /\ q.probing /\ (page.probing => q.again) /\ q.told = n
         /\ Fresh(q) /\ Placed(q, page)
<1>0. page \in PageShape
  BY PageParts
<1>p. PICK p : p = Forget(page)
  OBVIOUS
<1>r. PICK r \in Report : r = Stopped
  BY StoppedIs
<1>1. p = [page EXCEPT !.shown = r, !.by = "refresh"]
  BY <1>p, <1>r DEF Forget
<1>2. p \in PageShape
  BY <1>0, <1>1 DEF PageShape
<1>3. p.probing = page.probing
  BY <1>0, <1>1 DEF PageShape
<1>4. p.shown = r /\ Placed(p, page)
  BY <1>0, <1>1 DEF PageShape, Placed
<1>s. PICK s : s = refresh_page(p)
  OBVIOUS
<1>5. /\ s \in PageShape /\ s.probing /\ (p.probing => s.again) /\ s.shown = p.shown /\ Placed(s, p)
  BY <1>2, <1>s, RefreshPageIs
<1>6. q = [s EXCEPT !.told = n]
  BY <1>p, <1>s
<1>7. q \in PageShape
  BY <1>5, <1>6 DEF PageShape
<1>8. q.probing = s.probing /\ q.again = s.again
  BY <1>5, <1>6 DEF PageShape
<1>9. q.told = n /\ q.shown = s.shown /\ Placed(q, s)
  BY <1>5, <1>6 DEF PageShape, Placed
<1>10. Fresh(q)
  BY <1>4, <1>5, <1>9, <1>r, StoppedIs DEF Fresh
<1>11. Placed(q, page)
  BY <1>4, <1>5, <1>9 DEF Placed
<1> QED
  BY <1>3, <1>5, <1>7, <1>8, <1>9, <1>10, <1>11

LEMMA RequestBackKeepsDevInv ==
  ASSUME DevInv, RequestBack
  PROVE  DevInv'
<1>1. /\ service' = service /\ ctl' = ctl /\ wire' = wire /\ flow' = flow /\ said' = said
      /\ joined' = joined /\ worker' = Free /\ probes' = Refreshed(probes)
  BY DEF RequestBack
<1>2. /\ page \in PageShape /\ page.told <= service.v /\ page.told \in Nat /\ worker.v \in Nat
      /\ worker.v <= service.v /\ Closes(page, flow) /\ service.v \in Nat
  BY PageParts
<1>3. PICK n \in Nat : n <= service.v /\ page' = [refresh_page(Forget(page)) EXCEPT !.told = n]
  <2>s. PICK s : s = refresh_page(Forget(page))
    OBVIOUS
  <2>1. s.told = page.told
    <3>r. PICK r \in Report : r = Stopped
      BY StoppedIs
    <3>1. Forget(page) = [page EXCEPT !.shown = r, !.by = "refresh"]
      BY <3>r DEF Forget
    <3>2. Forget(page) \in PageShape
      BY <1>2, <3>1 DEF PageShape
    <3>3. Forget(page).told = page.told
      BY <1>2, <3>1 DEF PageShape
    <3> QED
      BY <2>s, <3>2, <3>3, RefreshPageIs
  <2>2. page' = [s EXCEPT !.told = IF worker.ok THEN worker.v ELSE s.told]
    BY <2>s DEF RequestBack
  <2> QED
    BY <1>2, <2>1, <2>2, <2>s
<1>4. /\ page' \in PageShape /\ page'.probing /\ (page.probing => page'.again) /\ page'.told = n
      /\ Fresh(page') /\ Placed(page', page)
  BY <1>3, ForgetIs
<1>5. probes' \in SUBSET ProbeShape /\ OneProbe(page', probes') /\ Timely(page', probes')
  BY <1>1, <1>4, RefreshedIs
<1>6. Closes(page', flow) /\ worker' \in WorkerShape /\ worker'.v <= service.v /\ page'.told <= service.v
  BY <1>1, <1>2, <1>3, <1>4, FreeIs, PlacedCloses
<1> QED
  BY <1>1, <1>4, <1>5, <1>6, PageStep

(* systemctl.                                                              *)
LEMMA SetUnitKeepsDevInv ==
  ASSUME DevInv, NEW ok \in BOOLEAN, set_unit(ok)
  PROVE  DevInv'
<1>1. /\ page' = page /\ probes' = probes /\ flow' = flow /\ said' = said /\ joined' = joined
      /\ worker' = worker
  BY DEF set_unit
<1>2. /\ page \in PageShape /\ page.told <= service.v /\ worker \in WorkerShape /\ worker.v <= service.v
      /\ Fresh(page) /\ Closes(page, flow) /\ probes \in SUBSET ProbeShape /\ service.v \in Nat
      /\ OneProbe(page, probes) /\ Timely(page, probes) /\ service \in ServiceShape
  BY PageParts
<1>3. /\ joined \in JoinedShape /\ said \in SUBSET Nat /\ Windowed(service, flow)
      /\ Consent(service, joined, said) /\ flow \in [Flow -> SubpageShape]
      /\ wire \in [Flow -> WireShape] /\ ctl \in [Flow -> TaskShape]
  BY DEF DevInv, DevShape
<1>4. worker' \in WorkerShape /\ worker'.v = worker.v
  BY <1>1, <1>2
<1>a. PICK a \in [n : Nat, at : {"idle", "asked", "accepted", "refused"}] : a = NoAttempt
  BY DEF NoAttempt, None
<1>5. \/ service' = [service EXCEPT !.at = "down", !.window = None, !.attempt = a]
      \/ service' = [service EXCEPT !.at = "starting"]
      \/ service' = service
  BY <1>a DEF set_unit
<1>6. service' \in ServiceShape
  BY <1>2, <1>5 DEF ServiceShape
<1>7. /\ service'.v = service.v /\ (service'.window = service.window \/ service'.window = None)
      /\ (service'.attempt = service.attempt \/ service'.attempt = a)
  BY <1>2, <1>5 DEF ServiceShape
<1>8. Windowed(service', flow') /\ Consent(service', joined', said')
  <2>1. a.at # "accepted"
    BY <1>a DEF NoAttempt
  <2> QED
    BY <1>1, <1>3, <1>7, <2>1, ServiceKept
<1>9. service'.v >= service.v /\ page'.told <= service'.v /\ worker'.v <= service'.v
  BY <1>1, <1>2, <1>4, <1>7
<1>10. Orderly
  BY <1>1, <1>2, <1>3, <1>4, <1>6, <1>8, <1>9 DEF Orderly
<1>11. CASE ok /\ unit.of = "stop"
  <2>1. /\ ctl' = [f \in Flow |-> IF ctl[f].at = "none" THEN NoTask ELSE Ended]
        /\ wire' = [f \in Flow |-> [wire[f] EXCEPT !.served = FALSE]]
    BY <1>11 DEF set_unit
  <2>2. ASSUME NEW g \in Flow
        PROVE  /\ ctl'[g] \in TaskShape /\ wire'[g] \in WireShape
               /\ Match(ctl'[g], wire'[g], flow'[g], said')
               /\ Dated(wire'[g].down, service'.v) /\ Dated(ctl'[g].inbox, service'.v)
    <3>1. /\ ctl[g] \in TaskShape /\ wire[g] \in WireShape /\ flow[g] \in SubpageShape
          /\ Match(ctl[g], wire[g], flow[g], said)
          /\ Dated(wire[g].down, service.v) /\ Dated(ctl[g].inbox, service.v)
      BY DevParts
    <3>2. wire'[g] = [wire[g] EXCEPT !.served = FALSE]
      BY <2>1
    <3>3. /\ wire'[g] \in WireShape
      BY <3>1, <3>2 DEF WireShape
    <3>4. /\ wire'[g].thread = wire[g].thread /\ wire'[g].shut = wire[g].shut
          /\ wire'[g].up = wire[g].up /\ wire'[g].down = wire[g].down
      BY <3>1, <3>2 DEF WireShape
    <3>5. ctl'[g] = IF ctl[g].at = "none" THEN NoTask ELSE Ended
      BY <2>1
    <3>6. ctl'[g] \in TaskShape /\ ctl'[g].inbox = <<>>
      BY <3>5, BlanksAre DEF NoTask, Ended
    <3>7. Match(ctl'[g], wire'[g], flow[g], said)
      <4>1. CASE ctl[g].at = "none"
        <5>1. ctl'[g].at = "none"
          BY <3>5, <4>1 DEF NoTask
        <5>2. wire[g].up = <<>> /\ Silent(wire[g], flow[g])
          BY <3>1, <4>1 DEF Match
        <5>3. wire'[g].up = <<>> /\ Silent(wire'[g], flow[g])
          BY <3>4, <5>2 DEF Silent
        <5>4. Base(ctl'[g], wire'[g], flow[g])
          BY <3>1, <3>4, <5>1 DEF Match, Base
        <5> QED
          BY <5>1, <5>3, <5>4 DEF Match
      <4>2. CASE ctl[g].at # "none"
        <5>1. ctl'[g].at = "ended"
          BY <3>5, <4>2 DEF Ended, NoTask
        <5> QED
          BY <3>1, <3>4, <4>2, <5>1, EndMatch
      <4> QED
        BY <4>1, <4>2
    <3>8. Dated(wire'[g].down, service'.v) /\ Dated(ctl'[g].inbox, service'.v)
      BY <1>7, <3>1, <3>4, <3>6 DEF Dated
    <3> QED
      BY <1>1, <3>3, <3>6, <3>7, <3>8
  <2>3. ctl' \in [Flow -> TaskShape]
    <3>1. DOMAIN ctl' = Flow /\ ctl' = [f \in Flow |-> ctl'[f]]
      BY <2>1
    <3> QED
      BY <2>2, <3>1
  <2>4. wire' \in [Flow -> WireShape]
    <3>1. DOMAIN wire' = Flow /\ wire' = [f \in Flow |-> wire'[f]]
      BY <2>1
    <3> QED
      BY <2>2, <3>1
  <2>5. DevShape'
    BY <1>1, <1>2, <1>3, <1>4, <1>6, <2>3, <2>4 DEF DevShape
  <2>6. (\A g \in Flow : /\ Match(ctl[g], wire[g], flow[g], said)
                         /\ Dated(wire[g].down, service.v) /\ Dated(ctl[g].inbox, service.v))'
    BY <2>2
  <2>7. (Windowed(service, flow) /\ Consent(service, joined, said))'
    BY <1>8
  <2>8. (page.told <= service.v /\ worker.v <= service.v)'
    BY <1>9
  <2>9. (OneProbe(page, probes) /\ Timely(page, probes) /\ Fresh(page) /\ Closes(page, flow))'
    BY <1>10 DEF Orderly
  <2> QED
    BY <2>5, <2>6, <2>7, <2>8, <2>9 DEF DevInv
<1>12. CASE ~(ok /\ unit.of = "stop")
  <2>1. ctl' = ctl /\ wire' = wire
    BY <1>12 DEF set_unit
  <2> QED
    BY <1>1, <1>10, <2>1, AsideStep
<1> QED
  BY <1>11, <1>12

-----------------------------------------------------------------------------
(* A step of a subpage: its screen, its connection, what the page shows.   *)
SubpageMoves(f, t, w, fl) ==
  /\ ctl' = [ctl EXCEPT ![f] = t] /\ wire' = [wire EXCEPT ![f] = w] /\ flow' = [flow EXCEPT ![f] = fl]
  /\ service' = service /\ worker' = worker /\ joined' = joined
  /\ said' \in SUBSET Nat /\ said \subseteq said'
  /\ Match(t, w, fl, said') /\ Dated(w.down, service.v) /\ Dated(t.inbox, service.v)
  /\ fl.kind = flow[f].kind \/ flow[f].kind = "none"

PageKept ==
  /\ page' \in PageShape /\ page'.told <= service.v /\ probes' \in SUBSET ProbeShape
  /\ OneProbe(page', probes') /\ Timely(page', probes') /\ Fresh(page')

LEMMA SubpageStep ==
  ASSUME DevInv, NEW f \in Flow, NEW t \in TaskShape, NEW w \in WireShape, NEW fl \in SubpageShape,
         SubpageMoves(f, t, w, fl), PageKept, Closes(page', flow')
  PROVE  DevInv'
<1>1. /\ service' \in ServiceShape /\ service'.v >= service.v /\ joined' \in JoinedShape
      /\ service'.v = service.v
  BY ServiceStays DEF SubpageMoves
<1>2. /\ worker' \in WorkerShape /\ worker'.v <= service'.v /\ page'.told <= service'.v
  BY <1>1, PageParts DEF SubpageMoves, PageKept
<1>3. flow \in [Flow -> SubpageShape] /\ Windowed(service, flow) /\ Consent(service, joined, said)
  BY DEF DevInv, DevShape
<1>4. Windowed(service', flow')
  <2>1. SUFFICES ASSUME service.window # None
                 PROVE  flow'[service.window].kind \in {"pair", "invite"}
    BY DEF Windowed, SubpageMoves
  <2>2. service.window \in Flow /\ flow[service.window].kind \in {"pair", "invite"}
    BY <1>1, <1>3, <2>1 DEF Windowed, ServiceShape, SubpageMoves
  <2>3. flow'[service.window] = IF service.window = f THEN fl ELSE flow[service.window]
    BY <1>3, <2>2 DEF SubpageMoves
  <2> QED
    BY <2>2, <2>3 DEF SubpageMoves
<1>5. Consent(service', joined', said')
  BY <1>3 DEF Consent, Agreed, SubpageMoves
<1>6. OneStep(f, t, w, fl)
  BY <1>1 DEF OneStep, SubpageMoves
<1>7. Orderly
  BY <1>1, <1>2, <1>4, <1>5 DEF Orderly, PageKept, SubpageMoves
<1> QED
  BY <1>6, <1>7, OneStepKeeps

LEMMA PageStays ==
  ASSUME DevInv, page' = page, probes' = probes
  PROVE  PageKept
BY PageParts DEF PageKept

LEMMA ClosesKept ==
  ASSUME DevInv, NEW f \in Flow, NEW fl, flow' = [flow EXCEPT ![f] = fl], Placed(page', page),
         fl.leaving = flow[f].leaving,
         fl.over \/ (fl.over = flow[f].over /\ (fl.started = flow[f].started \/ page.top = f))
  PROVE  Closes(page', flow')
<1>1. Closes(page, flow) /\ flow \in [Flow -> SubpageShape]
  BY DEF DevInv, DevShape
<1>2. \A g \in Flow : flow'[g] = IF g = f THEN fl ELSE flow[g]
  BY <1>1
<1> QED
  BY <1>1, <1>2 DEF Closes, Placed

(* The last screen, and the report that is asked for behind it.            *)
LEMMA FinishIs ==
  ASSUME DevInv, NEW n \in Nat, n <= service.v,
         page' = [refresh_page(Forget(page)) EXCEPT !.told = IF n > @ THEN n ELSE @],
         probes' = Refreshed(probes)
  PROVE  PageKept /\ Placed(page', page)
<1>1. /\ page \in PageShape /\ page.told <= service.v /\ page.told \in Nat /\ service.v \in Nat
  BY PageParts
<1>2. PICK m \in Nat : m <= service.v /\ page' = [refresh_page(Forget(page)) EXCEPT !.told = m]
  <2>s. PICK s : s = refresh_page(Forget(page))
    OBVIOUS
  <2>1. s.told = page.told
    <3>r. PICK r \in Report : r = Stopped
      BY StoppedIs
    <3>1. Forget(page) = [page EXCEPT !.shown = r, !.by = "refresh"]
      BY <3>r DEF Forget
    <3>2. Forget(page) \in PageShape
      BY <1>1, <3>1 DEF PageShape
    <3>3. Forget(page).told = page.told
      BY <1>1, <3>1 DEF PageShape
    <3> QED
      BY <2>s, <3>2, <3>3, RefreshPageIs
  <2>2. page' = [s EXCEPT !.told = IF n > s.told THEN n ELSE s.told]
    BY <2>s
  <2> QED
    BY <1>1, <2>1, <2>2, <2>s
<1>3. /\ page' \in PageShape /\ page'.probing /\ (page.probing => page'.again) /\ page'.told = m
      /\ Fresh(page') /\ Placed(page', page)
  BY <1>2, ForgetIs
<1>4. probes' \in SUBSET ProbeShape /\ OneProbe(page', probes') /\ Timely(page', probes')
  BY <1>3, RefreshedIs
<1> QED
  BY <1>2, <1>3, <1>4 DEF PageKept

(* A subpage opens and its request goes out.                               *)
LEMMA SetThread ==
  ASSUME NEW w \in WireShape, NEW th \in {"connecting", "connected", "reading"},
         NEW x, x = [w EXCEPT !.thread = th]
  PROVE  /\ x \in WireShape /\ x.thread = th /\ x.shut = w.shut /\ x.up = w.up /\ x.down = w.down
<1>1. x \in WireShape
  BY DEF WireShape
<1>2. x.thread = th /\ x.up = w.up /\ x.down = w.down
  BY DEF WireShape
<1>3. x.shut = w.shut
  BY DEF WireShape
<1> QED
  BY <1>1, <1>2, <1>3

LEMMA StartIs ==
  ASSUME DevInv, NEW f \in Flow, Start(f)
  PROVE  \E x \in WireShape : /\ wire' = [wire EXCEPT ![f] = x]
                              /\ x.thread = "connecting" /\ x.shut = wire[f].shut
                              /\ x.up = wire[f].up /\ x.down = wire[f].down
<1>1. wire[f] \in WireShape
  BY DevParts
<1>x. PICK x : x = [wire[f] EXCEPT !.thread = "connecting"]
  OBVIOUS
<1>2. wire' = [wire EXCEPT ![f] = x]
  BY <1>x DEF Start
<1>3. x \in WireShape /\ x.thread = "connecting" /\ x.shut = wire[f].shut /\ x.up = wire[f].up /\ x.down = wire[f].down
  BY <1>1, <1>x, SetThread
<1> QED
  BY <1>2, <1>3

LEMMA OpenKeepsDevInv ==
  ASSUME DevInv, NEW f \in Flow, NEW kind \in Kind, Open(f, kind)
  PROVE  DevInv'
<1>s. PICK starts \in BOOLEAN : starts = (kind \in {"pair", "invite"})
  <2>1. CASE kind \in {"pair", "invite"}
    BY <2>1, Zenon
  <2>2. CASE kind \notin {"pair", "invite"}
    <3>1. FALSE = (kind \in {"pair", "invite"})
      BY <2>2
    <3> QED
      BY <3>1
  <2> QED
    BY <2>1, <2>2
<1>c. PICK sc \in {"busy", "form"} : sc = IF starts THEN "busy" ELSE "form"
  OBVIOUS
<1>l. PICK fl : fl = [Blank EXCEPT !.kind = kind, !.started = starts, !.screen = sc]
  OBVIOUS
<1>1. /\ service' = service /\ probes' = probes /\ worker' = worker /\ ctl' = ctl /\ said' = said
      /\ joined' = joined /\ flow[f] = Blank /\ page.open /\ page.top = None
      /\ page' = [page EXCEPT !.top = f, !.slot = f]
  BY DEF Open
<1>2. flow' = [flow EXCEPT ![f] = fl]
  BY <1>s, <1>c, <1>l DEF Open
<1>3. IF starts THEN Start(f) ELSE wire' = wire
  BY <1>s DEF Open
<1>4. /\ ctl[f] \in TaskShape /\ wire[f] \in WireShape
      /\ wire \in [Flow -> WireShape] /\ ctl \in [Flow -> TaskShape]
      /\ Match(ctl[f], wire[f], flow[f], said)
      /\ Dated(wire[f].down, service.v) /\ Dated(ctl[f].inbox, service.v)
  BY DevParts
<1>5. fl \in SubpageShape
  BY <1>l, BlanksAre DEF SubpageShape
<1>6. fl.screen = sc /\ fl.kind = kind
  BY <1>l, BlanksAre DEF SubpageShape
<1>7. fl.started = starts /\ fl.over = FALSE /\ fl.leaving = FALSE
  BY <1>l DEF Blank
<1>8. flow[f].screen = "none" /\ flow[f].over = FALSE /\ flow[f].kind = "none"
  BY <1>1 DEF Blank
<1>9. wire[f].thread = "none" /\ ctl[f].at = "none" /\ ~wire[f].shut
  BY <1>4, <1>8 DEF Match, Base
<1>10. PICK x \in WireShape : /\ wire' = [wire EXCEPT ![f] = x]
                              /\ x.thread = (IF starts THEN "connecting" ELSE "none")
                              /\ x.shut = wire[f].shut /\ x.up = wire[f].up /\ x.down = wire[f].down
  <2>1. CASE starts
    BY <1>3, <2>1, StartIs
  <2>2. CASE ~starts
    <3>1. wire' = [wire EXCEPT ![f] = wire[f]]
      BY <1>3, <1>4, <2>2
    <3> QED
      BY <1>4, <1>9, <2>2, <3>1
  <2> QED
    BY <2>1, <2>2
<1>11. Base(ctl[f], x, fl)
  BY <1>6, <1>7, <1>9, <1>10, <1>c DEF Base
<1>12. Match(ctl[f], x, fl, said)
  BY <1>4, <1>6, <1>7, <1>8, <1>9, <1>10, <1>11, FreshMatch
<1>13. ctl' = [ctl EXCEPT ![f] = ctl[f]] /\ said \in SUBSET Nat
  BY <1>1, <1>4 DEF DevInv, DevShape
<1>14. SubpageMoves(f, ctl[f], x, fl)
  BY <1>1, <1>2, <1>4, <1>8, <1>10, <1>12, <1>13 DEF SubpageMoves
<1>15. /\ page \in PageShape /\ page.told <= service.v /\ probes \in SUBSET ProbeShape
       /\ OneProbe(page, probes) /\ Timely(page, probes) /\ Fresh(page) /\ Closes(page, flow)
  BY PageParts
<1>16. page' \in PageShape
  BY <1>1, <1>15 DEF PageShape
<1>17. page'.probing = page.probing /\ page'.again = page.again /\ page'.open = page.open
  BY <1>1, <1>15 DEF PageShape
<1>18. /\ page'.told = page.told /\ page'.shown = page.shown /\ page'.by = page.by
       /\ page'.top = f /\ page'.slot = f
  BY <1>1, <1>15 DEF PageShape
<1>19. PageKept
  BY <1>1, <1>15, <1>16, <1>17, <1>18 DEF PageKept, OneProbe, Timely, Fresh
<1>20. Closes(page', flow')
  <2>1. \A g \in Flow : flow'[g] = IF g = f THEN fl ELSE flow[g]
    BY <1>2 DEF DevInv, DevShape
  <2>2. \A g \in Flow : g # None
    BY NoneIsNoFlow
  <2>3. \A g \in Flow : flow[g].started /\ ~flow[g].over => flow[g].leaving
    BY <1>1, <1>15, <2>2 DEF Closes
  <2>4. \A g \in Flow : flow'[g].leaving => page'.top # g
    BY <1>1, <1>7, <1>8, <1>18, <2>1 DEF Blank
  <2>5. \A g \in Flow : flow'[g].started /\ ~flow'[g].over /\ ~flow'[g].leaving => page'.top = g
    BY <1>18, <2>1, <2>3
  <2> QED
    BY <1>1, <1>17, <1>18, <2>4, <2>5 DEF Closes
<1> QED
  BY <1>4, <1>5, <1>14, <1>19, <1>20, SubpageStep

LEMMA GoKeepsDevInv ==
  ASSUME DevInv, NEW f \in Flow, Go(f)
  PROVE  DevInv'
<1>l. PICK fl : fl = [flow[f] EXCEPT !.started = TRUE, !.screen = "busy"]
  OBVIOUS
<1>1. /\ service' = service /\ probes' = probes /\ worker' = worker /\ ctl' = ctl /\ said' = said
      /\ joined' = joined /\ page' = page /\ page.top = f /\ flow[f].screen = "form"
      /\ flow' = [flow EXCEPT ![f] = fl] /\ Start(f)
  BY <1>l DEF Go, guiVars
<1>4. /\ ctl[f] \in TaskShape /\ wire[f] \in WireShape /\ flow[f] \in SubpageShape
      /\ wire \in [Flow -> WireShape] /\ ctl \in [Flow -> TaskShape]
      /\ Match(ctl[f], wire[f], flow[f], said)
      /\ Dated(wire[f].down, service.v) /\ Dated(ctl[f].inbox, service.v)
  BY DevParts
<1>5. fl \in SubpageShape
  BY <1>4, <1>l DEF SubpageShape
<1>6. fl.screen = "busy" /\ fl.kind = flow[f].kind
  BY <1>4, <1>l DEF SubpageShape
<1>7. fl.started = TRUE /\ fl.over = flow[f].over /\ fl.leaving = flow[f].leaving
  BY <1>4, <1>l DEF SubpageShape
<1>9. wire[f].thread = "none" /\ ctl[f].at = "none" /\ (wire[f].shut => flow[f].over)
  BY <1>1, <1>4 DEF Match, Base
<1>10. PICK x \in WireShape : /\ wire' = [wire EXCEPT ![f] = x] /\ x.thread = "connecting"
                              /\ x.shut = wire[f].shut /\ x.up = wire[f].up /\ x.down = wire[f].down
  BY <1>1, StartIs
<1>11. Base(ctl[f], x, fl)
  BY <1>6, <1>7, <1>9, <1>10 DEF Base
<1>12. Match(ctl[f], x, fl, said)
  BY <1>4, <1>6, <1>7, <1>9, <1>10, <1>11, FreshMatch
<1>13. ctl' = [ctl EXCEPT ![f] = ctl[f]] /\ said \in SUBSET Nat
  BY <1>1, <1>4 DEF DevInv, DevShape
<1>14. SubpageMoves(f, ctl[f], x, fl)
  BY <1>1, <1>4, <1>6, <1>10, <1>12, <1>13 DEF SubpageMoves
<1>15. PageKept /\ Placed(page', page)
  BY <1>1, PageStays DEF Placed
<1>16. Closes(page', flow')
  BY <1>1, <1>7, <1>15, ClosesKept
<1> QED
  BY <1>4, <1>5, <1>14, <1>15, <1>16, SubpageStep

LEMMA ConnectKeepsDevInv ==
  ASSUME DevInv, NEW f \in Flow, Connect(f)
  PROVE  DevInv'
<1>1. /\ service' = service /\ probes' = probes /\ worker' = worker /\ said' = said /\ flow' = flow
      /\ joined' = joined /\ page' = page /\ wire[f].thread = "connecting"
  BY DEF Connect, guiVars
<1>4. /\ ctl[f] \in TaskShape /\ wire[f] \in WireShape /\ flow[f] \in SubpageShape
      /\ wire \in [Flow -> WireShape] /\ ctl \in [Flow -> TaskShape]
      /\ Match(ctl[f], wire[f], flow[f], said)
      /\ Dated(wire[f].down, service.v) /\ Dated(ctl[f].inbox, service.v)
  BY DevParts
<1>9. /\ ctl[f].at = "none" /\ (wire[f].shut => flow[f].over) /\ flow[f].screen \notin {"none", "form"}
      /\ flow[f].started
  BY <1>1, <1>4 DEF Match, Base
<1>10. \E x \in WireShape, t \in TaskShape :
         /\ wire' = [wire EXCEPT ![f] = x] /\ ctl' = [ctl EXCEPT ![f] = t]
         /\ x.thread \in {"connected", "reading"} /\ t.at \in {"none", "request"}
         /\ x.shut = wire[f].shut /\ x.up = wire[f].up /\ x.down = wire[f].down
         /\ Dated(t.inbox, service.v)
  <2>1. CASE service.at = "up"
    <3>y. PICK y : y = [wire[f] EXCEPT !.thread = "connected"]
      OBVIOUS
    <3>x. PICK x : x = [y EXCEPT !.served = TRUE]
      OBVIOUS
    <3>t. PICK t : t = [NoTask EXCEPT !.at = "request"]
      OBVIOUS
    <3>1. /\ y \in WireShape /\ y.thread = "connected" /\ y.shut = wire[f].shut /\ y.up = wire[f].up
          /\ y.down = wire[f].down
      BY <1>4, <3>y, SetThread
    <3>2. x \in WireShape
      BY <3>1, <3>x DEF WireShape
    <3>3. x.thread = y.thread /\ x.up = y.up /\ x.down = y.down
      BY <3>1, <3>x DEF WireShape
    <3>4. x.shut = y.shut
      BY <3>1, <3>x DEF WireShape
    <3>5. wire' = [wire EXCEPT ![f] = x]
      <4>1. x = [wire[f] EXCEPT !.thread = "connected", !.served = TRUE]
        BY <1>4, <3>x, <3>y DEF WireShape
      <4> QED
        BY <2>1, <4>1 DEF Connect
    <3>6. t \in TaskShape /\ t.at = "request"
      BY <3>t, BlanksAre DEF TaskShape
    <3>7. t.inbox = <<>>
      BY <3>t DEF NoTask
    <3>8. ctl' = [ctl EXCEPT ![f] = t] /\ Dated(t.inbox, service.v)
      BY <2>1, <3>t, <3>7 DEF Connect, Dated
    <3> QED
      BY <3>1, <3>2, <3>3, <3>4, <3>5, <3>6, <3>8
  <2>2. CASE service.at # "up"
    <3>x. PICK x : x = [wire[f] EXCEPT !.thread = "reading"]
      OBVIOUS
    <3>1. /\ x \in WireShape /\ x.thread = "reading" /\ x.shut = wire[f].shut /\ x.up = wire[f].up
          /\ x.down = wire[f].down
      BY <1>4, <3>x, SetThread
    <3>2. wire' = [wire EXCEPT ![f] = x]
      BY <2>2, <3>x DEF Connect
    <3>3. ctl' = [ctl EXCEPT ![f] = ctl[f]]
      BY <1>4, <2>2 DEF Connect
    <3> QED
      BY <1>4, <1>9, <3>1, <3>2, <3>3
  <2> QED
    BY <2>1, <2>2
<1>11. PICK x \in WireShape, t \in TaskShape :
         /\ wire' = [wire EXCEPT ![f] = x] /\ ctl' = [ctl EXCEPT ![f] = t]
         /\ x.thread \in {"connected", "reading"} /\ t.at \in {"none", "request"}
         /\ x.shut = wire[f].shut /\ x.up = wire[f].up /\ x.down = wire[f].down
         /\ Dated(t.inbox, service.v)
  BY <1>10
<1>12. Base(t, x, flow[f])
  BY <1>9, <1>11 DEF Base
<1>13. Match(t, x, flow[f], said)
  BY <1>1, <1>4, <1>11, <1>12, FreshMatch
<1>14. /\ GuiStays /\ service' \in ServiceShape /\ service'.v >= service.v /\ joined' \in JoinedShape
       /\ service'.v = service.v /\ Windowed(service', flow) /\ Consent(service', joined', said)
  BY <1>1, ServiceStays DEF GuiStays
<1>15. Dated(x.down, service'.v) /\ Dated(t.inbox, service'.v)
  BY <1>4, <1>11, <1>14
<1> QED
  BY <1>11, <1>13, <1>14, <1>15, TaskStep

(* The thread hands the connection over; the subpage may be over by then.  *)
LEMMA ConnectedKeepsDevInv ==
  ASSUME DevInv, NEW f \in Flow, Connected(f)
  PROVE  DevInv'
<1>4. /\ ctl[f] \in TaskShape /\ wire[f] \in WireShape /\ flow[f] \in SubpageShape
      /\ wire \in [Flow -> WireShape] /\ ctl \in [Flow -> TaskShape]
      /\ Match(ctl[f], wire[f], flow[f], said)
      /\ Dated(wire[f].down, service.v) /\ Dated(ctl[f].inbox, service.v)
  BY DevParts
<1>o. flow[f].over \in BOOLEAN
  BY <1>4 DEF SubpageShape
<1>h. PICK h \in BOOLEAN : h = ~flow[f].over
  BY <1>o
<1>l. PICK fl : fl = [flow[f] EXCEPT !.handle = h]
  OBVIOUS
<1>y. PICK y : y = [wire[f] EXCEPT !.thread = "reading"]
  OBVIOUS
<1>x. PICK x : x = [y EXCEPT !.shut = flow[f].over]
  OBVIOUS
<1>1. /\ service' = service /\ probes' = probes /\ worker' = worker /\ ctl' = ctl /\ said' = said
      /\ joined' = joined /\ page' = page /\ wire[f].thread = "connected"
  BY DEF Connected, guiVars
<1>2. flow' = [flow EXCEPT ![f] = fl]
  BY <1>h, <1>l DEF Connected
<1>3. wire' = [wire EXCEPT ![f] = x]
  <2>1. x = [wire[f] EXCEPT !.thread = "reading", !.shut = flow[f].over]
    BY <1>4, <1>x, <1>y DEF WireShape
  <2> QED
    BY <2>1 DEF Connected
<1>5. fl \in SubpageShape
  BY <1>4, <1>l DEF SubpageShape
<1>6. fl.screen = flow[f].screen /\ fl.kind = flow[f].kind /\ fl.about = flow[f].about
  BY <1>4, <1>l DEF SubpageShape
<1>7. fl.started = flow[f].started /\ fl.over = flow[f].over /\ fl.leaving = flow[f].leaving
  BY <1>4, <1>l DEF SubpageShape
<1>8. y \in WireShape /\ y.thread = "reading" /\ y.up = wire[f].up /\ y.down = wire[f].down
  BY <1>4, <1>y, SetThread
<1>9. x \in WireShape
  BY <1>8, <1>o, <1>x DEF WireShape
<1>10. x.thread = "reading" /\ x.up = wire[f].up /\ x.down = wire[f].down
  BY <1>8, <1>x DEF WireShape
<1>11. x.shut = flow[f].over
  BY <1>8, <1>x DEF WireShape
<1>12. Base(ctl[f], x, fl)
  BY <1>1, <1>4, <1>6, <1>7, <1>10, <1>11 DEF Match, Base
<1>13. Match(ctl[f], x, fl, said)
  BY <1>4, <1>6, <1>7, <1>10, <1>12, KeepMatch
<1>14. ctl' = [ctl EXCEPT ![f] = ctl[f]] /\ said \in SUBSET Nat
  BY <1>1, <1>4 DEF DevInv, DevShape
<1>15. SubpageMoves(f, ctl[f], x, fl)
  BY <1>1, <1>2, <1>3, <1>4, <1>6, <1>10, <1>13, <1>14 DEF SubpageMoves
<1>16. PageKept /\ Placed(page', page)
  BY <1>1, PageStays DEF Placed
<1>17. Closes(page', flow')
  BY <1>2, <1>7, <1>16, ClosesKept
<1> QED
  BY <1>4, <1>5, <1>9, <1>15, <1>16, <1>17, SubpageStep

(* The subpage comes to its end.                                           *)
LEMMA EndScreen ==
  ASSUME NEW fl \in SubpageShape, NEW gl,
         gl = [fl EXCEPT !.over = TRUE, !.handle = FALSE, !.screen = "end"]
  PROVE  /\ gl \in SubpageShape /\ gl.kind = fl.kind /\ gl.screen = "end"
         /\ gl.over = TRUE /\ gl.leaving = fl.leaving /\ gl.started = fl.started
<1>1. gl \in SubpageShape
  BY DEF SubpageShape
<1>2. gl.kind = fl.kind /\ gl.screen = "end"
  BY DEF SubpageShape
<1>3. gl.over = TRUE /\ gl.leaving = fl.leaving /\ gl.started = fl.started
  BY DEF SubpageShape
<1> QED
  BY <1>1, <1>2, <1>3

(* What the thread reads and the main loop takes.                          *)
LEMMA TakenIs ==
  ASSUME NEW w \in WireShape, NEW last \in BOOLEAN, last \/ w.down # <<>>
  PROVE  LET x == Taken(w, last)
         IN  /\ x \in WireShape /\ x.up = w.up
             /\ x.thread = (IF last THEN "done" ELSE w.thread)
             /\ x.down = (IF last THEN <<>> ELSE Tail(w.down))
             /\ x.shut = (w.shut \/ last)
<1>1. w.down \in Seq(Tidings) /\ w.shut \in BOOLEAN
  BY DEF WireShape
<1>d. PICK es \in Seq(Tidings) : es = IF last THEN <<>> ELSE Tail(w.down)
  <2>1. <<>> \in Seq(Tidings)
    BY EmptySeq
  <2>2. w.down # <<>> => Tail(w.down) \in Seq(Tidings)
    BY <1>1
  <2> QED
    BY <2>1, <2>2
<1>t. PICK th \in {"none", "connecting", "connected", "reading", "done"} :
        th = IF last THEN "done" ELSE w.thread
  BY DEF WireShape
<1>b. PICK b \in BOOLEAN : b = (w.shut \/ last)
  BY <1>1
<1>x. PICK x : x = Taken(w, last)
  OBVIOUS
<1>2. x = [w EXCEPT !.down = es, !.thread = th, !.shut = b]
  BY <1>d, <1>t, <1>b, <1>x DEF Taken
<1>3. x \in WireShape
  BY <1>2 DEF WireShape
<1>4. x.up = w.up /\ x.thread = th /\ x.down = es
  BY <1>2 DEF WireShape
<1>5. x.shut = b
  BY <1>2 DEF WireShape
<1> QED
  BY <1>3, <1>4, <1>5, <1>d, <1>t, <1>b, <1>x

LEMMA ScreenIs ==
  ASSUME DevInv, NEW f \in Flow, NEW e \in Tidings, e.is \notin {"done", "error"},
         flow[f].screen \notin {"none", "form"}
  PROVE  /\ Screen(f, e) \in {"busy", "listening", "link", "ask", "end"}
         /\ e.is # "ask" /\ flow[f].screen # "ask" => Screen(f, e) # "ask"
<1>1. flow[f].screen \in {"busy", "listening", "link", "ask", "end"}
  BY DevParts DEF SubpageShape
<1>2. e.is \in {"listening", "link", "joining", "ask", "failed"}
  BY DEF Tidings
<1> QED
  BY <1>1, <1>2 DEF Screen

LEMMA TakeMsgKeepsDevInv ==
  ASSUME DevInv, NEW f \in Flow, TakeMsg(f)
  PROVE  DevInv'
<1>4. /\ ctl[f] \in TaskShape /\ wire[f] \in WireShape /\ flow[f] \in SubpageShape
      /\ wire \in [Flow -> WireShape] /\ ctl \in [Flow -> TaskShape]
      /\ Match(ctl[f], wire[f], flow[f], said) /\ service.v \in Nat
      /\ Dated(wire[f].down, service.v) /\ Dated(ctl[f].inbox, service.v)
  BY DevParts
<1>e. PICK e : e = IF wire[f].down = <<>> THEN Error ELSE Head(wire[f].down)
  OBVIOUS
<1>o. flow[f].over \in BOOLEAN /\ wire[f].down \in Seq(Tidings) /\ wire[f].shut \in BOOLEAN
  BY <1>4 DEF SubpageShape, WireShape
<1>2. e \in Tidings /\ e.v <= service.v
  <2>1. CASE wire[f].down = <<>>
    BY <1>4, <1>e, <2>1, ErrorIs
  <2>2. CASE wire[f].down # <<>>
    BY <1>4, <1>o, <1>e, <2>2, AskTaken, DatedTail
  <2> QED
    BY <2>1, <2>2
<1>l. PICK last \in BOOLEAN : last = (flow[f].over \/ e.is \in {"done", "error"})
  <2>1. CASE flow[f].over \/ e.is \in {"done", "error"}
    <3>1. TRUE = (flow[f].over \/ e.is \in {"done", "error"})
      BY <2>1
    <3> QED
      BY <3>1
  <2>2. CASE ~(flow[f].over \/ e.is \in {"done", "error"})
    <3>1. FALSE = (flow[f].over \/ e.is \in {"done", "error"})
      BY <2>2
    <3> QED
      BY <3>1
  <2> QED
    BY <2>1, <2>2
<1>x. PICK x : x = Taken(wire[f], last)
  OBVIOUS
<1>1. /\ service' = service /\ worker' = worker /\ ctl' = ctl /\ said' = said
      /\ joined' = joined /\ wire[f].thread = "reading"
  BY DEF TakeMsg
<1>3. wire' = [wire EXCEPT ![f] = x]
  BY <1>e, <1>l, <1>x DEF TakeMsg
<1>5. last \/ wire[f].down # <<>>
  BY <1>e, <1>l, ErrorIs
<1>6. /\ x \in WireShape /\ x.up = wire[f].up
      /\ x.thread = (IF last THEN "done" ELSE wire[f].thread)
      /\ x.down = (IF last THEN <<>> ELSE Tail(wire[f].down))
      /\ x.shut = (wire[f].shut \/ last)
  BY <1>4, <1>5, <1>x, TakenIs
<1>7. Dated(x.down, service.v)
  <2>1. CASE last
    BY <1>6, <2>1 DEF Dated
  <2>2. CASE ~last
    BY <1>4, <1>5, <1>6, <1>o, <2>2, DatedTail
  <2> QED
    BY <2>1, <2>2
<1>8. ctl' = [ctl EXCEPT ![f] = ctl[f]] /\ said \in SUBSET Nat /\ flow \in [Flow -> SubpageShape]
  BY <1>1, <1>4 DEF DevInv, DevShape
<1>9. flow[f].screen \notin {"none", "form"} /\ flow[f].started
  BY <1>1, <1>4 DEF Match, Base
<1>10. CASE flow[f].over
  <2>1. flow' = flow /\ page' = page /\ probes' = probes
    BY <1>10 DEF TakeMsg
  <2>2. flow' = [flow EXCEPT ![f] = flow[f]]
    BY <1>8, <2>1
  <2>3. last
    BY <1>10, <1>l
  <2>4. Base(ctl[f], x, flow[f])
    BY <1>6, <1>9, <1>10, <2>3 DEF Base
  <2>5. Match(ctl[f], x, flow[f], said)
    BY <1>4, <1>6, <1>10, <2>4, OverMatch
  <2>6. SubpageMoves(f, ctl[f], x, flow[f])
    BY <1>1, <1>3, <1>4, <1>7, <1>8, <2>2, <2>5 DEF SubpageMoves
  <2>7. PageKept /\ Placed(page', page)
    BY <2>1, PageStays DEF Placed
  <2>8. Closes(page', flow')
    BY <2>2, <2>7, ClosesKept
  <2> QED
    BY <1>4, <1>6, <2>6, <2>7, <2>8, SubpageStep
<1>11. CASE ~flow[f].over /\ last
  <2>0. e.is \in {"done", "error"}
    BY <1>11, <1>l
  <2>1. Finish(f, e.v)
    BY <1>11, <2>0, <1>e DEF TakeMsg
  <2>g. PICK gl : gl = [flow[f] EXCEPT !.over = TRUE, !.handle = FALSE, !.screen = "end"]
    OBVIOUS
  <2>2. flow' = [flow EXCEPT ![f] = gl]
    BY <2>1, <2>g DEF Finish
  <2>3. /\ gl \in SubpageShape /\ gl.kind = flow[f].kind /\ gl.screen = "end"
        /\ gl.over = TRUE /\ gl.leaving = flow[f].leaving /\ gl.started = flow[f].started
    BY <1>4, <2>g, EndScreen
  <2>4. Base(ctl[f], x, gl)
    BY <1>6, <1>9, <1>11, <2>3 DEF Base
  <2>5. Match(ctl[f], x, gl, said)
    BY <1>4, <1>6, <2>3, <2>4, OverMatch
  <2>6. SubpageMoves(f, ctl[f], x, gl)
    BY <1>1, <1>3, <1>4, <1>7, <1>8, <2>2, <2>3, <2>5 DEF SubpageMoves
  <2>7. PageKept /\ Placed(page', page)
    <3>n. PICK n \in Nat : n = e.v
      BY <1>2 DEF Tidings
    <3>1. /\ page' = [refresh_page(Forget(page)) EXCEPT !.told = IF n > @ THEN n ELSE @]
          /\ probes' = Refreshed(probes)
      BY <2>1, <3>n DEF Finish
    <3>2. n <= service.v
      BY <1>2, <3>n
    <3> QED
      BY <3>1, <3>2, FinishIs
  <2>8. Closes(page', flow')
    BY <2>2, <2>3, <2>7, ClosesKept
  <2> QED
    BY <1>4, <1>6, <2>3, <2>6, <2>7, <2>8, SubpageStep
<1>12. CASE ~last
  <2>0. ~flow[f].over /\ e.is \notin {"done", "error"} /\ wire[f].down # <<>> /\ e = Head(wire[f].down)
    BY <1>12, <1>l, <1>5, <1>e
  <2>s. PICK sc \in {"busy", "listening", "link", "ask", "end"} : sc = Screen(f, e)
    BY <1>2, <1>9, <2>0, ScreenIs
  <2>a. PICK n \in Nat : n = e.of
    BY <1>2 DEF Tidings
  <2>g. PICK gl : gl = [flow[f] EXCEPT !.screen = sc, !.about = n]
    OBVIOUS
  <2>1. flow' = [flow EXCEPT ![f] = [flow[f] EXCEPT !.screen = Screen(f, e), !.about = e.of]]
    BY <1>e, <2>0 DEF TakeMsg
  <2>2. page' = page /\ probes' = probes
    BY <1>e, <2>0 DEF TakeMsg
  <2>3. flow' = [flow EXCEPT ![f] = gl]
    BY <2>1, <2>s, <2>a, <2>g
  <2>4. gl \in SubpageShape
    BY <1>4, <2>g DEF SubpageShape
  <2>5. gl.kind = flow[f].kind /\ gl.screen = sc /\ gl.about = n
    BY <1>4, <2>g DEF SubpageShape
  <2>6. gl.over = flow[f].over /\ gl.leaving = flow[f].leaving /\ gl.started = flow[f].started
    BY <1>4, <2>g DEF SubpageShape
  <2>7. e.is # "ask" /\ flow[f].screen # "ask" => sc # "ask"
    BY <1>2, <1>9, <2>0, <2>s, ScreenIs
  <2>8. x.down = Tail(wire[f].down) /\ x.thread = wire[f].thread /\ x.shut = wire[f].shut
    BY <1>6, <1>12, <1>o
  <2>9. Match(ctl[f], x, gl, said)
    BY <1>1, <1>4, <1>6, <2>0, <2>a, <2>5, <2>6, <2>7, <2>8, ShowMatch
  <2>10. SubpageMoves(f, ctl[f], x, gl)
    BY <1>1, <1>3, <1>4, <1>7, <1>8, <2>3, <2>5, <2>9 DEF SubpageMoves
  <2>11. PageKept /\ Placed(page', page)
    BY <2>2, PageStays DEF Placed
  <2>12. Closes(page', flow')
    BY <2>3, <2>6, <2>11, ClosesKept
  <2> QED
    BY <1>4, <1>6, <2>4, <2>10, <2>11, <2>12, SubpageStep
<1> QED
  BY <1>10, <1>11, <1>12

(* The user: an answer, the way back, the dialog.                          *)
LEMMA AnswerKeepsDevInv ==
  ASSUME DevInv, NEW f \in Flow, NEW accept \in BOOLEAN, answer(f, accept)
  PROVE  DevInv'
<1>4. /\ ctl[f] \in TaskShape /\ wire[f] \in WireShape /\ flow[f] \in SubpageShape
      /\ wire \in [Flow -> WireShape] /\ ctl \in [Flow -> TaskShape]
      /\ Match(ctl[f], wire[f], flow[f], said) /\ service.v \in Nat
      /\ Dated(wire[f].down, service.v) /\ Dated(ctl[f].inbox, service.v)
  BY DevParts
<1>1. /\ service' = service /\ worker' = worker /\ ctl' = ctl
      /\ joined' = joined /\ flow[f].screen = "ask" /\ ~flow[f].over
      /\ said' = IF accept THEN said \cup {flow[f].about} ELSE said
  BY DEF answer
<1>2. ctl' = [ctl EXCEPT ![f] = ctl[f]] /\ said \in SUBSET Nat /\ flow \in [Flow -> SubpageShape]
  BY <1>1, <1>4 DEF DevInv, DevShape
<1>3. said' \in SUBSET Nat /\ said \subseteq said'
  BY <1>1, <1>2, <1>4 DEF SubpageShape
<1>5. wire[f].up \in Seq(BOOLEAN) /\ wire[f].shut \in BOOLEAN /\ wire[f].served \in BOOLEAN
  BY <1>4 DEF WireShape
<1>6. CASE wire[f].served
  <2>u. PICK bs \in Seq(BOOLEAN) : bs = Append(wire[f].up, accept)
    BY <1>5, AppendProperties
  <2>x. PICK x : x = [wire[f] EXCEPT !.up = bs]
    OBVIOUS
  <2>g. PICK gl : gl = [flow[f] EXCEPT !.screen = "busy", !.about = 0]
    OBVIOUS
  <2>1. wire' = [wire EXCEPT ![f] = x]
    BY <1>6, <2>u, <2>x DEF answer
  <2>2. flow' = [flow EXCEPT ![f] = gl] /\ page' = page /\ probes' = probes
    BY <1>6, <2>g DEF answer, After_answer, None
  <2>3. x \in WireShape
    BY <1>4, <2>x DEF WireShape
  <2>4. x.up = bs /\ x.down = wire[f].down /\ x.thread = wire[f].thread
    BY <1>4, <2>x DEF WireShape
  <2>5. x.shut = wire[f].shut
    BY <1>4, <2>x DEF WireShape
  <2>6. gl \in SubpageShape
    BY <1>4, <2>g DEF SubpageShape
  <2>7. gl.kind = flow[f].kind /\ gl.screen = "busy"
    BY <1>4, <2>g DEF SubpageShape
  <2>8. gl.over = flow[f].over /\ gl.leaving = flow[f].leaving /\ gl.started = flow[f].started
    BY <1>4, <2>g DEF SubpageShape
  <2>9. Match(ctl[f], x, gl, said')
    BY <1>1, <1>4, <2>u, <2>4, <2>5, <2>7, <2>8, UserMatch
  <2>10. SubpageMoves(f, ctl[f], x, gl)
    BY <1>1, <1>2, <1>3, <1>4, <2>1, <2>2, <2>4, <2>7, <2>9 DEF SubpageMoves
  <2>11. PageKept /\ Placed(page', page)
    BY <2>2, PageStays DEF Placed
  <2>12. Closes(page', flow')
    BY <2>2, <2>8, <2>11, ClosesKept
  <2> QED
    BY <1>4, <2>3, <2>6, <2>10, <2>11, <2>12, SubpageStep
<1>7. CASE ~wire[f].served
  <2>g. PICK gl : gl = [flow[f] EXCEPT !.over = TRUE, !.handle = FALSE, !.screen = "end"]
    OBVIOUS
  <2>1. Finish(f, 0) /\ wire' = wire
    BY <1>7 DEF answer
  <2>2. flow' = [flow EXCEPT ![f] = gl] /\ wire' = [wire EXCEPT ![f] = wire[f]]
    BY <1>4, <2>1, <2>g DEF Finish
  <2>3. /\ gl \in SubpageShape /\ gl.kind = flow[f].kind /\ gl.screen = "end"
        /\ gl.over = TRUE /\ gl.leaving = flow[f].leaving /\ gl.started = flow[f].started
    BY <1>4, <2>g, EndScreen
  <2>4. Base(ctl[f], wire[f], gl)
    BY <1>4, <2>3 DEF Match, Base
  <2>5. Match(ctl[f], wire[f], gl, said)
    BY <1>4, <2>3, <2>4, OverMatch
  <2>6. Match(ctl[f], wire[f], gl, said')
    BY <1>3, <2>5, MatchMore
  <2>7. SubpageMoves(f, ctl[f], wire[f], gl)
    BY <1>1, <1>2, <1>3, <1>4, <2>2, <2>3, <2>6 DEF SubpageMoves
  <2>8. PageKept /\ Placed(page', page)
    <3>n. PICK n \in Nat : n = 0
      OBVIOUS
    <3>1. /\ page' = [refresh_page(Forget(page)) EXCEPT !.told = IF n > @ THEN n ELSE @]
          /\ probes' = Refreshed(probes)
      BY <2>1, <3>n DEF Finish
    <3>2. n <= service.v
      BY <1>4, <3>n
    <3> QED
      BY <3>1, <3>2, FinishIs
  <2>9. Closes(page', flow')
    BY <2>2, <2>3, <2>8, ClosesKept
  <2> QED
    BY <1>4, <2>3, <2>7, <2>8, <2>9, SubpageStep
<1> QED
  BY <1>6, <1>7

(* The page moves: its place in the window changes and nothing else of it.  *)
PageMoves(o, tp, sl) ==
  probes' = probes /\ page' = [page EXCEPT !.open = o, !.top = tp, !.slot = sl]

(* A page that only moves: what it shows and what it waits for stay.       *)
LEMMA MovedPage ==
  ASSUME DevInv, NEW o \in BOOLEAN, NEW tp \in Flow \cup {None}, NEW sl \in Flow \cup {None},
         PageMoves(o, tp, sl)
  PROVE  PageKept /\ page'.open = o /\ page'.top = tp /\ page'.slot = sl
<1>m. probes' = probes /\ page' = [page EXCEPT !.open = o, !.top = tp, !.slot = sl]
  BY DEF PageMoves
<1>1. /\ page \in PageShape /\ page.told <= service.v /\ probes \in SUBSET ProbeShape
      /\ OneProbe(page, probes) /\ Timely(page, probes) /\ Fresh(page)
  BY PageParts
<1>2. page' \in PageShape
  BY <1>m, <1>1 DEF PageShape
<1>3. page'.probing = page.probing /\ page'.again = page.again /\ page'.open = o
  BY <1>m, <1>1 DEF PageShape
<1>4. /\ page'.told = page.told /\ page'.shown = page.shown /\ page'.by = page.by
      /\ page'.top = tp /\ page'.slot = sl
  BY <1>m, <1>1 DEF PageShape
<1>5. probes' = probes
  BY <1>m
<1> QED
  BY <1>1, <1>2, <1>3, <1>4, <1>5 DEF PageKept, OneProbe, Timely, Fresh

LEMMA PlacesAre ==
  ASSUME DevInv
  PROVE  page.open \in BOOLEAN /\ page.top \in Flow \cup {None} /\ page.slot \in Flow \cup {None}
<1>1. page \in PageShape
  BY PageParts
<1> QED
  BY <1>1 DEF PageShape

LEMMA BackKeepsDevInv ==
  ASSUME DevInv, NEW f \in Flow, Back(f)
  PROVE  DevInv'
<1>4. /\ ctl[f] \in TaskShape /\ wire[f] \in WireShape /\ flow[f] \in SubpageShape
      /\ wire \in [Flow -> WireShape] /\ ctl \in [Flow -> TaskShape]
      /\ Match(ctl[f], wire[f], flow[f], said)
      /\ Dated(wire[f].down, service.v) /\ Dated(ctl[f].inbox, service.v)
  BY DevParts
<1>l. PICK fl : fl = [flow[f] EXCEPT !.leaving = TRUE]
  OBVIOUS
<1>1. /\ service' = service /\ probes' = probes /\ worker' = worker /\ ctl' = ctl /\ said' = said
      /\ joined' = joined /\ wire' = wire /\ page.open /\ page.top = f
      /\ page' = [page EXCEPT !.top = None]
  BY DEF Back
<1>2. flow' = [flow EXCEPT ![f] = fl] /\ wire' = [wire EXCEPT ![f] = wire[f]]
  BY <1>1, <1>4, <1>l DEF Back
<1>5. fl \in SubpageShape
  BY <1>4, <1>l DEF SubpageShape
<1>6. fl.screen = flow[f].screen /\ fl.kind = flow[f].kind /\ fl.about = flow[f].about
  BY <1>4, <1>l DEF SubpageShape
<1>7. fl.over = flow[f].over /\ fl.leaving = TRUE /\ fl.started = flow[f].started
  BY <1>4, <1>l DEF SubpageShape
<1>8. Base(ctl[f], wire[f], fl)
  BY <1>4, <1>6, <1>7 DEF Match, Base
<1>9. Match(ctl[f], wire[f], fl, said)
  BY <1>4, <1>6, <1>7, <1>8, KeepMatch
<1>10. ctl' = [ctl EXCEPT ![f] = ctl[f]] /\ said \in SUBSET Nat /\ flow \in [Flow -> SubpageShape]
  BY <1>1, <1>4 DEF DevInv, DevShape
<1>11. SubpageMoves(f, ctl[f], wire[f], fl)
  BY <1>1, <1>2, <1>4, <1>6, <1>9, <1>10 DEF SubpageMoves
<1>12. PICK o \in BOOLEAN, sl \in Flow \cup {None} : o = page.open /\ sl = page.slot
  BY PlacesAre
<1>t. PICK tp \in Flow \cup {None} : tp = None
  OBVIOUS
<1>13. PageMoves(o, tp, sl)
  <2>1. page \in PageShape
    BY PageParts
  <2> QED
    BY <1>1, <1>12, <1>t, <2>1 DEF PageMoves, PageShape
<1>m. PageKept /\ page'.open = o /\ page'.top = tp /\ page'.slot = sl
  BY <1>13, MovedPage
<1>14. PageKept /\ page'.top = None
  BY <1>m, <1>t
<1>15. Closes(page', flow')
  <2>1. \A g \in Flow : flow'[g] = IF g = f THEN fl ELSE flow[g]
    BY <1>2, <1>10
  <2>2. \A g \in Flow : g # None
    BY NoneIsNoFlow
  <2>3. Closes(page, flow)
    BY PageParts
  <2> QED
    BY <1>1, <1>7, <1>14, <2>1, <2>2, <2>3 DEF Closes
<1> QED
  BY <1>4, <1>5, <1>11, <1>14, <1>15, SubpageStep

LEMMA CancelIs ==
  ASSUME DevInv, NEW f \in Flow, Cancel(f), service' = service, worker' = worker, ctl' = ctl, said' = said,
         joined' = joined
  PROVE  \E x \in WireShape, gl \in SubpageShape :
           SubpageMoves(f, ctl[f], x, gl) /\ gl.over = TRUE /\ gl.leaving = FALSE
<1>4. /\ ctl[f] \in TaskShape /\ wire[f] \in WireShape /\ flow[f] \in SubpageShape
      /\ wire \in [Flow -> WireShape] /\ ctl \in [Flow -> TaskShape]
      /\ Match(ctl[f], wire[f], flow[f], said)
      /\ Dated(wire[f].down, service.v) /\ Dated(ctl[f].inbox, service.v)
  BY DevParts
<1>b. PICK b \in BOOLEAN : b = (wire[f].shut \/ flow[f].handle)
  BY <1>4 DEF WireShape, SubpageShape
<1>x. PICK x : x = [wire[f] EXCEPT !.shut = b]
  OBVIOUS
<1>g. PICK gl : gl = [flow[f] EXCEPT !.over = TRUE, !.handle = FALSE, !.leaving = FALSE]
  OBVIOUS
<1>1. wire' = [wire EXCEPT ![f] = x]
  BY <1>b, <1>x DEF Cancel
<1>2. flow' = [flow EXCEPT ![f] = gl]
  BY <1>g DEF Cancel
<1>3. x \in WireShape
  BY <1>4, <1>x DEF WireShape
<1>5. x.up = wire[f].up /\ x.down = wire[f].down /\ x.thread = wire[f].thread
  BY <1>4, <1>x DEF WireShape
<1>6. gl \in SubpageShape
  BY <1>4, <1>g DEF SubpageShape
<1>7. gl.kind = flow[f].kind /\ gl.screen = flow[f].screen
  BY <1>4, <1>g DEF SubpageShape
<1>8. gl.over = TRUE /\ gl.leaving = FALSE /\ gl.started = flow[f].started
  BY <1>4, <1>g DEF SubpageShape
<1>9. Base(ctl[f], x, gl)
  BY <1>4, <1>5, <1>7, <1>8 DEF Match, Base
<1>10. Match(ctl[f], x, gl, said)
  BY <1>4, <1>5, <1>8, <1>9, OverMatch
<1>11. ctl' = [ctl EXCEPT ![f] = ctl[f]] /\ said \in SUBSET Nat
  BY <1>4 DEF DevInv, DevShape
<1>12. SubpageMoves(f, ctl[f], x, gl)
  BY <1>1, <1>2, <1>4, <1>5, <1>7, <1>10, <1>11 DEF SubpageMoves
<1> QED
  BY <1>3, <1>6, <1>8, <1>12

LEMMA HiddenKeepsDevInv ==
  ASSUME DevInv, NEW f \in Flow, Hidden(f)
  PROVE  DevInv'
<1>1. /\ service' = service /\ probes' = probes /\ worker' = worker /\ ctl' = ctl /\ said' = said
      /\ joined' = joined /\ Cancel(f) /\ flow[f].leaving
      /\ page' = [page EXCEPT !.slot = Slot(f)]
  BY DEF Hidden
<1>2. PICK x \in WireShape, gl \in SubpageShape :
        SubpageMoves(f, ctl[f], x, gl) /\ gl.over = TRUE /\ gl.leaving = FALSE
  BY <1>1, CancelIs
<1>3. page.open \in BOOLEAN /\ page.top \in Flow \cup {None} /\ page.slot \in Flow \cup {None}
  BY PlacesAre
<1>s. PICK sl \in Flow \cup {None} : sl = Slot(f)
  BY <1>3 DEF Slot
<1>o. PICK o \in BOOLEAN, tp \in Flow \cup {None} : o = page.open /\ tp = page.top
  BY <1>3
<1>4. PageMoves(o, tp, sl)
  <2>1. page \in PageShape
    BY PageParts
  <2> QED
    BY <1>1, <1>o, <1>s, <2>1 DEF PageMoves, PageShape
<1>m. PageKept /\ page'.open = o /\ page'.top = tp /\ page'.slot = sl
  BY <1>4, MovedPage
<1>5. PageKept /\ page'.open = page.open /\ page'.top = page.top /\ page'.slot = sl
  BY <1>m, <1>o
<1>6. Closes(page', flow')
  <2>1. \A g \in Flow : flow'[g] = IF g = f THEN gl ELSE flow[g]
    BY <1>2 DEF SubpageMoves, DevInv, DevShape
  <2>2. Closes(page, flow)
    BY PageParts
  <2>3. page.top # f
    BY <1>1, <2>2 DEF Closes
  <2>4. page'.top # None => page'.open /\ page'.slot = page'.top
    BY <1>5, <1>s, <2>2, <2>3 DEF Closes, Slot
  <2> QED
    BY <1>2, <1>5, <2>1, <2>2, <2>4 DEF Closes
<1>7. ctl[f] \in TaskShape
  BY DevParts
<1> QED
  BY <1>2, <1>5, <1>6, <1>7, SubpageStep

LEMMA CloseDialogKeepsDevInv ==
  ASSUME DevInv, CloseDialog
  PROVE  DevInv'
<1>1. /\ service' = service /\ probes' = probes /\ worker' = worker /\ ctl' = ctl /\ said' = said
      /\ joined' = joined /\ page' = [page EXCEPT !.open = FALSE, !.top = None, !.slot = None]
      /\ IF page.slot # None THEN Cancel(page.slot) ELSE flow' = flow /\ wire' = wire
  BY DEF CloseDialog
<1>2. page.slot \in Flow \cup {None}
  BY PlacesAre
<1>t. PICK o \in BOOLEAN, tp \in Flow \cup {None} : o = FALSE /\ tp = None
  OBVIOUS
<1>o. PageMoves(o, tp, tp)
  BY <1>1, <1>t DEF PageMoves
<1>m. PageKept /\ page'.open = o /\ page'.top = tp /\ page'.slot = tp
  BY <1>o, MovedPage
<1>3. PageKept /\ page'.top = None
  BY <1>m, <1>t
<1>4. Closes(page, flow) /\ flow \in [Flow -> SubpageShape]
  BY DEF DevInv, DevShape
<1>n. \A g \in Flow : g # None
  BY NoneIsNoFlow
<1>5. CASE page.slot # None
  <2>f. PICK f \in Flow : f = page.slot
    BY <1>2, <1>5
  <2>1. PICK x \in WireShape, gl \in SubpageShape :
          SubpageMoves(f, ctl[f], x, gl) /\ gl.over = TRUE /\ gl.leaving = FALSE
    BY <1>1, <1>5, <2>f, CancelIs
  <2>2. \A g \in Flow : flow'[g] = IF g = f THEN gl ELSE flow[g]
    BY <1>4, <2>1 DEF SubpageMoves
  <2>3. Closes(page', flow')
    BY <1>3, <1>4, <1>n, <2>1, <2>2, <2>f DEF Closes
  <2>4. ctl[f] \in TaskShape
    BY DevParts
  <2> QED
    BY <1>3, <2>1, <2>3, <2>4, SubpageStep
<1>6. CASE page.slot = None
  <2>1. flow' = flow /\ wire' = wire
    BY <1>1, <1>6
  <2>2. Closes(page', flow)
    BY <1>3, <1>4, <1>6, <1>n DEF Closes
  <2> QED
    BY <1>1, <1>3, <2>1, <2>2, PageParts, PageStep DEF PageKept
<1> QED
  BY <1>5, <1>6

-----------------------------------------------------------------------------
LEMMA DevInvInit ==
  ASSUME PageInit
  PROVE  DevInv
<1>1. /\ left \in PageSetup
      /\ page = [open |-> left.open, shown |-> Stopped, by |-> "refresh", told |-> 0, probing |-> left.open,
                 again |-> FALSE, switch |-> FALSE, toggling |-> FALSE, slot |-> None, top |-> None]
      /\ probes = (IF left.open THEN {Probe("refresh", FALSE, 0)} ELSE {}) /\ unit = Free /\ worker = Free
      /\ flow = [f \in Flow |-> Blank] /\ wire = [f \in Flow |-> NoWire]
      /\ ctl = [f \in Flow |-> NoTask] /\ said = {} /\ joined = [all |-> <<>>, in |-> {}]
  BY DevicesAssumption DEF PageInit
<1>2. left.open \in BOOLEAN /\ left.at \in {"down", "up"} /\ left.group \in Groups
  BY <1>1 DEF PageSetup, Groups
<1>3. service \in ServiceShape /\ service.v = 1 /\ service.window = None /\ service.attempt.at = "idle"
  <2>a. PICK a \in [n : Nat, at : {"idle", "asked", "accepted", "refused"}] : a = NoAttempt
    BY DEF NoAttempt, None
  <2>n. PICK n \in Flow \cup {None} : n = None
    OBVIOUS
  <2>1. service = [at |-> left.at, v |-> 1, group |-> left.group, window |-> n, tries |-> 0, attempt |-> a]
    BY <2>a, <2>n DEF PageInit
  <2>2. service \in ServiceShape
    BY <1>2, <2>1 DEF ServiceShape
  <2> QED
    BY <2>1, <2>2, <2>a, <2>n DEF NoAttempt
<1>4. page \in PageShape
  <2>n. PICK n \in Flow \cup {None} : n = None
    OBVIOUS
  <2>r. PICK r \in Report : r = Stopped
    BY StoppedIs
  <2>1. page = [open |-> left.open, shown |-> r, by |-> "refresh", told |-> 0, probing |-> left.open,
                again |-> FALSE, switch |-> FALSE, toggling |-> FALSE, slot |-> n, top |-> n]
    BY <1>1, <2>n, <2>r
  <2> QED
    BY <1>2, <2>1 DEF PageShape
<1>5. page.told = 0 /\ page.shown = Stopped /\ page.top = None /\ page.probing = left.open
  BY <1>1
<1>6. joined \in JoinedShape /\ joined.in = {}
  <2>e. PICK es \in Seq(Kind) : es = <<>>
    BY EmptySeq
  <2>1. joined = [all |-> es, in |-> {}]
    BY <1>1, <2>e
  <2> QED
    BY <2>1 DEF JoinedShape
<1>7. /\ flow \in [Flow -> SubpageShape] /\ wire \in [Flow -> WireShape] /\ ctl \in [Flow -> TaskShape]
      /\ worker \in WorkerShape /\ said \in SUBSET Nat
  BY <1>1, BlanksAre, FreeIs
<1>8. probes \in SUBSET ProbeShape
  BY <1>1, ProbeIs
<1>9. DevShape
  BY <1>3, <1>4, <1>6, <1>7, <1>8 DEF DevShape
<1>10. ASSUME NEW f \in Flow
       PROVE  /\ Match(ctl[f], wire[f], flow[f], said)
              /\ Dated(wire[f].down, service.v) /\ Dated(ctl[f].inbox, service.v)
  <2>1. ctl[f] = NoTask /\ wire[f] = NoWire /\ flow[f] = Blank
    BY <1>1
  <2>2. /\ NoTask.at = "none" /\ NoTask.inbox = <<>> /\ NoWire.thread = "none" /\ NoWire.shut = FALSE
        /\ NoWire.up = <<>> /\ NoWire.down = <<>> /\ Blank.screen = "none" /\ Blank.started = FALSE
    BY DEF NoTask, NoWire, Blank
  <2>3. Silent(NoWire, Blank)
    BY <2>2 DEF Silent, NoAsk
  <2>4. Match(NoTask, NoWire, Blank, said)
    BY <2>2, <2>3 DEF Match, Base
  <2> QED
    BY <2>1, <2>2, <2>4 DEF Dated
<1>11. Windowed(service, flow) /\ Consent(service, joined, said)
  BY <1>3, <1>6 DEF Windowed, Consent
<1>12. page.told <= service.v /\ worker.v <= service.v
  BY <1>1, <1>3, <1>5, FreeIs
<1>13. OneProbe(page, probes) /\ Timely(page, probes)
  <2>p. PICK p : p = Probe("refresh", FALSE, 0)
    OBVIOUS
  <2>1. p.at = "asks"
    BY <2>p, ProbeIs
  <2>2. probes = IF left.open THEN {p} ELSE {}
    BY <1>1, <2>p
  <2> QED
    BY <1>2, <1>5, <2>1, <2>2 DEF OneProbe, Timely
<1>14. Fresh(page)
  BY <1>5, StoppedIs DEF Fresh
<1>15. Closes(page, flow)
  <2>1. \A f \in Flow : ~flow[f].leaving /\ ~flow[f].started
    BY <1>1 DEF Blank
  <2> QED
    BY <1>5, <2>1 DEF Closes
<1> QED
  BY <1>9, <1>10, <1>11, <1>12, <1>13, <1>14, <1>15 DEF DevInv

LEMMA DevInvStep ==
  ASSUME DevInv, [PageNext]_pageVars
  PROVE  DevInv'
<1>1. CASE SyncNext
  BY <1>1, HandleKeepsDevInv, EndsKeepDevInv, TakeEventKeepsDevInv, TakeAnswerKeepsDevInv,
     JoinAsksKeepsDevInv, JoinAnsweredKeepsDevInv, JoinEndsKeepsDevInv, AttemptBeginsKeepsDevInv,
     AttemptEndsKeepsDevInv, ReadyKeepsDevInv DEF SyncNext
<1>2. CASE ThreadNext
  BY <1>2, AskStatusKeepsDevInv, SetUnitKeepsDevInv, RequestRunsKeepsDevInv, ConnectKeepsDevInv
     DEF ThreadNext
<1>3. CASE MainLoopNext
  BY <1>3, RefreshTimerKeepsDevInv, SwitchedKeepsDevInv, RequestBackKeepsDevInv, AnsweredKeepsDevInv,
     AwaitKeepsDevInv, ConnectedKeepsDevInv, TakeMsgKeepsDevInv, HiddenKeepsDevInv DEF MainLoopNext
<1>4. CASE PageUserNext
  BY <1>4, SwitchedKeepsDevInv, CloseDialogKeepsDevInv, RequestOnceKeepsDevInv, OpenKeepsDevInv,
     GoKeepsDevInv, BackKeepsDevInv, AnswerKeepsDevInv DEF PageUserNext
<1>5. CASE UNCHANGED pageVars
  BY <1>5 DEF pageVars, guiVars, DevInv, DevShape
<1> QED
  BY <1>1, <1>2, <1>3, <1>4, <1>5 DEF PageNext

(* The invariant holds whatever the page, its threads, the service, other  *)
(* devices and the user do.                                                *)
LEMMA DevInvAlways == PageSpec => []DevInv
<1>1. PageInit => DevInv
  BY DevInvInit
<1>2. DevInv /\ [PageNext]_pageVars => DevInv'
  BY DevInvStep
<1> QED
  BY <1>1, <1>2, PTL DEF PageSpec

(* The state has its type: a request went out when its reader thread       *)
(* exists, and the service works on it only for a connection that was made *)
(* (Flow::start, control::serve).                                          *)
THEOREM PageTyped == PageSpec => []PageTypeOK
<1>1. DevInv => PageTypeOK
  <2>1. SUFFICES ASSUME DevInv
                 PROVE  PageTypeOK
    OBVIOUS
  <2>2. /\ service.window \in Flow \cup {None} /\ service.group \in {"none", "member", "removed"}
        /\ service.attempt.at \in {"idle", "asked", "accepted", "refused"}
    BY <2>1, PageParts DEF ServiceShape, Groups
  <2>3. page.top \in Flow \cup {None}
    BY <2>1, PlacesAre
  <2>4. ASSUME NEW f \in Flow
        PROVE  /\ flow[f].screen \in {"none", "form", "busy", "listening", "link", "ask", "end"}
               /\ flow[f].started <=> wire[f].thread # "none"
               /\ ctl[f].at # "none" => wire[f].thread \in {"connected", "reading", "done"}
    <3>1. wire[f] \in WireShape /\ flow[f] \in SubpageShape /\ Base(ctl[f], wire[f], flow[f])
      BY <2>1, DevParts DEF Match
    <3>2. /\ flow[f].screen \in {"none", "form", "busy", "listening", "link", "ask", "end"}
          /\ wire[f].thread \in {"none", "connecting", "connected", "reading", "done"}
      BY <3>1 DEF WireShape, SubpageShape
    <3> QED
      BY <3>1, <3>2 DEF Base
  <2> QED
    BY <2>2, <2>3, <2>4 DEF PageTypeOK
<1> QED
  BY <1>1, DevInvAlways, PTL

(* Nobody becomes a member by a code, here or elsewhere, unless the user   *)
(* said yes while the question about that attempt was on the screen        *)
(* (Flow::ask, Flow::answer, control::run).                                *)
THEOREM AnswersWereGiven == PageSpec => []AnswersMatch
<1>1. DevInv => AnswersMatch
  BY DEF DevInv, Consent, Agreed, AnswersMatch
<1> QED
  BY <1>1, DevInvAlways, PTL

(* A closed dialog has cancelled every request, or is about to, however    *)
(* subpages and their signals followed each other (Flow::cancel).          *)
THEOREM ClosingCancels == PageSpec => []ClosedCancelsAll
<1>1. DevInv => ClosedCancelsAll
  <2>1. SUFFICES ASSUME DevInv, ~page.open, NEW f \in Flow, flow[f].started
                 PROVE  flow[f].over \/ flow[f].leaving
    BY DEF ClosedCancelsAll
  <2>2. Closes(page, flow) /\ f # None
    BY <2>1, NoneIsNoFlow DEF DevInv
  <2> QED
    BY <2>1, <2>2 DEF Closes
<1> QED
  BY <1>1, DevInvAlways, PTL

(* A report that the page shows is not older than what the user was told,  *)
(* unless the probe of the switch brought it (Devices::refresh,            *)
(* Flow::finish).                                                          *)
THEOREM ReportsAreFresh == PageSpec => []NotStale
<1>1. DevInv => NotStale
  BY DEF DevInv, Fresh, NotStale
<1> QED
  BY <1>1, DevInvAlways, PTL
=============================================================================
