------------------------- MODULE HistorySyncProofs --------------------------
(***************************************************************************)
(* HistorySync for any devices, contents, rules, limits and orders of      *)
(* events: nothing confirmed was skipped, secrets stay, a stamp names one  *)
(* state, the author of a state has it, and devices which have read each   *)
(* other's feeds agree.                                                    *)
(*                                                                         *)
(* First what the operations of Entries do to a database, then Base (the   *)
(* types, and that counters bound cursors) and the few shapes a step can   *)
(* have: a quiet one, an operation of a user, a record that is judged, a   *)
(* page sent, a cursor moved.  Each invariant is then shown once for each  *)
(* shape.                                                                  *)
(***************************************************************************)
EXTENDS HistorySync, FiniteSetTheorems, WellFoundedInduction, TLAPS

-----------------------------------------------------------------------------
(* Values.                                                                 *)
LEMMA RowsArePresent ==
  Absent \notin Row
BY DEF Absent, Row

LEMMA BatchesAreThere ==
  None \notin Batch
BY DEF None, Batch

LEMMA HistoryFacts ==
  ASSUME NEW s \in History
  PROVE  /\ s.rows \in [Content -> Row \cup {Absent}] /\ s.clock \in Nat /\ s.seq \in Nat
         /\ \A c \in Content : Present(s, c) => s.rows[c] \in Row
         /\ \A c \in Content : s.rows[c] \in Row => Present(s, c)
BY RowsArePresent DEF History, Present

(* A bounded set of numbers has a greatest one. *)
LEMMA MaxOf ==
  ASSUME NEW n \in Nat, NEW S, S \subseteq 0..n, S # {}
  PROVE  Max(S) \in S /\ \A y \in S : Max(S) >= y
<1> DEFINE R == OpToRel(<, Nat)
           T == {n - x : x \in S}
<1>1. \A x, y \in Nat : <<x, y>> \in R <=> x < y
  BY DEF OpToRel
<1>2. IsWellFoundedOn(R, Nat)
  BY NatLessThanWellFounded
<1>3. T \subseteq Nat /\ T # {}
  <2>1. \A x \in S : n - x \in Nat
    OBVIOUS
  <2> QED
    BY <2>1
<1> HIDE DEF R, T
<1>4. PICK m \in T : \A y \in T : ~(<<y, m>> \in R)
  BY <1>2, <1>3, WFMin
<1>5. PICK x \in S : m = n - x
  BY <1>4 DEF T
<1>6. \A y \in S : x >= y
  <2> TAKE y \in S
  <2>1. n - y \in T
    BY DEF T
  <2>2. ~(n - y < n - x)
    BY <1>1, <1>3, <1>4, <1>5, <2>1
  <2> QED
    BY <2>2
<1> QED
  BY <1>6 DEF Max

(* Last writer wins is an order on stamps. *)
Stamp == Nat \X (Device \cup {0})

LEMMA StampOrder ==
  /\ \A x, y, z \in Stamp : ~lww_wins(x, y) /\ ~lww_wins(y, z) => ~lww_wins(x, z)
  /\ \A x, y \in Stamp : ~lww_wins(x, y) /\ ~lww_wins(y, x) => x = y
  /\ \A x, y \in Stamp : lww_wins(x, y) => ~lww_wins(y, x)
  /\ \A x \in Stamp : ~lww_wins(x, x)
<1>1. \A x \in Stamp : x[1] \in Nat /\ x[2] \in Nat /\ x = <<x[1], x[2]>>
  <2> TAKE x \in Stamp
  <2>1. PICK a \in Nat, b \in Device \cup {0} : x = <<a, b>>
    BY DEF Stamp
  <2> QED
    BY <2>1, DeviceAssumption
<1> QED
  BY <1>1 DEF lww_wins

LEMMA RowStamps ==
  ASSUME NEW row \in Row
  PROVE  StampOf(row) \in Stamp /\ StampOf(row)[1] = row.lamport /\ StampOf(row)[2] = row.device_id
BY DEF Row, Stamp, StampOf

LEMMA RecordStamps ==
  ASSUME NEW r \in Record
  PROVE  StampOf(r) \in Stamp /\ StampOf(r)[1] = r.lamport /\ StampOf(r)[2] = r.device_id
BY DEF Record, Stamp, StampOf

-----------------------------------------------------------------------------
(* Statements.                                                             *)
OnlyAt(s, t, c) == \A e \in Content : e # c => t.rows[e] = s.rows[e]

LEMMA WrittenIs ==
  ASSUME NEW s \in History, NEW c \in Content, NEW row \in Row, NEW t, t = Written(s, c, row)
  PROVE  /\ t \in History /\ t.seq = s.seq + 1 /\ t.clock = s.clock
         /\ t.rows[c] = [row EXCEPT !.change_seq = s.seq + 1]
         /\ t.rows[c] \in Row
         /\ OnlyAt(s, t, c)
<1>1. s.rows \in [Content -> Row \cup {Absent}] /\ s.clock \in Nat /\ s.seq \in Nat
  BY DEF History
<1> PICK new : new = [row EXCEPT !.change_seq = s.seq + 1]
  OBVIOUS
<1>2. new \in Row
  BY <1>1 DEF Row
<1> PICK rs : rs = [s.rows EXCEPT ![c] = new]
  OBVIOUS
<1>3. rs \in [Content -> Row \cup {Absent}] /\ rs[c] = new /\ \A e \in Content : e # c => rs[e] = s.rows[e]
  BY <1>1, <1>2
<1>4. t = [rows |-> rs, clock |-> s.clock, seq |-> s.seq + 1]
  BY DEF Written
<1> QED
  BY <1>1, <1>2, <1>3, <1>4 DEF History, OnlyAt

LEMMA QuietlyIs ==
  ASSUME NEW s \in History, NEW c \in Content, NEW row \in Row, NEW t, t = Quietly(s, c, row)
  PROVE  /\ t \in History /\ t.seq = s.seq /\ t.clock = s.clock
         /\ t.rows[c] = row
         /\ OnlyAt(s, t, c)
<1>1. s.rows \in [Content -> Row \cup {Absent}] /\ s.clock \in Nat /\ s.seq \in Nat
  BY DEF History
<1> PICK rs : rs = [s.rows EXCEPT ![c] = row]
  OBVIOUS
<1>3. rs \in [Content -> Row \cup {Absent}] /\ rs[c] = row /\ \A e \in Content : e # c => rs[e] = s.rows[e]
  BY <1>1
<1>4. t = [rows |-> rs, clock |-> s.clock, seq |-> s.seq]
  BY DEF Quietly, History
<1> QED
  BY <1>1, <1>3, <1>4 DEF History, OnlyAt

(* The clock passes itself and every row it observes. *)
LEMMA TickIs ==
  ASSUME NEW s \in History, NEW t, t = tick_lamport(s)
  PROVE  /\ t \in History /\ t.seq = s.seq /\ t.rows = s.rows /\ t.clock > s.clock
         /\ \A c \in Content : Present(s, c) /\ s.rows[c].lamport < LAMPORT_OBSERVE_LIMIT
               => t.clock > s.rows[c].lamport
<1>1. s.clock \in Nat /\ s.seq \in Nat /\ LAMPORT_OBSERVE_LIMIT \in Nat
      /\ \A c \in Content : Present(s, c) => s.rows[c].lamport \in Nat
  BY HistoryFacts, LamportAssumption DEF Row
<1> PICK S : S = ObservedRows(s) \cup {s.clock}
  OBVIOUS
<1>2. S \subseteq 0..(LAMPORT_OBSERVE_LIMIT + s.clock)
  <2>1. \A x \in ObservedRows(s) : x \in 0..LAMPORT_OBSERVE_LIMIT
    BY <1>1 DEF ObservedRows
  <2> QED
    BY <1>1, <2>1
<1>3. Max(S) \in S /\ \A y \in S : Max(S) >= y
  <2>1. S # {} /\ LAMPORT_OBSERVE_LIMIT + s.clock \in Nat
    BY <1>1
  <2> QED
    BY <1>2, <2>1, MaxOf
<1> PICK m : m = Max(S)
  OBVIOUS
<1>4. m \in Nat /\ m >= s.clock
  BY <1>1, <1>2, <1>3
<1>5. t = [rows |-> s.rows, clock |-> m + 1, seq |-> s.seq]
  BY DEF tick_lamport, History
<1>6. \A c \in Content : Present(s, c) /\ s.rows[c].lamport < LAMPORT_OBSERVE_LIMIT
        => m >= s.rows[c].lamport
  BY <1>3 DEF ObservedRows
<1>7. t \in History
  BY <1>4, <1>5 DEF History
<1> QED
  BY <1>1, <1>4, <1>5, <1>6, <1>7

(* Two histories with the same Lamport values tick alike. *)
LEMMA TickAlike ==
  ASSUME NEW s \in History, NEW t \in History, s.clock = t.clock,
         \A c \in Content : Present(s, c) <=> Present(t, c),
         \A c \in Content : Present(s, c) => s.rows[c].lamport = t.rows[c].lamport
  PROVE  tick_lamport(s).clock = tick_lamport(t).clock
<1>1. ObservedRows(s) = ObservedRows(t)
  BY DEF ObservedRows
<1>2. tick_lamport(s).clock = Max(ObservedRows(s) \cup {s.clock}) + 1
  BY DEF tick_lamport, History
<1>3. tick_lamport(t).clock = Max(ObservedRows(t) \cup {t.clock}) + 1
  BY DEF tick_lamport, History
<1> QED
  BY <1>1, <1>2, <1>3

LEMMA ObserveIs ==
  ASSUME NEW s \in History, NEW n \in Nat, NEW t, t = observe_lamport(s, n)
  PROVE  /\ t \in History /\ t.seq = s.seq /\ t.rows = s.rows /\ t.clock >= s.clock
         /\ t.clock \in {s.clock, n}
         /\ n < LAMPORT_OBSERVE_LIMIT => t.clock >= n
<1>1. s.clock \in Nat /\ LAMPORT_OBSERVE_LIMIT \in Nat
  BY HistoryFacts, LamportAssumption
<1>2. CASE n < LAMPORT_OBSERVE_LIMIT /\ n > s.clock
  <2>1. t = [rows |-> s.rows, clock |-> n, seq |-> s.seq]
    BY <1>2 DEF observe_lamport, History
  <2> QED
    BY <1>1, <1>2, <2>1 DEF History
<1>3. CASE ~(n < LAMPORT_OBSERVE_LIMIT /\ n > s.clock)
  <2>1. t = s
    BY <1>3 DEF observe_lamport
  <2> QED
    BY <1>1, <1>3, <2>1
<1> QED
  BY <1>2, <1>3

-----------------------------------------------------------------------------
(* Operations, as sequences of statements on one entry c: from s the       *)
(* database comes to t, the row is as it was or has a new change_seq, and  *)
(* its Lamport value is k or the one it had.                               *)
Fresh(s, t, c, k) ==
  /\ t.rows[c] \in Row
  /\ t.rows[c].change_seq \in (s.seq + 1)..t.seq
  /\ t.rows[c].lamport = k \/ (Present(s, c) /\ t.rows[c].lamport = s.rows[c].lamport)

Within(s, t, c, k) ==
  /\ t \in History /\ t.seq >= s.seq /\ t.clock >= s.clock
  /\ OnlyAt(s, t, c)
  /\ t.rows[c] = s.rows[c] \/ Fresh(s, t, c, k)

LEMMA WithinSelf ==
  ASSUME NEW s \in History, NEW c \in Content, NEW k
  PROVE  Within(s, s, c, k)
BY HistoryFacts DEF Within, OnlyAt

LEMMA WithinClock ==
  ASSUME NEW s \in History, NEW t \in History, NEW c \in Content, NEW k, Within(s, t, c, k),
         NEW u \in History, u.rows = t.rows, u.seq = t.seq, u.clock >= t.clock
  PROVE  Within(s, u, c, k) /\ (Fresh(s, t, c, k) => Fresh(s, u, c, k))
<1>1. s.clock \in Nat /\ t.clock \in Nat /\ u.clock \in Nat
  BY HistoryFacts
<1> QED
  BY <1>1 DEF Within, OnlyAt, Fresh

LEMMA WithinWritten ==
  ASSUME NEW s \in History, NEW t \in History, NEW c \in Content, NEW k, Within(s, t, c, k),
         NEW row \in Row,
         row.lamport = k \/ (Present(t, c) /\ row.lamport = t.rows[c].lamport),
         NEW u, u = Written(t, c, row)
  PROVE  /\ u \in History /\ u.clock = t.clock
         /\ Within(s, u, c, k) /\ Fresh(s, u, c, k)
         /\ u.rows[c] = [row EXCEPT !.change_seq = t.seq + 1]
<1>1. /\ u \in History /\ u.seq = t.seq + 1 /\ u.clock = t.clock
      /\ u.rows[c] = [row EXCEPT !.change_seq = t.seq + 1]
      /\ u.rows[c] \in Row
      /\ OnlyAt(t, u, c)
  BY WrittenIs
<1>2. s.seq \in Nat /\ t.seq \in Nat /\ s.clock \in Nat /\ t.clock \in Nat /\ t.seq >= s.seq /\ t.clock >= s.clock
  BY HistoryFacts DEF Within
<1>3. u.rows[c].change_seq = t.seq + 1 /\ u.rows[c].lamport = row.lamport
  BY <1>1 DEF Row
<1>4. row.lamport = k \/ (Present(s, c) /\ row.lamport = s.rows[c].lamport)
  BY DEF Within, Fresh, Present
<1>5. Fresh(s, u, c, k)
  BY <1>1, <1>2, <1>3, <1>4 DEF Fresh
<1>6. OnlyAt(s, u, c)
  BY <1>1 DEF Within, OnlyAt
<1> QED
  BY <1>1, <1>2, <1>5, <1>6 DEF Within

LEMMA WithinQuietly ==
  ASSUME NEW s \in History, NEW t \in History, NEW c \in Content, NEW k, Within(s, t, c, k),
         Fresh(s, t, c, k), NEW row \in Row,
         row.lamport = t.rows[c].lamport, row.change_seq = t.rows[c].change_seq,
         NEW u, u = Quietly(t, c, row)
  PROVE  /\ u \in History /\ u.clock = t.clock
         /\ Within(s, u, c, k) /\ Fresh(s, u, c, k)
         /\ u.rows[c] = row
<1>1. /\ u \in History /\ u.seq = t.seq /\ u.clock = t.clock /\ u.rows[c] = row
      /\ OnlyAt(t, u, c)
  BY QuietlyIs
<1>2. Fresh(s, u, c, k)
  BY <1>1 DEF Fresh
<1>6. OnlyAt(s, u, c)
  BY <1>1 DEF Within, OnlyAt
<1> QED
  BY <1>1, <1>2, <1>6 DEF Within

(* What a capture leaves. *)
StoredRow(s, t, c, d, k) ==
  /\ Fresh(s, t, c, k) /\ t.clock = k
  /\ t.rows[c].lamport = k /\ t.rows[c].device_id = d
  /\ t.rows[c].deleted = "no" /\ t.rows[c].blobs = TRUE
  /\ c \in Secret => t.rows[c].sensitive = TRUE
  /\ c \notin Secret /\ (Live(s, c) => s.rows[c].sensitive = FALSE) => t.rows[c].sensitive = FALSE

LEMMA StoreIs ==
  ASSUME NEW s \in History, NEW c \in Content, NEW d \in Device,
         NEW k, k = tick_lamport(s).clock, NEW steps, steps = store(s, c, d)
  PROVE  /\ Len(steps) = 5 /\ DOMAIN steps = 1..5
         /\ \A i \in 1..5 : Within(s, steps[i], c, k) /\ steps[i].clock = k
         /\ StoredRow(s, steps[5], c, d, k)
<1>s1. PICK s1 : s1 = tick_lamport(s)
  OBVIOUS
<1>s2. PICK s2 : s2 = upsert_entry(s1, c, s1.clock, d)
  OBVIOUS
<1>s3. PICK s3 : s3 = stamp(s2, c, s1.clock, d)
  OBVIOUS
<1>s4. PICK s4 : s4 = IF c \in Secret THEN mark_sensitive(s3, c) ELSE s3
  OBVIOUS
<1>s5. PICK s5 : s5 = attach_blobs(s4, c)
  OBVIOUS
<1>0. steps = <<s1, s2, s3, s4, s5>>
  BY <1>s1, <1>s2, <1>s3, <1>s4, <1>s5 DEF store
<1>1. /\ s1 \in History /\ s1.seq = s.seq /\ s1.rows = s.rows /\ s1.clock > s.clock /\ s1.clock = k
      /\ k \in Nat
  BY <1>s1, TickIs, HistoryFacts
<1>2. Within(s, s1, c, k)
  BY <1>1, WithinSelf, WithinClock, HistoryFacts
<1>3. /\ s2 \in History /\ Within(s, s2, c, k) /\ s2.clock = k /\ s2.rows[c] \in Row
      /\ s2.rows[c].deleted = "no"
      /\ ~Live(s, c) => s2.rows[c].sensitive = FALSE
      /\ Live(s, c) => s2.rows[c] = s.rows[c]
  <2>1. CASE Live(s, c)
    <3>1. Live(s1, c)
      BY <1>1, <2>1 DEF Live, Present
    <3>2. s2 = s1
      BY <1>s2, <3>1 DEF upsert_entry
    <3> QED
      BY <1>1, <1>2, <2>1, <3>2, HistoryFacts DEF Live, Present
  <2>2. CASE ~Live(s, c)
    <3>1. ~Live(s1, c) /\ s1.seq \in Nat
      BY <1>1, <2>2, HistoryFacts DEF Live, Present
    <3>row. PICK row : row = [id         |-> IF Present(s1, c) THEN s1.rows[c].id ELSE s1.seq + 1,
                lamport    |-> k,
                device_id  |-> d,
                deleted    |-> "no",
                pinned     |-> FALSE,
                sensitive  |-> FALSE,
                blobs      |-> Present(s1, c) /\ s1.rows[c].blobs,
                change_seq |-> 0]
      OBVIOUS
    <3>2. s2 = Written(s1, c, row)
      BY <1>1, <1>s2, <3>row, <3>1 DEF upsert_entry
    <3>3. Present(s1, c) => s1.rows[c].id \in Nat /\ s1.rows[c].blobs \in BOOLEAN
      BY <1>1, HistoryFacts DEF Row
    <3>4. row \in Row
      <4>1. (IF Present(s1, c) THEN s1.rows[c].id ELSE s1.seq + 1) \in Nat
        BY <3>1, <3>3
      <4>2. (Present(s1, c) /\ s1.rows[c].blobs) \in BOOLEAN
        OBVIOUS
      <4> QED
        BY <1>1, <3>row, <4>1, <4>2 DEF Row
    <3>5. row.lamport = k /\ row.deleted = "no" /\ row.sensitive = FALSE
      BY <3>row
    <3>6. /\ s2 \in History /\ s2.clock = s1.clock
         /\ Within(s, s2, c, k) /\ Fresh(s, s2, c, k)
         /\ s2.rows[c] = [row EXCEPT !.change_seq = s1.seq + 1]
      BY <1>1, <1>2, <3>2, <3>4, <3>5, WithinWritten
    <3>7. s2.rows[c].deleted = "no" /\ s2.rows[c].sensitive = FALSE
      BY <3>4, <3>5, <3>6 DEF Row
    <3> QED
      BY <1>1, <2>2, <3>6, <3>7 DEF Fresh
  <2> QED
    BY <2>1, <2>2
<1>4. /\ s3 \in History /\ Within(s, s3, c, k) /\ Fresh(s, s3, c, k) /\ s3.clock = k
      /\ s3.rows[c].lamport = k /\ s3.rows[c].device_id = d
      /\ s3.rows[c].deleted = "no" /\ s3.rows[c].sensitive = s2.rows[c].sensitive
  <2>row. PICK row : row = [s2.rows[c] EXCEPT !.lamport = k, !.device_id = d]
    OBVIOUS
  <2>1. row \in Row /\ row.lamport = k /\ row.device_id = d /\ row.deleted = "no"
        /\ row.sensitive = s2.rows[c].sensitive
    BY <1>1, <1>3, <2>row DEF Row
  <2>2. s3 = Written(s2, c, row)
    BY <1>1, <1>s3, <2>row DEF stamp
  <2>3. /\ s3 \in History /\ s3.clock = s2.clock
         /\ Within(s, s3, c, k) /\ Fresh(s, s3, c, k)
         /\ s3.rows[c] = [row EXCEPT !.change_seq = s2.seq + 1]
    BY <1>3, <2>1, <2>2, WithinWritten
  <2>4. s3.rows[c].lamport = k /\ s3.rows[c].device_id = d /\ s3.rows[c].deleted = "no"
        /\ s3.rows[c].sensitive = s2.rows[c].sensitive
    BY <2>1, <2>3 DEF Row
  <2> QED
    BY <1>3, <2>3, <2>4
<1>5. /\ s4 \in History /\ Within(s, s4, c, k) /\ Fresh(s, s4, c, k) /\ s4.clock = k
      /\ s4.rows[c].lamport = k /\ s4.rows[c].device_id = d
      /\ s4.rows[c].deleted = "no"
      /\ c \in Secret => s4.rows[c].sensitive = TRUE
      /\ c \notin Secret => s4.rows[c].sensitive = s3.rows[c].sensitive
  <2>1. CASE c \in Secret
    <3>row. PICK row : row = [s3.rows[c] EXCEPT !.sensitive = TRUE]
      OBVIOUS
    <3>0. s3.rows[c] \in Row
      BY <1>4 DEF Fresh
    <3>1. row \in Row /\ row.lamport = k /\ row.device_id = d /\ row.deleted = "no"
          /\ row.sensitive = TRUE /\ row.change_seq = s3.rows[c].change_seq
      BY <1>4, <3>0, <3>row DEF Row
    <3>2. s4 = Quietly(s3, c, row)
      BY <2>1, <1>s4, <3>row DEF mark_sensitive
    <3>3. /\ s4 \in History /\ s4.clock = s3.clock
         /\ Within(s, s4, c, k) /\ Fresh(s, s4, c, k)
         /\ s4.rows[c] = row
      BY <1>4, <3>1, <3>2, WithinQuietly
    <3> QED
      BY <1>4, <2>1, <3>1, <3>3
  <2>2. CASE c \notin Secret
    BY <1>4, <1>s4, <2>2
  <2> QED
    BY <2>1, <2>2
<1>6. /\ s5 \in History /\ Within(s, s5, c, k) /\ Fresh(s, s5, c, k) /\ s5.clock = k
      /\ s5.rows[c].lamport = k /\ s5.rows[c].device_id = d
      /\ s5.rows[c].deleted = "no" /\ s5.rows[c].blobs = TRUE
      /\ s5.rows[c].sensitive = s4.rows[c].sensitive
  <2>row. PICK row : row = [s4.rows[c] EXCEPT !.blobs = TRUE]
    OBVIOUS
  <2>0. s4.rows[c] \in Row
    BY <1>5 DEF Fresh
  <2>1. row \in Row /\ row.lamport = k /\ row.device_id = d /\ row.deleted = "no"
        /\ row.blobs = TRUE /\ row.change_seq = s4.rows[c].change_seq
        /\ row.sensitive = s4.rows[c].sensitive
    BY <1>5, <2>0, <2>row DEF Row
  <2>2. s5 = Quietly(s4, c, row)
    BY <1>s5, <2>row DEF attach_blobs
  <2>3. /\ s5 \in History /\ s5.clock = s4.clock
         /\ Within(s, s5, c, k) /\ Fresh(s, s5, c, k)
         /\ s5.rows[c] = row
    BY <1>5, <2>1, <2>2, WithinQuietly
  <2> QED
    BY <1>5, <2>1, <2>3
<1>7. StoredRow(s, s5, c, d, k)
  <2>1. c \notin Secret /\ (Live(s, c) => s.rows[c].sensitive = FALSE) => s5.rows[c].sensitive = FALSE
    BY <1>3, <1>4, <1>5, <1>6
  <2>2. c \in Secret => s5.rows[c].sensitive = TRUE
    BY <1>5, <1>6
  <2> QED
    BY <1>6, <2>1, <2>2 DEF StoredRow
<1>8. Len(steps) = 5 /\ DOMAIN steps = 1..5 /\ steps[5] = s5
  BY <1>0
<1>9. \A i \in 1..5 : steps[i] \in {s1, s2, s3, s4, s5}
  BY <1>0
<1>10. \A t \in {s1, s2, s3, s4, s5} : Within(s, t, c, k) /\ t.clock = k
  BY <1>1, <1>2, <1>3, <1>4, <1>5, <1>6
<1> QED
  BY <1>7, <1>8, <1>9, <1>10

(* A row written and then stamped with a new Lamport value, as pinning,    *)
(* deleting and restoring do.                                              *)
EditedRow(s, t, c, d, k, deleted) ==
  /\ Fresh(s, t, c, k) /\ t.clock = k
  /\ t.rows[c].lamport = k /\ t.rows[c].device_id = d
  /\ t.rows[c].deleted = deleted
  /\ t.rows[c].sensitive = s.rows[c].sensitive
  /\ t.rows[c].blobs = s.rows[c].blobs

LEMMA ThreeSteps ==
  ASSUME NEW s1, NEW s2, NEW s3, NEW steps, steps = <<s1>> \o <<s2, s3>>
  PROVE  /\ Len(steps) = 3 /\ steps[3] = s3
         /\ \A i \in 1..3 : steps[i] \in {s1, s2, s3}
<1>1. Len(steps) = 3
  OBVIOUS
<1>2. steps[1] = s1 /\ steps[2] = s2 /\ steps[3] = s3
  OBVIOUS
<1> QED
  BY <1>1, <1>2

Stamping(steps, s1, c, d) == steps = <<s1>> \o stamp_local(s1, c, d)

AllWithin(s, steps, c, k) ==
  \A i \in 1..Len(steps) : Within(s, steps[i], c, k) /\ steps[i].clock \in {s.clock, k}

Prepared(s, s1, c, row) == s1 = Written(s, c, row) \/ (s1 = s /\ row = s.rows[c])

LEMMA EditIs ==
  ASSUME NEW s \in History, NEW c \in Content, NEW d \in Device, Present(s, c),
         NEW row \in Row, row.lamport = s.rows[c].lamport,
         row.sensitive = s.rows[c].sensitive, row.blobs = s.rows[c].blobs,
         NEW s1, Prepared(s, s1, c, row),
         NEW k, k = tick_lamport(s).clock,
         NEW steps, Stamping(steps, s1, c, d)
  PROVE  /\ Len(steps) = 3
         /\ AllWithin(s, steps, c, k)
         /\ EditedRow(s, steps[3], c, d, k, row.deleted)
<1>s2. PICK s2 : s2 = tick_lamport(s1)
  OBVIOUS
<1>s3. PICK s3 : s3 = stamp(s2, c, s2.clock, d)
  OBVIOUS
<1>0. steps = <<s1>> \o <<s2, s3>>
  BY <1>s2, <1>s3 DEF stamp_local, Stamping
<1>1. /\ s1 \in History /\ Within(s, s1, c, k) /\ s1.clock = s.clock
      /\ s1.rows[c] \in Row /\ s1.rows[c].lamport = s.rows[c].lamport
      /\ s1.rows[c].sensitive = s.rows[c].sensitive /\ s1.rows[c].blobs = s.rows[c].blobs
      /\ s1.rows[c].deleted = row.deleted
      /\ OnlyAt(s, s1, c)
  <2>1. CASE s1 = Written(s, c, row)
    <3>1. /\ s1 \in History /\ s1.clock = s.clock
          /\ Within(s, s1, c, k) /\ Fresh(s, s1, c, k)
          /\ s1.rows[c] = [row EXCEPT !.change_seq = s.seq + 1]
      BY <2>1, WithinSelf, WithinWritten
    <3>2. s1.rows[c].lamport = row.lamport /\ s1.rows[c].sensitive = row.sensitive
          /\ s1.rows[c].blobs = row.blobs /\ s1.rows[c].deleted = row.deleted
      BY <3>1 DEF Row
    <3> QED
      BY <3>1, <3>2 DEF Fresh, Within
  <2>2. CASE s1 = s /\ row = s.rows[c]
    BY <2>2, WithinSelf DEF OnlyAt
  <2> QED
    BY <2>1, <2>2 DEF Prepared
<1>2. tick_lamport(s1).clock = k
  <2>1. \A e \in Content : Present(s, e) <=> Present(s1, e)
    BY <1>1, RowsArePresent DEF OnlyAt, Present
  <2>2. \A e \in Content : Present(s, e) => s.rows[e].lamport = s1.rows[e].lamport
    BY <1>1 DEF OnlyAt
  <2> QED
    BY <1>1, <2>1, <2>2, TickAlike
<1>3. /\ s2 \in History /\ s2.seq = s1.seq /\ s2.rows = s1.rows /\ s2.clock > s1.clock /\ s2.clock = k
      /\ Within(s, s2, c, k) /\ k \in Nat
  <2>1. s2 \in History /\ s2.seq = s1.seq /\ s2.rows = s1.rows /\ s2.clock > s1.clock /\ s2.clock = k
    BY <1>1, <1>2, <1>s2, TickIs
  <2>2. s2.clock \in Nat /\ s1.clock \in Nat
    BY <1>1, <2>1, HistoryFacts
  <2>3. s2.clock >= s1.clock
    BY <2>1, <2>2
  <2>4. Within(s, s2, c, k)
    BY <1>1, <2>1, <2>3, WithinClock
  <2> QED
    BY <2>1, <2>2, <2>4
<1>4. /\ s3 \in History /\ Within(s, s3, c, k) /\ EditedRow(s, s3, c, d, k, row.deleted)
  <2>row. PICK new : new = [s2.rows[c] EXCEPT !.lamport = k, !.device_id = d]
    OBVIOUS
  <2>0. s2.rows[c] \in Row /\ s2.rows[c] = s1.rows[c]
    BY <1>1, <1>3
  <2>1. /\ new \in Row /\ new.lamport = k /\ new.device_id = d /\ new.deleted = s2.rows[c].deleted
        /\ new.sensitive = s2.rows[c].sensitive /\ new.blobs = s2.rows[c].blobs
    BY <1>3, <2>0, <2>row DEF Row
  <2>2. s3 = Written(s2, c, new)
    BY <1>3, <1>s3, <2>row DEF stamp
  <2>3. /\ s3 \in History /\ s3.clock = s2.clock
         /\ Within(s, s3, c, k) /\ Fresh(s, s3, c, k)
         /\ s3.rows[c] = [new EXCEPT !.change_seq = s2.seq + 1]
    BY <1>3, <2>1, <2>2, WithinWritten
  <2>4. /\ s3.rows[c].lamport = k /\ s3.rows[c].device_id = d /\ s3.rows[c].deleted = new.deleted
        /\ s3.rows[c].sensitive = new.sensitive /\ s3.rows[c].blobs = new.blobs
    BY <2>1, <2>3 DEF Row
  <2> QED
    BY <1>1, <1>3, <2>0, <2>1, <2>3, <2>4 DEF EditedRow
<1>5. /\ Len(steps) = 3 /\ steps[3] = s3
      /\ \A i \in 1..3 : steps[i] \in {s1, s2, s3}
  BY <1>0, ThreeSteps
<1>7. \A t \in {s1, s2, s3} : Within(s, t, c, k) /\ t.clock \in {s.clock, k}
  BY <1>1, <1>3, <1>4 DEF EditedRow
<1> QED
  BY <1>4, <1>5, <1>7 DEF AllWithin

LEMMA PinIs ==
  ASSUME NEW s \in History, NEW c \in Content, NEW d \in Device, Present(s, c), NEW b \in BOOLEAN,
         NEW k, k = tick_lamport(s).clock, NEW steps, steps = pin(s, c, b, d)
  PROVE  /\ Len(steps) = 3
         /\ AllWithin(s, steps, c, k)
         /\ EditedRow(s, steps[3], c, d, k, s.rows[c].deleted)
<1>row. PICK row : row = [s.rows[c] EXCEPT !.pinned = b]
  OBVIOUS
<1>0. s.rows[c] \in Row
  BY HistoryFacts
<1>1. /\ row \in Row /\ row.lamport = s.rows[c].lamport /\ row.deleted = s.rows[c].deleted
      /\ row.sensitive = s.rows[c].sensitive /\ row.blobs = s.rows[c].blobs
  BY <1>0, <1>row DEF Row
<1>s1. PICK s1 : s1 = Written(s, c, row)
  OBVIOUS
<1>2. Stamping(steps, s1, c, d)
  BY <1>row, <1>s1 DEF pin, set_pinned, Stamping
<1> QED
  BY <1>1, <1>s1, <1>2, EditIs DEF Prepared

LEMMA DeleteIs ==
  ASSUME NEW s \in History, NEW c \in Content, NEW d \in Device, Present(s, c),
         NEW k, k = tick_lamport(s).clock, NEW steps, steps = delete(s, c, d)
  PROVE  /\ Len(steps) = 3
         /\ AllWithin(s, steps, c, k)
         /\ EditedRow(s, steps[3], c, d, k, "user")
<1>row. PICK row : row = [s.rows[c] EXCEPT !.deleted = "user"]
  OBVIOUS
<1>0. s.rows[c] \in Row
  BY HistoryFacts
<1>1. /\ row \in Row /\ row.lamport = s.rows[c].lamport /\ row.deleted = "user"
      /\ row.sensitive = s.rows[c].sensitive /\ row.blobs = s.rows[c].blobs
  BY <1>0, <1>row DEF Row
<1>s1. PICK s1 : s1 = Written(s, c, row)
  OBVIOUS
<1>2. Stamping(steps, s1, c, d)
  BY <1>row, <1>s1 DEF delete, tombstone, Stamping
<1>3. /\ Len(steps) = 3
      /\ AllWithin(s, steps, c, k)
      /\ EditedRow(s, steps[3], c, d, k, row.deleted)
  BY <1>1, <1>s1, <1>2, EditIs DEF Prepared
<1> QED
  BY <1>1, <1>3

LEMMA RestoreIs ==
  ASSUME NEW s \in History, NEW c \in Content, NEW d \in Device, Present(s, c),
         NEW k, k = tick_lamport(s).clock, NEW steps, steps = restore(s, c, d)
  PROVE  /\ Len(steps) = 3
         /\ AllWithin(s, steps, c, k)
         /\ EditedRow(s, steps[3], c, d, k, "no")
<1>row. PICK row : row = [s.rows[c] EXCEPT !.deleted = "no"]
  OBVIOUS
<1>0. s.rows[c] \in Row
  BY HistoryFacts
<1>1. /\ row \in Row /\ row.lamport = s.rows[c].lamport /\ row.deleted = "no"
      /\ row.sensitive = s.rows[c].sensitive /\ row.blobs = s.rows[c].blobs
      /\ s.rows[c].deleted = "no" => row = s.rows[c]
  BY <1>0, <1>row DEF Row
<1>s1. PICK s1 : s1 = IF Live(s, c) THEN s ELSE Written(s, c, row)
  OBVIOUS
<1>2. Stamping(steps, s1, c, d)
  BY <1>row, <1>s1 DEF restore, undelete, Stamping
<1>4. Prepared(s, s1, c, row)
  BY <1>1, <1>s1 DEF Live, Prepared
<1>3. /\ Len(steps) = 3
      /\ AllWithin(s, steps, c, k)
      /\ EditedRow(s, steps[3], c, d, k, row.deleted)
  BY <1>1, <1>4, <1>2, EditIs
<1> QED
  BY <1>1, <1>3

LEMMA LastAppended ==
  ASSUME NEW S, NEW q \in Seq(S), NEW x \in S
  PROVE  Last(Append(q, x)) = x
BY DEF Last

LEMMA FiveIn ==
  ASSUME NEW S, NEW s1 \in S, NEW s2 \in S, NEW s3 \in S, NEW s4 \in S, NEW s5 \in S
  PROVE  <<s1, s2, s3, s4, s5>> \in Seq(S)
OBVIOUS

LEMMA ImportIs ==
  ASSUME NEW s \in History, NEW c \in Content, NEW d \in Device, NEW b \in BOOLEAN,
         NEW k, k = tick_lamport(s).clock, NEW t, t = Last(import_entry(s, c, b, d))
  PROVE  Within(s, t, c, k) /\ StoredRow(s, t, c, d, k)
<1>st. PICK steps : steps = store(s, c, d)
  OBVIOUS
<1>1. /\ Len(steps) = 5 /\ DOMAIN steps = 1..5
      /\ \A i \in 1..5 : Within(s, steps[i], c, k) /\ steps[i].clock = k
      /\ StoredRow(s, steps[5], c, d, k)
  BY <1>st, StoreIs
<1>s5. PICK s5 : s5 = steps[5]
  OBVIOUS
<1>2. Within(s, s5, c, k) /\ StoredRow(s, s5, c, d, k) /\ s5 \in History
  BY <1>1, <1>s5 DEF Within
<1>3. CASE ~b
  BY <1>1, <1>2, <1>3, <1>st, <1>s5 DEF import_entry, Last
<1>4. CASE b
  <2>0. s5.rows[c] \in Row
    BY <1>2 DEF StoredRow, Fresh
  <2>row. PICK row : row = [s5.rows[c] EXCEPT !.pinned = TRUE]
    OBVIOUS
  <2>1. /\ row \in Row /\ row.lamport = s5.rows[c].lamport /\ row.deleted = s5.rows[c].deleted
        /\ row.device_id = s5.rows[c].device_id
        /\ row.sensitive = s5.rows[c].sensitive /\ row.blobs = s5.rows[c].blobs
    BY <2>0, <2>row DEF Row
  <2>2. t = Written(s5, c, row)
    <3>1. t = Last(Append(steps, set_pinned(s5, c, TRUE)))
      BY <1>1, <1>4, <1>st, <1>s5 DEF import_entry
    <3>x. PICK x : x = set_pinned(s5, c, TRUE)
      OBVIOUS
    <3>five. PICK a1, a2, a3, a4, a5 : steps = <<a1, a2, a3, a4, a5>>
      BY <1>st DEF store
    <3>seq. steps \in Seq({a1, a2, a3, a4, a5, x})
      <4>1. <<a1, a2, a3, a4, a5>> \in Seq({a1, a2, a3, a4, a5, x})
        BY FiveIn
      <4> QED
        BY <3>five, <4>1
    <3>2. t = x
      <4>1. t = Last(Append(steps, x))
        BY <3>1, <3>x
      <4>2. x \in {a1, a2, a3, a4, a5, x}
        OBVIOUS
      <4>3. Last(Append(steps, x)) = x
        BY <3>seq, <4>2, LastAppended
      <4> QED
        BY <4>1, <4>3
    <3> QED
      BY <3>2, <3>x, <2>row DEF set_pinned
  <2>3. row.lamport = k
    BY <1>2, <2>1 DEF StoredRow
  <2>4. /\ t \in History /\ t.clock = s5.clock
        /\ Within(s, t, c, k) /\ Fresh(s, t, c, k)
        /\ t.rows[c] = [row EXCEPT !.change_seq = s5.seq + 1]
    BY <1>2, <2>1, <2>2, <2>3, WithinWritten
  <2>5. /\ t.rows[c].lamport = row.lamport /\ t.rows[c].device_id = row.device_id /\ t.rows[c].deleted = row.deleted
        /\ t.rows[c].sensitive = row.sensitive /\ t.rows[c].blobs = row.blobs
    BY <2>1, <2>4 DEF Row
  <2> QED
    BY <1>2, <2>1, <2>4, <2>5 DEF StoredRow
<1> QED
  BY <1>3, <1>4

-----------------------------------------------------------------------------
(* What every history is like, and what any operation, finished or cut     *)
(* off, does to it.                                                        *)

(* The greatest Lamport value a user or a store may make. *)
Top == MAX_CLOCK + MAX_STORES

Sane(s) ==
  /\ s \in History /\ s.clock <= Top
  /\ \A c \in Content : Present(s, c) =>
       /\ s.rows[c].change_seq \in 1..s.seq
       /\ s.rows[c].lamport \in 1..Top

(* The row is the same to a reader of the feed, or has left it. *)
Held(row, new) ==
  /\ row # Absent
  /\ StampOf(new) = StampOf(row)
  /\ new.change_seq = row.change_seq
  /\ InFeed(new) /\ Sendable(new) => InFeed(row) /\ Sendable(row)

RowMoves(s, t, e) ==
  \/ t.rows[e] = Absent
  \/ t.rows[e].change_seq \in (s.seq + 1)..t.seq
  \/ Held(s.rows[e], t.rows[e])

Moves(s, t) ==
  /\ t.seq >= s.seq /\ t.clock >= s.clock
  /\ \A e \in Content : RowMoves(s, t, e)

LEMMA MovesSelf ==
  ASSUME NEW s \in History
  PROVE  Moves(s, s)
BY HistoryFacts DEF Moves, RowMoves, Held

LEMMA MovesTrans ==
  ASSUME NEW s \in History, NEW t \in History, NEW u \in History, Moves(s, t), Moves(t, u)
  PROVE  Moves(s, u)
<1>1. s.seq \in Nat /\ t.seq \in Nat /\ u.seq \in Nat /\ s.clock \in Nat /\ t.clock \in Nat /\ u.clock \in Nat
  BY HistoryFacts
<1>2. t.seq >= s.seq /\ u.seq >= t.seq /\ u.seq >= s.seq /\ u.clock >= s.clock
  BY <1>1 DEF Moves
<1>3. ASSUME NEW e \in Content PROVE RowMoves(s, u, e)
  <2>1. RowMoves(s, t, e) /\ RowMoves(t, u, e)
    BY DEF Moves
  <2>2. CASE u.rows[e] = Absent
    BY <2>2 DEF RowMoves
  <2>3. CASE u.rows[e].change_seq \in (t.seq + 1)..u.seq
    BY <1>1, <1>2, <2>3 DEF RowMoves
  <2>4. CASE Held(t.rows[e], u.rows[e])
    <3>1. t.rows[e] # Absent
      BY <2>4 DEF Held
    <3>2. CASE t.rows[e].change_seq \in (s.seq + 1)..t.seq
      <4>1. u.rows[e].change_seq = t.rows[e].change_seq
        BY <2>4 DEF Held
      <4> QED
        BY <1>1, <1>2, <3>2, <4>1 DEF RowMoves
    <3>3. CASE Held(s.rows[e], t.rows[e])
      BY <2>4, <3>3 DEF Held, RowMoves
    <3> QED
      BY <2>1, <3>1, <3>2, <3>3 DEF RowMoves
  <2> QED
    BY <2>1, <2>2, <2>3, <2>4 DEF RowMoves
<1> QED
  BY <1>2, <1>3 DEF Moves

LEMMA WithinMoves ==
  ASSUME NEW s \in History, NEW t, NEW c \in Content, NEW k, Within(s, t, c, k)
  PROVE  t \in History /\ Moves(s, t)
<1>1. \A e \in Content : RowMoves(s, t, e)
  <2> TAKE e \in Content
  <2>1. CASE t.rows[e] = s.rows[e]
    BY <2>1 DEF RowMoves, Held
  <2>2. CASE t.rows[e] # s.rows[e]
    <3>1. e = c /\ Fresh(s, t, c, k)
      BY <2>2 DEF Within, OnlyAt
    <3> QED
      BY <3>1 DEF Fresh, RowMoves
  <2> QED
    BY <2>1, <2>2
<1> QED
  BY <1>1 DEF Within, Moves

LEMMA WithinSane ==
  ASSUME NEW s, Sane(s), NEW t, NEW c \in Content, NEW k \in 1..Top, Within(s, t, c, k), t.clock <= Top
  PROVE  Sane(t)
<1>1. s \in History /\ t \in History /\ s.seq \in Nat /\ t.seq \in Nat /\ t.seq >= s.seq
  BY HistoryFacts DEF Sane, Within
<1>2. ASSUME NEW e \in Content, Present(t, e)
      PROVE  t.rows[e].change_seq \in 1..t.seq /\ t.rows[e].lamport \in 1..Top
  <2>1. CASE t.rows[e] = s.rows[e]
    <3>1. Present(s, e)
      BY <1>2, <2>1 DEF Present
    <3>2. s.rows[e].change_seq \in 1..s.seq /\ s.rows[e].lamport \in 1..Top
      BY <3>1 DEF Sane
    <3> QED
      BY <1>1, <2>1, <3>2
  <2>2. CASE t.rows[e] # s.rows[e]
    <3>1. e = c /\ Fresh(s, t, c, k)
      BY <2>2 DEF Within, OnlyAt
    <3>2. t.rows[e].change_seq \in (s.seq + 1)..t.seq
      BY <3>1 DEF Fresh
    <3>3. t.rows[e].lamport \in 1..Top
      BY <3>1 DEF Fresh, Sane
    <3> QED
      BY <1>1, <3>2, <3>3
  <2> QED
    BY <2>1, <2>2
<1> QED
  BY <1>1, <1>2 DEF Sane

LEMMA ClockMoves ==
  ASSUME NEW s, Sane(s), NEW t \in History, t.rows = s.rows, t.seq = s.seq, t.clock >= s.clock,
         t.clock <= Top
  PROVE  Sane(t) /\ Moves(s, t)
<1>1. s.seq \in Nat /\ s \in History
  BY HistoryFacts DEF Sane
<1>2. \A e \in Content : RowMoves(s, t, e)
  BY DEF RowMoves, Held
<1> QED
  BY <1>1, <1>2 DEF Sane, Moves, Present

(* A retention pass takes entries, or the payloads of tombstones. *)
SameEntry(row, new) ==
  /\ new \in Row /\ new.id = row.id
  /\ new.lamport = row.lamport /\ new.device_id = row.device_id
  /\ new.deleted = row.deleted /\ new.pinned = row.pinned /\ new.sensitive = row.sensitive
  /\ new.change_seq = row.change_seq
  /\ new.blobs = row.blobs \/ row.deleted = "user"

Thins(s, g) ==
  /\ g \in History /\ g.seq = s.seq /\ g.clock = s.clock
  /\ \A e \in Content : g.rows[e] # Absent => s.rows[e] \in Row /\ SameEntry(s.rows[e], g.rows[e])

LEMMA KeptIs ==
  ASSUME NEW d, NEW c \in Content, NEW row \in Row \cup {Absent}, NEW new \in Kept(d, c, row)
  PROVE  new = Absent \/ (row \in Row /\ SameEntry(row, new))
<1>1. CASE row = Absent
  BY <1>1 DEF Kept
<1>2. CASE row # Absent
  <2>1. row \in Row /\ row.deleted \in {"no", "user", "evicted"} /\ row.pinned \in BOOLEAN
    BY <1>2 DEF Row
  <2>2. SameEntry(row, row)
    BY <2>1 DEF SameEntry
  <2>3. CASE row.deleted = "evicted"
    BY <1>2, <2>3 DEF Kept
  <2>4. CASE row.deleted = "user"
    <3>1. new \in {row, [row EXCEPT !.blobs = FALSE], Absent}
      BY <1>2, <2>4 DEF Kept
    <3>2. SameEntry(row, [row EXCEPT !.blobs = FALSE])
      <4>x. PICK x : x = [row EXCEPT !.blobs = FALSE]
        OBVIOUS
      <4>1. x \in Row /\ x.id = row.id /\ x.lamport = row.lamport /\ x.device_id = row.device_id
            /\ x.deleted = row.deleted /\ x.pinned = row.pinned /\ x.sensitive = row.sensitive
            /\ x.change_seq = row.change_seq
        BY <2>1, <4>x DEF Row
      <4> QED
        BY <2>4, <4>x, <4>1 DEF SameEntry
    <3> QED
      BY <2>1, <2>2, <3>1, <3>2
  <2>5. CASE row.deleted = "no" /\ ~row.pinned
    BY <1>2, <2>1, <2>2, <2>5 DEF Kept
  <2>6. CASE row.deleted = "no" /\ row.pinned
    BY <1>2, <2>1, <2>2, <2>6 DEF Kept
  <2> QED
    BY <2>1, <2>3, <2>4, <2>5, <2>6
<1> QED
  BY <1>1, <1>2

LEMMA GarbageIs ==
  ASSUME NEW d, NEW s \in History, NEW fresh, NEW g \in collect_garbage(d, s, fresh)
  PROVE  Thins(s, g)
<1>1. s.rows \in [Content -> Row \cup {Absent}] /\ s.clock \in Nat /\ s.seq \in Nat
  BY HistoryFacts
<1>2. /\ g \in [rows : [Content -> {Absent} \cup UNION {Kept(d, c, s.rows[c]) : c \in Content}],
                clock : {s.clock}, seq : {s.seq}]
      /\ \A c \in Content : g.rows[c] \in Kept(d, c, s.rows[c]) \/ g.rows[c] = s.rows[c]
  BY DEF collect_garbage
<1>3. \A c \in Content : g.rows[c] = Absent \/ (s.rows[c] \in Row /\ SameEntry(s.rows[c], g.rows[c]))
  <2> TAKE c \in Content
  <2>1. s.rows[c] \in Row \cup {Absent}
    BY <1>1
  <2>2. CASE g.rows[c] \in Kept(d, c, s.rows[c])
    BY <2>1, <2>2, KeptIs
  <2>3. CASE g.rows[c] = s.rows[c]
    BY <2>1, <2>3 DEF SameEntry
  <2> QED
    BY <1>2, <2>2, <2>3
<1>rs. PICK rs : rs = g.rows
  OBVIOUS
<1>4. rs \in [Content -> Row \cup {Absent}]
  <2>1. DOMAIN rs = Content /\ rs = [c \in Content |-> rs[c]]
    BY <1>2, <1>rs
  <2>2. \A c \in Content : rs[c] \in Row \cup {Absent}
    BY <1>3, <1>rs DEF SameEntry
  <2> QED
    BY <2>1, <2>2
<1>5. g = [rows |-> rs, clock |-> s.clock, seq |-> s.seq]
  BY <1>2, <1>rs
<1>6. g \in History /\ g.seq = s.seq /\ g.clock = s.clock
  BY <1>1, <1>4, <1>5 DEF History
<1> QED
  BY <1>3, <1>6 DEF Thins

LEMMA ThinsMoves ==
  ASSUME NEW s \in History, NEW g, Thins(s, g)
  PROVE  g \in History /\ Moves(s, g) /\ (Sane(s) => Sane(g))
<1>1. g \in History /\ g.seq = s.seq /\ g.clock = s.clock /\ s.seq \in Nat /\ s.clock \in Nat
  BY HistoryFacts DEF Thins
<1>2. ASSUME NEW e \in Content, Present(g, e)
      PROVE  s.rows[e] \in Row /\ Present(s, e) /\ SameEntry(s.rows[e], g.rows[e])
  BY <1>2, RowsArePresent DEF Thins, Present
<1>3. \A e \in Content : RowMoves(s, g, e)
  <2> TAKE e \in Content
  <2>1. CASE g.rows[e] = Absent
    BY <2>1 DEF RowMoves
  <2>2. CASE g.rows[e] # Absent
    <3>1. SameEntry(s.rows[e], g.rows[e]) /\ Present(s, e) /\ s.rows[e] # Absent
      BY <1>2, <2>2 DEF Present
    <3>2. Held(s.rows[e], g.rows[e])
      BY <3>1 DEF Held, SameEntry, InFeed, Sendable, StampOf
    <3> QED
      BY <3>2 DEF RowMoves
  <2> QED
    BY <2>1, <2>2
<1>4. Sane(s) => Sane(g)
  BY <1>1, <1>2 DEF Sane, SameEntry
<1> QED
  BY <1>1, <1>3, <1>4 DEF Moves

LEMMA PurgedThins ==
  ASSUME NEW s \in History, NEW cs, NEW g, g = purged(s, cs)
  PROVE  Thins(s, g)
<1>1. s.rows \in [Content -> Row \cup {Absent}] /\ s.clock \in Nat /\ s.seq \in Nat
  BY HistoryFacts
<1>rs. PICK rs : rs = [c \in Content |-> IF c \in cs THEN Absent ELSE s.rows[c]]
  OBVIOUS
<1>2. rs \in [Content -> Row \cup {Absent}] /\ \A e \in Content : rs[e] = Absent \/ rs[e] = s.rows[e]
  BY <1>1, <1>rs
<1>3. g = [rows |-> rs, clock |-> s.clock, seq |-> s.seq]
  BY <1>rs DEF purged, History
<1>4. g \in History /\ g.seq = s.seq /\ g.clock = s.clock /\ g.rows = rs
  BY <1>1, <1>2, <1>3 DEF History
<1>5. ASSUME NEW e \in Content, g.rows[e] # Absent
      PROVE  s.rows[e] \in Row /\ SameEntry(s.rows[e], g.rows[e])
  <2>1. g.rows[e] = s.rows[e] /\ s.rows[e] \in Row
    BY <1>1, <1>2, <1>4, <1>5
  <2> QED
    BY <2>1 DEF SameEntry
<1> QED
  BY <1>4, <1>5 DEF Thins

LEMMA EvictIs ==
  ASSUME NEW s, Sane(s), NEW cs, \A c \in cs : c \in Content /\ Present(s, c),
         NEW t, t = evict(s, cs)[1]
  PROVE  Sane(t) /\ Moves(s, t)
<1>1. s \in History /\ s.rows \in [Content -> Row \cup {Absent}] /\ s.clock \in Nat /\ s.seq \in Nat
  BY HistoryFacts DEF Sane
<1>rs. PICK rs : rs = [c \in Content |->
        IF c \in cs THEN [s.rows[c] EXCEPT !.deleted = "evicted"] ELSE s.rows[c]]
  OBVIOUS
<1>2. \A e \in Content : e \notin cs => rs[e] = s.rows[e]
  BY <1>rs
<1>3. ASSUME NEW e \in Content, e \in cs
      PROVE  /\ s.rows[e] \in Row /\ s.rows[e] # Absent
             /\ rs[e] \in Row /\ rs[e].lamport = s.rows[e].lamport /\ rs[e].device_id = s.rows[e].device_id
             /\ rs[e].change_seq = s.rows[e].change_seq /\ rs[e].deleted = "evicted"
  <2>1. s.rows[e] \in Row /\ s.rows[e] # Absent
    BY <1>1, <1>3, HistoryFacts DEF Present
  <2>2. rs[e] = [s.rows[e] EXCEPT !.deleted = "evicted"]
    BY <1>3, <1>rs
  <2> QED
    BY <2>1, <2>2 DEF Row
<1>4. rs \in [Content -> Row \cup {Absent}]
  <2>1. \A e \in Content : rs[e] \in Row \cup {Absent}
    BY <1>1, <1>2, <1>3
  <2> QED
    BY <1>rs, <2>1
<1>5. t = [rows |-> rs, clock |-> s.clock, seq |-> s.seq]
  BY <1>1, <1>rs DEF evict, History
<1>6. t \in History /\ t.seq = s.seq /\ t.clock = s.clock /\ t.rows = rs
  BY <1>1, <1>4, <1>5 DEF History
<1>7. \A e \in Content : RowMoves(s, t, e)
  <2> TAKE e \in Content
  <2>1. CASE e \in cs
    <3>1. Held(s.rows[e], t.rows[e])
      BY <1>3, <1>6, <2>1 DEF Held, StampOf, InFeed
    <3> QED
      BY <3>1 DEF RowMoves
  <2>2. CASE e \notin cs
    BY <1>2, <1>6, <2>2 DEF RowMoves, Held
  <2> QED
    BY <2>1, <2>2
<1>8. ASSUME NEW e \in Content, Present(t, e)
      PROVE  t.rows[e].change_seq \in 1..t.seq /\ t.rows[e].lamport \in 1..Top
  <2>1. CASE e \in cs
    BY <1>3, <1>6, <2>1 DEF Sane, Present
  <2>2. CASE e \notin cs
    BY <1>2, <1>6, <1>8, <2>2 DEF Sane, Present
  <2> QED
    BY <2>1, <2>2
<1> QED
  BY <1>1, <1>6, <1>7, <1>8 DEF Sane, Moves

-----------------------------------------------------------------------------
(* Applying a record.                                                      *)
RemoteRow(s, t, r) ==
  LET c == r.content
  IN  /\ t.rows[c] \in Row
      /\ t.rows[c].lamport = r.lamport /\ t.rows[c].device_id = r.device_id
      /\ (t.rows[c].deleted # "no") = r.deleted
      /\ r.deleted \/ t.rows[c].pinned = r.pinned
      /\ t.rows[c].deleted = "evicted" => s.rows[c].deleted = "evicted"
      /\ t.rows[c].sensitive = s.rows[c].sensitive
      /\ t.rows[c].blobs = s.rows[c].blobs

LEMMA RecordFacts ==
  ASSUME NEW r \in Record
  PROVE  /\ r.content \in Content /\ r.lamport \in Nat /\ r.device_id \in Device
         /\ r.pinned \in BOOLEAN /\ r.deleted \in BOOLEAN
BY DEF Record

LEMMA RemoteIs ==
  ASSUME NEW g \in History, NEW r \in Record, NEW c, c = r.content, Present(g, c),
         NEW t, t = apply_remote_state(g, c, r)
  PROVE  /\ Within(g, t, c, r.lamport) /\ t.clock = g.clock
         /\ Fresh(g, t, c, r.lamport)
         /\ t.rows[c].lamport = r.lamport /\ t.rows[c].device_id = r.device_id
         /\ t.rows[c].pinned = r.pinned /\ t.rows[c].deleted = g.rows[c].deleted
         /\ t.rows[c].sensitive = g.rows[c].sensitive
         /\ t.rows[c].blobs = g.rows[c].blobs
<1>0. c \in Content /\ r.lamport \in Nat /\ r.device_id \in Device /\ r.pinned \in BOOLEAN
  BY RecordFacts
<1>row. PICK row : row = [g.rows[c] EXCEPT !.pinned    = r.pinned,
                                          !.lamport   = r.lamport,
                                          !.device_id = r.device_id]
  OBVIOUS
<1>1. g.rows[c] \in Row
  BY <1>0, HistoryFacts
<1>2. /\ row \in Row /\ row.lamport = r.lamport /\ row.device_id = r.device_id
      /\ row.pinned = r.pinned /\ row.deleted = g.rows[c].deleted
      /\ row.sensitive = g.rows[c].sensitive /\ row.blobs = g.rows[c].blobs
  BY <1>0, <1>1, <1>row DEF Row
<1>3. t = Written(g, c, row)
  BY <1>row DEF apply_remote_state
<1>4. /\ t \in History /\ t.clock = g.clock
      /\ Within(g, t, c, r.lamport) /\ Fresh(g, t, c, r.lamport)
      /\ t.rows[c] = [row EXCEPT !.change_seq = g.seq + 1]
  BY <1>0, <1>2, <1>3, WithinSelf, WithinWritten
<1>5. /\ t.rows[c].lamport = row.lamport /\ t.rows[c].device_id = row.device_id
      /\ t.rows[c].pinned = row.pinned /\ t.rows[c].deleted = row.deleted
      /\ t.rows[c].sensitive = row.sensitive /\ t.rows[c].blobs = row.blobs
  BY <1>2, <1>4 DEF Row
<1> QED
  BY <1>2, <1>4, <1>5

(* Everything but storing: the clock alone, or the record's state too. *)
Ignores(s, t, r) ==
  /\ t.rows = s.rows
  /\ ToStore(s, r) \/ ~Wins(s, r) \/ (r.deleted /\ ~Present(s, r.content))

Takes(s, t, r) ==
  /\ Wins(s, r) /\ Present(s, r.content)
  /\ r.deleted \/ Live(s, r.content)
  /\ Fresh(s, t, r.content, r.lamport)
  /\ RemoteRow(s, t, r)

Judges(s, t, r) == Ignores(s, t, r) \/ Takes(s, t, r)

ObservesAt(t, r) == r.lamport < LAMPORT_OBSERVE_LIMIT => t.clock >= r.lamport

LEMMA AppendedOne ==
  ASSUME NEW o, NEW u, NEW q, q = Append(<<o>>, u)
  PROVE  Len(q) = 2 /\ Last(q) = u /\ \A i \in 1..2 : q[i] \in {o, u}
<1>1. Len(q) = 2
  OBVIOUS
<1>2. q[1] = o /\ q[2] = u
  OBVIOUS
<1> QED
  BY <1>1, <1>2 DEF Last

LEMMA AppendedTwo ==
  ASSUME NEW o, NEW t, NEW u, NEW q, q = Append(<<o, t>>, u)
  PROVE  Len(q) = 3 /\ Last(q) = u /\ \A i \in 1..3 : q[i] \in {o, t, u}
<1>1. Len(q) = 3
  OBVIOUS
<1>2. q[1] = o /\ q[2] = t /\ q[3] = u
  OBVIOUS
<1> QED
  BY <1>1, <1>2 DEF Last

LEMMA AppliedIs ==
  ASSUME NEW s \in History, NEW r \in Record, NEW c, c = r.content,
         NEW steps, steps = Applied(s, r)
  PROVE  /\ Len(steps) \in Nat /\ Len(steps) > 0
         /\ AllWithin(s, steps, c, r.lamport)
         /\ Judges(s, Last(steps), r)
         /\ ObservesAt(Last(steps), r)
<1>0. c \in Content /\ r.lamport \in Nat /\ r.device_id \in Device /\ r.pinned \in BOOLEAN
      /\ r.deleted \in BOOLEAN
  BY RecordFacts
<1>o. PICK o : o = observe_lamport(s, r.lamport)
  OBVIOUS
<1>1. /\ o \in History /\ o.seq = s.seq /\ o.rows = s.rows /\ o.clock >= s.clock
      /\ o.clock \in {s.clock, r.lamport}
      /\ ObservesAt(o, r)
  BY <1>0, <1>o, ObserveIs DEF ObservesAt
<1>2. Within(s, o, c, r.lamport)
  BY <1>0, <1>1, WithinSelf, WithinClock
<1>3. Live(o, c) <=> Live(s, c)
  BY <1>1 DEF Live, Present
<1>4. CASE ~Wins(s, r) \/ (r.deleted /\ ~Present(s, c)) \/ ToStore(s, r)
  <2>1. steps = <<o>>
    BY <1>4, <1>o DEF Applied, ToStore
  <2>2. Len(steps) = 1 /\ steps[1] = o /\ Last(steps) = o
    BY <2>1 DEF Last
  <2>3. Judges(s, o, r)
    BY <1>1, <1>4 DEF Judges, Ignores
  <2> QED
    BY <1>1, <1>2, <2>2, <2>3 DEF AllWithin
<1>5. CASE Wins(s, r) /\ r.deleted /\ Present(s, c)
  <2>row. PICK row : row = [s.rows[c] EXCEPT !.deleted = "user"]
    OBVIOUS
  <2>t. PICK t : t = IF Live(o, c) THEN tombstone(o, c, "user") ELSE o
    OBVIOUS
  <2>1. /\ t \in History /\ Within(s, t, c, r.lamport) /\ t.clock = o.clock
        /\ t.rows[c] \in Row /\ t.rows[c].deleted # "no" /\ t.rows[c].sensitive = s.rows[c].sensitive
        /\ t.rows[c].blobs = s.rows[c].blobs
        /\ t.rows[c].deleted = "evicted" => s.rows[c].deleted = "evicted"
    <3>1. CASE Live(o, c)
      <4>1. o.rows[c] \in Row /\ o.rows[c] = s.rows[c]
        BY <1>0, <1>1, <3>1, HistoryFacts DEF Live
      <4>2. /\ row \in Row /\ row.lamport = o.rows[c].lamport /\ row.deleted = "user"
            /\ row.sensitive = s.rows[c].sensitive /\ row.blobs = s.rows[c].blobs
        BY <2>row, <4>1 DEF Row
      <4>3. t = Written(o, c, row)
        BY <2>row, <2>t, <3>1, <4>1 DEF tombstone
      <4>4. Present(o, c)
        BY <3>1 DEF Live
      <4>5. /\ t \in History /\ t.clock = o.clock
            /\ Within(s, t, c, r.lamport) /\ Fresh(s, t, c, r.lamport)
            /\ t.rows[c] = [row EXCEPT !.change_seq = o.seq + 1]
        BY <1>0, <1>1, <1>2, <4>2, <4>3, <4>4, WithinWritten
      <4>6. /\ t.rows[c].deleted = row.deleted /\ t.rows[c].sensitive = row.sensitive
            /\ t.rows[c].blobs = row.blobs
        BY <4>2, <4>5 DEF Row
      <4> QED
        BY <4>2, <4>5, <4>6 DEF Fresh
    <3>2. CASE ~Live(o, c)
      BY <1>0, <1>1, <1>2, <1>3, <1>5, <2>t, <3>2, HistoryFacts DEF Live
    <3> QED
      BY <3>1, <3>2
  <2>u. PICK u : u = stamp(t, c, r.lamport, r.device_id)
    OBVIOUS
  <2>new. PICK new : new = [t.rows[c] EXCEPT !.lamport = r.lamport, !.device_id = r.device_id]
    OBVIOUS
  <2>2. /\ new \in Row /\ new.lamport = r.lamport /\ new.device_id = r.device_id
        /\ new.deleted = t.rows[c].deleted /\ new.sensitive = t.rows[c].sensitive
        /\ new.blobs = t.rows[c].blobs
    BY <1>0, <2>1, <2>new DEF Row
  <2>3. u = Written(t, c, new)
    BY <2>u, <2>new DEF stamp
  <2>4. /\ u \in History /\ u.clock = t.clock
        /\ Within(s, u, c, r.lamport) /\ Fresh(s, u, c, r.lamport)
        /\ u.rows[c] = [new EXCEPT !.change_seq = t.seq + 1]
    BY <1>0, <2>1, <2>2, <2>3, WithinWritten
  <2>5. /\ u.rows[c].lamport = new.lamport /\ u.rows[c].device_id = new.device_id
        /\ u.rows[c].deleted = new.deleted /\ u.rows[c].sensitive = new.sensitive
        /\ u.rows[c].blobs = new.blobs
    BY <2>2, <2>4 DEF Row
  <2>12. u.rows[c] \in Row
    BY <2>4 DEF Fresh
  <2>6. RemoteRow(s, u, r)
    BY <1>5, <2>1, <2>2, <2>5, <2>12 DEF RemoteRow
  <2>7. Judges(s, u, r)
    BY <1>5, <2>4, <2>6 DEF Judges, Takes
  <2>8. steps = IF Live(o, c) THEN Append(<<o, t>>, u) ELSE Append(<<o>>, u)
    BY <1>5, <1>o, <2>t, <2>u DEF Applied, Last
  <2>9. /\ Len(steps) \in 2..3 /\ Last(steps) = u
        /\ \A i \in 1..Len(steps) : steps[i] \in {o, t, u}
    <3>1. CASE Live(o, c)
      <4>1. Len(steps) = 3 /\ Last(steps) = u /\ \A i \in 1..3 : steps[i] \in {o, t, u}
        BY <2>8, <3>1, AppendedTwo
      <4> QED
        BY <4>1
    <3>2. CASE ~Live(o, c)
      <4>1. Len(steps) = 2 /\ Last(steps) = u /\ \A i \in 1..2 : steps[i] \in {o, u}
        BY <2>8, <3>2, AppendedOne
      <4> QED
        BY <4>1
    <3> QED
      BY <3>1, <3>2
  <2>10. \A x \in {o, t, u} : Within(s, x, c, r.lamport) /\ x.clock \in {s.clock, r.lamport}
    BY <1>1, <1>2, <2>1, <2>4
  <2>11. ObservesAt(u, r)
    BY <1>1, <2>1, <2>4 DEF ObservesAt
  <2> QED
    BY <2>7, <2>9, <2>10, <2>11 DEF AllWithin
<1>6. CASE Wins(s, r) /\ ~r.deleted /\ Live(s, c)
  <2>t. PICK t : t = apply_remote_state(o, c, r)
    OBVIOUS
  <2>1. Present(o, c) /\ Present(s, c) /\ s.rows[c].deleted = "no" /\ o.rows[c] = s.rows[c]
    BY <1>1, <1>6, <1>3 DEF Live
  <2>2. /\ Within(o, t, c, r.lamport) /\ t.clock = o.clock
        /\ Fresh(o, t, c, r.lamport)
        /\ t.rows[c].lamport = r.lamport /\ t.rows[c].device_id = r.device_id
        /\ t.rows[c].pinned = r.pinned /\ t.rows[c].deleted = o.rows[c].deleted
        /\ t.rows[c].sensitive = o.rows[c].sensitive
        /\ t.rows[c].blobs = o.rows[c].blobs
    BY <1>1, <2>t, <2>1, RemoteIs
  <2>3. Within(s, t, c, r.lamport) /\ Fresh(s, t, c, r.lamport)
    <3>1. t \in History /\ t.clock \in Nat /\ s.clock \in Nat /\ o.clock \in Nat
      BY <1>1, <2>2, HistoryFacts DEF Within
    <3> QED
      BY <1>1, <2>2, <3>1 DEF Within, Fresh, OnlyAt, Present
  <2>4. RemoteRow(s, t, r)
    BY <1>0, <1>6, <2>1, <2>2 DEF RemoteRow, Fresh
  <2>5. Judges(s, t, r)
    BY <1>6, <2>1, <2>3, <2>4 DEF Judges, Takes
  <2>6. steps = <<o, t>>
    BY <1>6, <1>o, <2>t DEF Applied
  <2>7. Len(steps) = 2 /\ Last(steps) = t /\ \A i \in 1..Len(steps) : steps[i] \in {o, t}
    BY <2>6 DEF Last
  <2>8. \A x \in {o, t} : Within(s, x, c, r.lamport) /\ x.clock \in {s.clock, r.lamport}
    BY <1>1, <1>2, <2>2, <2>3
  <2>9. ObservesAt(t, r)
    BY <1>1, <2>2 DEF ObservesAt
  <2> QED
    BY <2>5, <2>7, <2>8, <2>9 DEF AllWithin
<1> QED
  BY <1>4, <1>5, <1>6 DEF ToStore

-----------------------------------------------------------------------------
(* The inductive invariant, first its part about types: clocks stay under  *)
(* the ceiling, no change_seq is above its counter, and no peer confirms   *)
(* more than there is.                                                     *)
HistoriesOK ==
  /\ history \in [Device -> History]
  /\ \A d \in Device : Sane(history[d])

TasksOK ==
  /\ suspended \in [Device -> SUBSET Task]
  /\ \A d \in Device : \A t \in suspended[d] :
       t.record.lamport \in 1..Top /\ <<t.from, d>> \in Pair

CursorsOK ==
  /\ cursor \in [Pair -> Nat]
  /\ \A dp \in Pair : cursor[dp] <= history[dp[1]].seq

BatchesOK ==
  /\ batch \in [Pair -> Batch \cup {None}]
  /\ \A dp \in Pair : batch[dp] # None =>
       /\ batch[dp].next <= history[dp[1]].seq
       /\ \A r \in batch[dp].todo : r.lamport \in 1..Top

Base ==
  /\ HistoriesOK
  /\ private \in [Device -> BOOLEAN]
  /\ TasksOK
  /\ CursorsOK
  /\ BatchesOK
  /\ heard \in [Device -> [Content -> Stamp]]

(* What all steps but Push and Confirm have in common. *)
Progress ==
  /\ history' \in [Device -> History]
  /\ \A d \in Device : Sane(history'[d]) /\ Moves(history[d], history'[d])

BatchesShrink ==
  /\ batch' \in [Pair -> Batch \cup {None}]
  /\ \A dp \in Pair :
       \/ batch'[dp] = None
       \/ /\ batch[dp] # None
          /\ batch'[dp].next = batch[dp].next
          /\ batch'[dp].todo \subseteq batch[dp].todo

CursorsKept ==
  /\ cursor' \in [Pair -> Nat]
  /\ \A dp \in Pair : cursor'[dp] = 0 \/ cursor'[dp] = cursor[dp]

HeardGrows ==
  /\ heard' \in [Device -> [Content -> Stamp]]
  /\ \A e \in Device : \A c \in Content : ~lww_wins(heard[e][c], heard'[e][c])

TasksKept ==
  /\ suspended' \in [Device -> SUBSET Task]
  /\ \A d \in Device : \A t \in suspended'[d] :
       t.record.lamport \in 1..Top /\ <<t.from, d>> \in Pair

(* A record leaves its batch when it has been judged. *)
Removed ==
  \A dp \in Pair : batch'[dp] # None => \A r \in batch[dp].todo :
    r \in batch'[dp].todo \/ ~lww_wins(StampOf(r), heard'[dp[2]][r.content])

QuietStep ==
  /\ Progress /\ BatchesShrink /\ CursorsKept /\ HeardGrows /\ TasksKept
  /\ private' \in [Device -> BOOLEAN]

LEMMA TopFacts ==
  MAX_CLOCK \in Nat /\ MAX_STORES \in Nat /\ Top \in Nat /\ MAX_CLOCK <= Top /\ Top < LAMPORT_CEILING
  /\ LAMPORT_CEILING \in Nat
BY BoundAssumption, LamportAssumption DEF Top

LEMMA TickTop ==
  ASSUME NEW s, Sane(s), NEW k, k = tick_lamport(s).clock, k <= Top
  PROVE  k \in 1..Top /\ k > s.clock
<1>t. PICK t : t = tick_lamport(s)
  OBVIOUS
<1>1. t \in History /\ t.clock > s.clock /\ t.clock = k /\ s \in History
  BY <1>t, TickIs DEF Sane
<1>2. k \in Nat /\ s.clock \in Nat
  BY <1>1, HistoryFacts
<1> QED
  BY <1>1, <1>2, TopFacts

LEMMA WriteProgress ==
  ASSUME HistoriesOK, NEW d \in Device, NEW t, Sane(t), Moves(history[d], t), Write(d, t)
  PROVE  Progress
<1>1. history' = [history EXCEPT ![d] = t] /\ t \in History
  BY DEF Write, Sane
<1>2. history' \in [Device -> History]
  BY <1>1 DEF HistoriesOK
<1>3. \A e \in Device : history'[e] = IF e = d THEN t ELSE history[e]
  BY <1>1 DEF HistoriesOK
<1>4. \A e \in Device : history[e] \in History /\ Sane(history[e]) /\ Moves(history[e], history[e])
  BY MovesSelf DEF HistoriesOK
<1> QED
  BY <1>2, <1>3, <1>4 DEF Progress

LEMMA StillProgress ==
  ASSUME HistoriesOK, UNCHANGED history
  PROVE  Progress
BY MovesSelf DEF HistoriesOK, Progress

LEMMA FinishProgress ==
  ASSUME HistoriesOK, NEW d \in Device, NEW t, Sane(t), Moves(history[d], t),
         NEW fresh, Finish(d, t, fresh)
  PROVE  Progress
<1>1. PICK g \in collect_garbage(d, t, fresh) : history' = [history EXCEPT ![d] = g]
  BY DEF Finish
<1>2. t \in History /\ history[d] \in History
  BY DEF Sane, HistoriesOK
<1>3. Thins(t, g)
  BY <1>2, GarbageIs
<1>4. g \in History /\ Moves(t, g) /\ Sane(g)
  BY <1>2, <1>3, ThinsMoves
<1>5. Moves(history[d], g)
  BY <1>2, <1>4, MovesTrans
<1> QED
  BY <1>1, <1>4, <1>5, WriteProgress DEF Write

LEMMA LocalOnlyQuiet ==
  ASSUME Base, Progress, LocalOnly
  PROVE  QuietStep /\ Removed
<1>1. BatchesShrink /\ CursorsKept /\ TasksKept /\ private' \in [Device -> BOOLEAN]
  BY DEF Base, LocalOnly, BatchesOK, CursorsOK, TasksOK, BatchesShrink, CursorsKept, TasksKept
<1>2. HeardGrows
  <2>1. heard' = heard /\ heard \in [Device -> [Content -> Stamp]]
    BY DEF Base, LocalOnly
  <2> QED
    BY <2>1, StampOrder DEF HeardGrows
<1>3. Removed
  BY DEF LocalOnly, Removed
<1> QED
  BY <1>1, <1>2, <1>3 DEF QuietStep

(* What the operations on one entry do, finished. *)
LEMMA WithinProgress ==
  ASSUME NEW s, Sane(s), NEW c \in Content, NEW k \in 1..Top, NEW t, Within(s, t, c, k),
         t.clock = s.clock \/ t.clock = k
  PROVE  Sane(t) /\ Moves(s, t)
<1>1. s \in History /\ s.clock <= Top /\ Top \in Nat
  BY TopFacts DEF Sane
<1>2. t.clock <= Top
  BY <1>1
<1> QED
  BY <1>1, <1>2, WithinSane, WithinMoves

-----------------------------------------------------------------------------
(* The users' operations, finished.  Every row is then as it was, up to a  *)
(* retention pass, or has the stamp of this change.                        *)

(* A row as a finished operation leaves it: marked when it is a secret,    *)
(* with its payloads when it is live, and no half done eviction.           *)
Tidy(c, row) ==
  /\ c \in Secret => row.sensitive = TRUE
  /\ c \notin Secret => row.sensitive = FALSE
  /\ row.deleted = "no" => row.blobs = TRUE
  /\ row.deleted # "evicted"

TidyAll(s) == \A e \in Content : Present(s, e) => Tidy(e, s.rows[e])

MadeHere(d, s, t, e) ==
  /\ t.clock = tick_lamport(s).clock
  /\ t.rows[e].lamport = t.clock
  /\ t.rows[e].device_id = d
  /\ TidyAll(s) => Tidy(e, t.rows[e])

LocalRow(d, s, t, c, e) ==
  Present(t, e) => \/ Present(s, e) /\ SameEntry(s.rows[e], t.rows[e])
                   \/ e = c /\ MadeHere(d, s, t, e)

LocalRows(d, s, t) == \E c : \A e \in Content : LocalRow(d, s, t, c, e)

(* Nothing is taken off a device. *)
Lasting ==
  /\ Happens \cap {"crash", "clear", "wipe", "evict", "forget"} = {}
  /\ Oversized = {}

Stays(s, t) == TidyAll(s) => \A e \in Content : Present(s, e) => Present(t, e)

LocalEnd(d, s, t) ==
  /\ Sane(t) /\ Moves(s, t)
  /\ LocalRows(d, s, t)
  /\ Lasting => Stays(s, t)

LocalStep(d) ==
  /\ LocalOnly
  /\ \E t : Write(d, t) /\ LocalEnd(d, history[d], t)

LEMMA SameIsSame ==
  ASSUME NEW row \in Row
  PROVE  SameEntry(row, row)
BY DEF SameEntry

LEMMA SameTidy ==
  ASSUME NEW c, NEW row, NEW new, SameEntry(row, new), Tidy(c, row)
  PROVE  Tidy(c, new)
BY DEF SameEntry, Tidy

LEMMA SameTrans ==
  ASSUME NEW row, NEW mid, NEW new, SameEntry(row, mid), SameEntry(mid, new)
  PROVE  SameEntry(row, new)
BY DEF SameEntry

LEMMA KeptLasts ==
  ASSUME Lasting, NEW d, NEW c, NEW row \in Row, row.deleted # "evicted"
  PROVE  Absent \notin Kept(d, c, row)
<1>1. row # Absent /\ row.deleted \in {"no", "user", "evicted"} /\ row.pinned \in BOOLEAN
  BY RowsArePresent DEF Row
<1>2. "forget" \notin Happens /\ "evict" \notin Happens /\ <<d, c>> \notin Oversized
  BY DEF Lasting
<1>3. CASE row.deleted = "user"
  <2>x. PICK x : x = [row EXCEPT !.blobs = FALSE]
    OBVIOUS
  <2>1. x \in Row
    BY <2>x DEF Row
  <2> QED
    BY <1>1, <1>2, <1>3, <2>x, <2>1, RowsArePresent DEF Kept
<1>4. CASE row.deleted = "no" /\ ~row.pinned
  BY <1>1, <1>2, <1>4 DEF Kept
<1>5. CASE row.deleted = "no" /\ row.pinned
  BY <1>1, <1>2, <1>5 DEF Kept
<1> QED
  BY <1>1, <1>3, <1>4, <1>5

LEMMA GarbageLasts ==
  ASSUME Lasting, NEW d, NEW s \in History, NEW fresh, NEW g \in collect_garbage(d, s, fresh),
         NEW e \in Content, Present(s, e), s.rows[e].deleted # "evicted"
  PROVE  Present(g, e)
<1>1. s.rows[e] \in Row /\ s.rows[e] # Absent
  BY HistoryFacts DEF Present
<1>2. g.rows[e] \in Kept(d, e, s.rows[e]) \/ g.rows[e] = s.rows[e]
  BY DEF collect_garbage
<1>3. Absent \notin Kept(d, e, s.rows[e])
  BY <1>1, KeptLasts
<1> QED
  BY <1>1, <1>2, <1>3 DEF Present

(* One entry was written. *)
LEMMA OnlyLocal ==
  ASSUME NEW d, NEW s \in History, NEW c \in Content, NEW t, t \in History, OnlyAt(s, t, c),
         MadeHere(d, s, t, c), Present(t, c)
  PROVE  LocalRows(d, s, t) /\ Stays(s, t)
<1>1. \A e \in Content : LocalRow(d, s, t, c, e)
  <2> TAKE e \in Content
  <2>1. CASE e = c
    BY <2>1 DEF LocalRow
  <2>2. CASE e # c
    <3>1. t.rows[e] = s.rows[e]
      BY <2>2 DEF OnlyAt
    <3>2. Present(t, e) => s.rows[e] \in Row
      BY <3>1, HistoryFacts
    <3> QED
      BY <3>1, <3>2, SameIsSame DEF LocalRow, Present
  <2> QED
    BY <2>1, <2>2
<1>2. \A e \in Content : Present(s, e) => Present(t, e)
  BY DEF OnlyAt, Present
<1> QED
  BY <1>1, <1>2 DEF LocalRows, Stays

LEMMA NothingLocal ==
  ASSUME NEW d, NEW s \in History, NEW t, Thins(s, t)
  PROVE  LocalRows(d, s, t)
<1>1. \A e \in Content : LocalRow(d, s, t, 0, e)
  BY RowsArePresent DEF LocalRow, Thins, Present
<1> QED
  BY <1>1 DEF LocalRows

LEMMA StoredLocal ==
  ASSUME NEW d, NEW s, Sane(s), NEW c \in Content, NEW k \in 1..Top, k = tick_lamport(s).clock,
         NEW t, Within(s, t, c, k), StoredRow(s, t, c, d, k)
  PROVE  LocalEnd(d, s, t)
<1>1. s \in History /\ t \in History /\ OnlyAt(s, t, c)
  BY DEF Sane, Within
<1>2. Present(t, c) /\ t.clock = k
  BY <1>1, HistoryFacts DEF StoredRow, Fresh
<1>3. MadeHere(d, s, t, c)
  <2>1. ASSUME TidyAll(s) PROVE Tidy(c, t.rows[c])
    <3>1. c \notin Secret /\ Live(s, c) => s.rows[c].sensitive = FALSE
      BY <2>1 DEF TidyAll, Tidy, Live
    <3>2. c \notin Secret => t.rows[c].sensitive = FALSE
      BY <3>1 DEF StoredRow
    <3> QED
      BY <3>2 DEF StoredRow, Tidy
  <2> QED
    BY <2>1 DEF StoredRow, MadeHere
<1>4. LocalRows(d, s, t) /\ Stays(s, t)
  BY <1>1, <1>2, <1>3, OnlyLocal
<1>5. Sane(t) /\ Moves(s, t)
  BY <1>2, WithinProgress
<1> QED
  BY <1>4, <1>5 DEF LocalEnd

LEMMA EditedLocal ==
  ASSUME NEW d, NEW s, Sane(s), NEW c \in Content, NEW k \in 1..Top, k = tick_lamport(s).clock,
         NEW deleted, Present(s, c), deleted \in {"user", "no"} \/ deleted = s.rows[c].deleted,
         deleted = "no" => s.rows[c].deleted = "no" \/ s.rows[c].blobs = TRUE,
         NEW t, Within(s, t, c, k), EditedRow(s, t, c, d, k, deleted)
  PROVE  LocalEnd(d, s, t)
<1>1. s \in History /\ t \in History /\ OnlyAt(s, t, c)
  BY DEF Sane, Within
<1>2. Present(t, c) /\ t.clock = k
  BY <1>1, HistoryFacts DEF EditedRow, Fresh
<1>3. MadeHere(d, s, t, c)
  <2>1. ASSUME TidyAll(s) PROVE Tidy(c, t.rows[c])
    <3>1. Tidy(c, s.rows[c])
      BY <2>1 DEF TidyAll
    <3> QED
      BY <3>1 DEF EditedRow, Tidy
  <2> QED
    BY <2>1 DEF EditedRow, MadeHere
<1>4. LocalRows(d, s, t) /\ Stays(s, t)
  BY <1>1, <1>2, <1>3, OnlyLocal
<1>5. Sane(t) /\ Moves(s, t)
  BY <1>2, WithinProgress
<1> QED
  BY <1>4, <1>5 DEF LocalEnd

(* The retention pass after it. *)
LEMMA CollectedLocal ==
  ASSUME NEW d, NEW s, Sane(s), NEW t, LocalEnd(d, s, t), NEW fresh,
         NEW g \in collect_garbage(d, t, fresh)
  PROVE  LocalEnd(d, s, g)
<1>1. s \in History /\ t \in History
  BY DEF Sane, LocalEnd
<1>2. Thins(t, g)
  BY <1>1, GarbageIs
<1>3. g \in History /\ Moves(t, g) /\ Sane(g) /\ g.clock = t.clock
  BY <1>1, <1>2, ThinsMoves DEF LocalEnd, Thins
<1>4. Moves(s, g)
  BY <1>1, <1>3, MovesTrans DEF LocalEnd
<1>5. PICK c : \A e \in Content : LocalRow(d, s, t, c, e)
  BY DEF LocalEnd, LocalRows
<1>6. ASSUME NEW e \in Content, Present(g, e)
      PROVE  (Present(s, e) /\ SameEntry(s.rows[e], g.rows[e])) \/ (e = c /\ MadeHere(d, s, g, e))
  <2>1. Present(t, e) /\ SameEntry(t.rows[e], g.rows[e])
    BY <1>2, <1>6, RowsArePresent DEF Thins, Present
  <2>2. CASE Present(s, e) /\ SameEntry(s.rows[e], t.rows[e])
    BY <2>1, <2>2, SameTrans
  <2>3. CASE e = c /\ MadeHere(d, s, t, e)
    <3>1. TidyAll(s) => Tidy(e, g.rows[e])
      BY <2>1, <2>3, SameTidy DEF MadeHere
    <3>2. g.rows[e].lamport = t.rows[e].lamport /\ g.rows[e].device_id = t.rows[e].device_id
      BY <2>1 DEF SameEntry
    <3> QED
      BY <1>3, <2>3, <3>1, <3>2 DEF MadeHere
  <2> QED
    BY <1>5, <2>1, <2>2, <2>3 DEF LocalRow
<1>7. LocalRows(d, s, g)
  BY <1>6 DEF LocalRows, LocalRow
<1>8. ASSUME Lasting, TidyAll(s), NEW e \in Content, Present(s, e)
      PROVE  Present(g, e)
  <2>1. Present(t, e)
    BY <1>8 DEF LocalEnd, Stays
  <2>2. Tidy(e, s.rows[e])
    BY <1>8 DEF TidyAll
  <2>3. Tidy(e, t.rows[e])
    BY <1>5, <1>8, <2>1, <2>2, SameTidy DEF LocalRow, MadeHere
  <2> QED
    BY <1>1, <1>8, <2>1, <2>3, GarbageLasts DEF Tidy
<1> QED
  BY <1>3, <1>4, <1>7, <1>8 DEF LocalEnd, Stays

LEMMA FinishLocal ==
  ASSUME HistoriesOK, NEW d \in Device, NEW t, LocalEnd(d, history[d], t), NEW fresh,
         Finish(d, t, fresh), LocalOnly
  PROVE  LocalStep(d)
<1>1. PICK g \in collect_garbage(d, t, fresh) : history' = [history EXCEPT ![d] = g]
  BY DEF Finish
<1>2. Sane(history[d])
  BY DEF HistoriesOK
<1>3. LocalEnd(d, history[d], g)
  BY <1>2, CollectedLocal
<1> QED
  BY <1>1, <1>3 DEF LocalStep, Write

LEMMA MayTickTop ==
  ASSUME Base, NEW d \in Device, MayTick(d), NEW s, s = history[d],
         NEW k, k = tick_lamport(s).clock
  PROVE  Sane(s) /\ s \in History /\ k \in 1..Top
<1>1. Sane(s) /\ s \in History
  BY DEF Base, HistoriesOK, Sane
<1>2. k <= MAX_CLOCK
  BY DEF MayTick
<1>3. k \in Nat
  BY <1>1, TickIs, HistoryFacts
<1> QED
  BY <1>1, <1>2, <1>3, TickTop, TopFacts

LEMMA CaptureLocal ==
  ASSUME Base, NEW d \in Device, NEW c \in Content, Capture(d, c)
  PROVE  LocalStep(d)
<1>s. PICK s : s = history[d]
  OBVIOUS
<1>k. PICK k : k = tick_lamport(s).clock
  OBVIOUS
<1>st. PICK steps : steps = store(s, c, d)
  OBVIOUS
<1>1. HistoriesOK /\ Sane(s) /\ s \in History /\ k \in 1..Top
  BY <1>s, <1>k, MayTickTop DEF Capture, Base
<1>4. /\ Len(steps) = 5
      /\ \A i \in 1..5 : Within(s, steps[i], c, k) /\ steps[i].clock = k
      /\ StoredRow(s, steps[5], c, d, k)
  BY <1>1, <1>k, <1>st, StoreIs
<1>t. PICK t : t = steps[5]
  OBVIOUS
<1>5. LocalEnd(d, s, t)
  BY <1>1, <1>4, <1>k, <1>t, StoredLocal
<1>6. Finish(d, t, {c}) /\ LocalOnly
  BY <1>4, <1>s, <1>st, <1>t DEF Capture, Last
<1> QED
  BY <1>1, <1>5, <1>6, <1>s, FinishLocal

LEMMA LastOfThree ==
  ASSUME NEW s, NEW steps, Len(steps) = 3, NEW c, NEW k, AllWithin(s, steps, c, k),
         NEW t, t = Last(steps)
  PROVE  t = steps[3] /\ Within(s, t, c, k)
BY DEF Last, AllWithin

LEMMA PinLocal ==
  ASSUME Base, NEW d \in Device, NEW c \in Content, NEW b \in BOOLEAN, SetPinned(d, c, b)
  PROVE  LocalStep(d)
<1>s. PICK s : s = history[d]
  OBVIOUS
<1>k. PICK k : k = tick_lamport(s).clock
  OBVIOUS
<1>st. PICK steps : steps = pin(s, c, b, d)
  OBVIOUS
<1>1. HistoriesOK /\ Sane(s) /\ s \in History /\ k \in 1..Top
  BY <1>s, <1>k, MayTickTop DEF SetPinned, Base
<1>2. Present(s, c)
  BY <1>s DEF SetPinned
<1>4. /\ Len(steps) = 3
      /\ AllWithin(s, steps, c, k)
      /\ EditedRow(s, steps[3], c, d, k, s.rows[c].deleted)
  BY <1>1, <1>2, <1>k, <1>st, PinIs
<1>t. PICK t : t = Last(steps)
  OBVIOUS
<1>5. Within(s, t, c, k) /\ EditedRow(s, t, c, d, k, s.rows[c].deleted)
  BY <1>4, <1>t, LastOfThree
<1>6. LocalEnd(d, s, t)
  BY <1>1, <1>2, <1>5, <1>k, EditedLocal
<1>7. Write(d, t) /\ LocalOnly
  BY <1>s, <1>st, <1>t DEF SetPinned
<1> QED
  BY <1>6, <1>7, <1>s DEF LocalStep

LEMMA DeleteLocal ==
  ASSUME Base, NEW d \in Device, NEW c \in Content, Delete(d, c)
  PROVE  LocalStep(d)
<1>s. PICK s : s = history[d]
  OBVIOUS
<1>k. PICK k : k = tick_lamport(s).clock
  OBVIOUS
<1>st. PICK steps : steps = delete(s, c, d)
  OBVIOUS
<1>1. HistoriesOK /\ Sane(s) /\ s \in History /\ k \in 1..Top
  BY <1>s, <1>k, MayTickTop DEF Delete, Base
<1>2. Present(s, c)
  BY <1>s DEF Delete, Live
<1>4. /\ Len(steps) = 3
      /\ AllWithin(s, steps, c, k)
      /\ EditedRow(s, steps[3], c, d, k, "user")
  BY <1>1, <1>2, <1>k, <1>st, DeleteIs
<1>t. PICK t : t = Last(steps)
  OBVIOUS
<1>5. Within(s, t, c, k) /\ EditedRow(s, t, c, d, k, "user")
  BY <1>4, <1>t, LastOfThree
<1>6. LocalEnd(d, s, t)
  BY <1>1, <1>2, <1>5, <1>k, EditedLocal
<1>7. Finish(d, t, {c}) /\ LocalOnly
  BY <1>s, <1>st, <1>t DEF Delete
<1> QED
  BY <1>1, <1>6, <1>7, <1>s, FinishLocal

LEMMA RestoreLocal ==
  ASSUME Base, NEW d \in Device, NEW c \in Content, Restore(d, c)
  PROVE  LocalStep(d)
<1>s. PICK s : s = history[d]
  OBVIOUS
<1>k. PICK k : k = tick_lamport(s).clock
  OBVIOUS
<1>st. PICK steps : steps = restore(s, c, d)
  OBVIOUS
<1>1. HistoriesOK /\ Sane(s) /\ s \in History /\ k \in 1..Top
  BY <1>s, <1>k, MayTickTop DEF Restore, Restorable, Base
<1>2. Present(s, c)
  BY <1>s DEF Restore, Restorable
<1>3. s.rows[c].deleted = "no" \/ s.rows[c].blobs = TRUE
  <2>1. s.rows[c] \in Row
    BY <1>1, <1>2, HistoryFacts
  <2>2. s.rows[c].deleted \in {"no", "user", "evicted"} /\ s.rows[c].blobs \in BOOLEAN
    BY <2>1 DEF Row
  <2>3. CASE s.rows[c].deleted = "user"
    <3>1. s.rows[c].blobs
      BY <1>s, <2>3 DEF Restore, Restorable
    <3> QED
      BY <2>2, <3>1
  <2>4. CASE s.rows[c].deleted = "evicted"
    BY <1>s, <2>4 DEF Restore, Restorable
  <2> QED
    BY <2>2, <2>3, <2>4
<1>4. /\ Len(steps) = 3
      /\ AllWithin(s, steps, c, k)
      /\ EditedRow(s, steps[3], c, d, k, "no")
  BY <1>1, <1>2, <1>k, <1>st, RestoreIs
<1>t. PICK t : t = Last(steps)
  OBVIOUS
<1>5. Within(s, t, c, k) /\ EditedRow(s, t, c, d, k, "no")
  BY <1>4, <1>t, LastOfThree
<1>6. LocalEnd(d, s, t)
  BY <1>1, <1>2, <1>3, <1>5, <1>k, EditedLocal
<1>7. Write(d, t) /\ LocalOnly
  BY <1>s, <1>st, <1>t DEF Restore, Restorable
<1> QED
  BY <1>6, <1>7, <1>s DEF LocalStep

LEMMA ImportLocal ==
  ASSUME Base, NEW d \in Device, NEW c \in Content, NEW b \in BOOLEAN, Import(d, c, b)
  PROVE  LocalStep(d)
<1>s. PICK s : s = history[d]
  OBVIOUS
<1>k. PICK k : k = tick_lamport(s).clock
  OBVIOUS
<1>1. HistoriesOK /\ Sane(s) /\ s \in History /\ k \in 1..Top
  BY <1>s, <1>k, MayTickTop DEF Import, Base
<1>t. PICK t : t = Last(import_entry(s, c, b, d))
  OBVIOUS
<1>5. Within(s, t, c, k) /\ StoredRow(s, t, c, d, k)
  BY <1>1, <1>k, <1>t, ImportIs
<1>6. LocalEnd(d, s, t)
  BY <1>1, <1>5, <1>k, StoredLocal
<1>7. Write(d, t) /\ LocalOnly
  BY <1>s, <1>t DEF Import
<1> QED
  BY <1>6, <1>7, <1>s DEF LocalStep

LEMMA ThinsLocal ==
  ASSUME NEW d, NEW s, Sane(s), NEW t, Thins(s, t), Lasting => Stays(s, t)
  PROVE  LocalEnd(d, s, t)
<1>1. s \in History
  BY DEF Sane
<1> QED
  BY <1>1, ThinsMoves, NothingLocal DEF LocalEnd

LEMMA SelfThins ==
  ASSUME NEW s \in History
  PROVE  Thins(s, s)
<1>1. \A e \in Content : s.rows[e] # Absent => s.rows[e] \in Row /\ SameEntry(s.rows[e], s.rows[e])
  BY HistoryFacts, SameIsSame DEF Present
<1> QED
  BY <1>1 DEF Thins

LEMMA ClearLocal ==
  ASSUME Base, NEW d \in Device, Clear(d)
  PROVE  LocalStep(d)
<1>s. PICK s : s = history[d]
  OBVIOUS
<1>1. HistoriesOK /\ Sane(s) /\ s \in History
  BY <1>s DEF Base, HistoriesOK, Sane
<1>t. PICK t : t = purged(s, Unpinned(s))
  OBVIOUS
<1>2. Thins(s, t)
  BY <1>1, <1>t, PurgedThins
<1>3. ~Lasting
  BY DEF Clear, Lasting
<1>4. LocalEnd(d, s, t)
  BY <1>1, <1>2, <1>3, ThinsLocal
<1>5. t = Last(evict(s, Unpinned(s)))
  BY <1>t DEF evict, Last
<1>6. Finish(d, t, {}) /\ LocalOnly
  BY <1>s, <1>5 DEF Clear
<1> QED
  BY <1>1, <1>4, <1>6, <1>s, FinishLocal

LEMMA WipeLocal ==
  ASSUME Base, NEW d \in Device, Wipe(d)
  PROVE  LocalStep(d)
<1>s. PICK s : s = history[d]
  OBVIOUS
<1>1. HistoriesOK /\ Sane(s) /\ s \in History
  BY <1>s DEF Base, HistoriesOK, Sane
<1>t. PICK t : t = purged(s, Content)
  OBVIOUS
<1>2. Thins(s, t)
  BY <1>1, <1>t, PurgedThins
<1>3. ~Lasting
  BY DEF Wipe, Lasting
<1>4. LocalEnd(d, s, t)
  BY <1>1, <1>2, <1>3, ThinsLocal
<1>6. Write(d, t) /\ LocalOnly
  BY <1>s, <1>t DEF Wipe
<1> QED
  BY <1>4, <1>6, <1>s DEF LocalStep

LEMMA MaintainLocal ==
  ASSUME Base, NEW d \in Device, Maintain(d)
  PROVE  LocalStep(d)
<1>s. PICK s : s = history[d]
  OBVIOUS
<1>1. HistoriesOK /\ Sane(s) /\ s \in History
  BY <1>s DEF Base, HistoriesOK, Sane
<1>2. LocalEnd(d, s, s)
  BY <1>1, SelfThins, ThinsLocal DEF Stays
<1>3. Finish(d, s, {}) /\ LocalOnly
  BY <1>s DEF Maintain
<1> QED
  BY <1>1, <1>2, <1>3, <1>s, FinishLocal

LEMMA LocalQuiet ==
  ASSUME Base, NEW d \in Device, LocalStep(d)
  PROVE  QuietStep /\ Removed
<1>1. PICK t : Write(d, t) /\ LocalEnd(d, history[d], t)
  BY DEF LocalStep
<1>2. Progress
  BY <1>1, WriteProgress DEF Base, LocalEnd
<1> QED
  BY <1>2, LocalOnlyQuiet DEF LocalStep

-----------------------------------------------------------------------------
(* Batches and what has been heard.                                        *)
LEMMA PairFacts ==
  ASSUME NEW dp \in Pair
  PROVE  dp[1] \in Device /\ dp[2] \in Device /\ dp[1] # dp[2] /\ dp = <<dp[1], dp[2]>>
BY DEF Pair

LEMMA BatchFacts ==
  ASSUME BatchesOK, NEW dp \in Pair, batch[dp] # None
  PROVE  /\ batch[dp] \in Batch /\ batch[dp].todo \subseteq Record /\ batch[dp].next \in Nat
         /\ \A r \in batch[dp].todo : r \in Record /\ r.lamport \in 1..Top
BY DEF BatchesOK, Batch

OthersKeep(dp) == \A x \in Pair : x # dp => batch'[x] = batch[x]

LEMMA GiveUpIs ==
  ASSUME BatchesOK, NEW d, NEW p, NEW dp \in Pair, dp = <<d, p>>, GiveUp(d, p)
  PROVE  BatchesShrink /\ Removed /\ batch'[dp] = None /\ OthersKeep(dp)
<1>1. batch' = [batch EXCEPT ![dp] = None] /\ batch \in [Pair -> Batch \cup {None}]
  BY DEF GiveUp, BatchesOK
<1>2. batch' \in [Pair -> Batch \cup {None}] /\ batch'[dp] = None /\ OthersKeep(dp)
  BY <1>1 DEF OthersKeep
<1> QED
  BY <1>2 DEF BatchesShrink, Removed, OthersKeep

LEMMA SetStateIs ==
  ASSUME BatchesOK, NEW d, NEW p, NEW dp \in Pair, dp = <<d, p>>, batch[dp] # None,
         NEW state \in {"sent", "checked", "waiting"}, SetState(d, p, state)
  PROVE  /\ BatchesShrink /\ Removed /\ OthersKeep(dp)
         /\ batch'[dp] # None /\ batch'[dp].todo = batch[dp].todo /\ batch'[dp].next = batch[dp].next
<1>b. PICK b : b = batch[dp]
  OBVIOUS
<1>1. b \in Batch
  BY <1>b, BatchFacts
<1>n. PICK n : n = [b EXCEPT !.state = state]
  OBVIOUS
<1>2. n \in Batch /\ n.todo = b.todo /\ n.next = b.next
  BY <1>1, <1>n DEF Batch
<1>3. batch' = [batch EXCEPT ![dp] = n] /\ batch \in [Pair -> Batch \cup {None}]
  BY <1>b, <1>n DEF SetState, BatchesOK
<1>4. batch' \in [Pair -> Batch \cup {None}] /\ batch'[dp] = n /\ OthersKeep(dp)
  BY <1>2, <1>3 DEF OthersKeep
<1>5. batch'[dp].todo = batch[dp].todo /\ batch'[dp].next = batch[dp].next /\ batch'[dp] # None
  BY <1>2, <1>4, <1>b, BatchesAreThere
<1> QED
  BY <1>4, <1>5 DEF BatchesShrink, Removed, OthersKeep

LEMMA DoneIs ==
  ASSUME BatchesOK, NEW d, NEW p, NEW dp \in Pair, dp = <<d, p>>, batch[dp] # None,
         NEW r, Done(d, p, r)
  PROVE  /\ BatchesShrink /\ OthersKeep(dp)
         /\ batch'[dp] # None /\ batch'[dp].todo = batch[dp].todo \ {r} /\ batch'[dp].next = batch[dp].next
         /\ ~lww_wins(StampOf(r), heard'[p][r.content]) => Removed
<1>b. PICK b : b = batch[dp]
  OBVIOUS
<1>1. b \in Batch
  BY <1>b, BatchFacts
<1>n. PICK n : n = [b EXCEPT !.todo = b.todo \ {r}, !.state = "checked"]
  OBVIOUS
<1>2. n \in Batch /\ n.todo = b.todo \ {r} /\ n.next = b.next
  BY <1>1, <1>n DEF Batch
<1>3. batch' = [batch EXCEPT ![dp] = n] /\ batch \in [Pair -> Batch \cup {None}]
  <2>1. batch' = [batch EXCEPT ![dp] =
                    [batch[dp] EXCEPT !.todo = batch[dp].todo \ {r}, !.state = "checked"]]
    BY DEF Done
  <2> QED
    BY <1>b, <1>n, <2>1 DEF BatchesOK
<1>4. batch' \in [Pair -> Batch \cup {None}] /\ batch'[dp] = n /\ OthersKeep(dp)
  BY <1>2, <1>3 DEF OthersKeep
<1>5. batch'[dp].todo = batch[dp].todo \ {r} /\ batch'[dp].next = batch[dp].next /\ batch'[dp] # None
  BY <1>2, <1>4, <1>b, BatchesAreThere
<1>6. BatchesShrink
  BY <1>4, <1>5 DEF BatchesShrink, OthersKeep
<1>7. ASSUME ~lww_wins(StampOf(r), heard'[p][r.content]) PROVE Removed
  <2>1. dp[2] = p
    OBVIOUS
  <2> QED
    BY <1>4, <1>5, <1>7, <2>1 DEF Removed, OthersKeep
<1> QED
  BY <1>4, <1>5, <1>6, <1>7

(* What a device has heard of one entry, of the others what it had. *)
HeardElsewhere(p, c) ==
  \A e \in Device : \A x \in Content : e # p \/ x # c => heard'[e][x] = heard[e][x]

LEMMA HeardIs ==
  ASSUME heard \in [Device -> [Content -> Stamp]], NEW p \in Device, NEW r \in Record, Heard(p, r)
  PROVE  /\ HeardGrows /\ HeardElsewhere(p, r.content)
         /\ ~lww_wins(StampOf(r), heard'[p][r.content])
         /\ heard'[p][r.content] \in {StampOf(r), heard[p][r.content]}
<1>c. PICK c : c = r.content
  OBVIOUS
<1>h. PICK h : h = heard[p]
  OBVIOUS
<1>n. PICK n : n = IF lww_wins(StampOf(r), h[c]) THEN StampOf(r) ELSE h[c]
  OBVIOUS
<1>1. c \in Content /\ StampOf(r) \in Stamp /\ h \in [Content -> Stamp] /\ h[c] \in Stamp
  BY <1>c, <1>h, RecordFacts, RecordStamps
<1>2. n \in Stamp /\ ~lww_wins(StampOf(r), n) /\ ~lww_wins(h[c], n) /\ n \in {StampOf(r), h[c]}
  <2>1. CASE lww_wins(StampOf(r), h[c])
    BY <1>1, <1>n, <2>1, StampOrder
  <2>2. CASE ~lww_wins(StampOf(r), h[c])
    BY <1>1, <1>n, <2>2, StampOrder
  <2> QED
    BY <2>1, <2>2
<1>m. PICK m : m = [h EXCEPT ![c] = n]
  OBVIOUS
<1>3. m \in [Content -> Stamp] /\ m[c] = n /\ \A x \in Content : x # c => m[x] = h[x]
  BY <1>1, <1>2, <1>m
<1>4. heard' = [heard EXCEPT ![p] = m]
  BY <1>1, <1>c, <1>h, <1>n, <1>m DEF Heard
<1>5. /\ heard' \in [Device -> [Content -> Stamp]] /\ heard'[p] = m
      /\ \A e \in Device : e # p => heard'[e] = heard[e]
  BY <1>3, <1>4
<1>6. HeardElsewhere(p, c)
  BY <1>3, <1>5, <1>h DEF HeardElsewhere
<1>7. \A e \in Device : \A x \in Content : ~lww_wins(heard[e][x], heard'[e][x])
  <2> TAKE e \in Device
  <2> TAKE x \in Content
  <2>1. CASE e = p /\ x = c
    BY <1>2, <1>3, <1>5, <1>h, <2>1
  <2>2. CASE e # p \/ x # c
    <3>1. heard'[e][x] = heard[e][x] /\ heard[e][x] \in Stamp
      BY <1>6, <2>2 DEF HeardElsewhere
    <3> QED
      BY <3>1, StampOrder
  <2> QED
    BY <2>1, <2>2
<1> QED
  BY <1>2, <1>3, <1>5, <1>6, <1>7, <1>c, <1>h DEF HeardGrows

LEMMA HeardStill ==
  ASSUME heard \in [Device -> [Content -> Stamp]], UNCHANGED heard
  PROVE  HeardGrows
BY StampOrder DEF HeardGrows

LEMMA CursorStill ==
  ASSUME CursorsOK, UNCHANGED cursor
  PROVE  CursorsKept
BY DEF CursorsOK, CursorsKept

LEMMA TasksStill ==
  ASSUME TasksOK, UNCHANGED suspended
  PROVE  TasksKept
BY DEF TasksOK, TasksKept

LEMMA TogglePrivateQuiet ==
  ASSUME Base, NEW d \in Device, TogglePrivate(d)
  PROVE  QuietStep /\ Removed
<1>1. Progress /\ CursorsKept /\ HeardGrows /\ TasksKept
  BY StillProgress, CursorStill, HeardStill, TasksStill DEF Base, TogglePrivate
<1>2. BatchesShrink /\ Removed
  BY DEF Base, TogglePrivate, BatchesOK, BatchesShrink, Removed
<1>3. private' \in [Device -> BOOLEAN]
  BY DEF Base, TogglePrivate
<1> QED
  BY <1>1, <1>2, <1>3 DEF QuietStep

LEMMA DropQuiet ==
  ASSUME Base, NEW dp \in Pair, Drop(dp[1], dp[2])
  PROVE  QuietStep /\ Removed
<1>1. Progress /\ CursorsKept /\ HeardGrows /\ TasksKept /\ private' \in [Device -> BOOLEAN]
  BY StillProgress, CursorStill, HeardStill, TasksStill DEF Base, Drop
<1>2. BatchesShrink /\ Removed
  BY PairFacts, GiveUpIs DEF Base, Drop
<1> QED
  BY <1>1, <1>2 DEF QuietStep

LEMMA RejoinQuiet ==
  ASSUME Base, NEW d \in Device, Rejoin(d)
  PROVE  QuietStep /\ Removed
<1>1. Progress /\ HeardGrows /\ TasksKept /\ private' \in [Device -> BOOLEAN]
  BY StillProgress, HeardStill, TasksStill DEF Base, Rejoin
<1>2. \A dp \in Pair : batch'[dp] = None \/ batch'[dp] = batch[dp]
  BY DEF Rejoin
<1>3. batch' \in [Pair -> Batch \cup {None}]
  BY DEF Base, Rejoin, BatchesOK
<1>4. BatchesShrink /\ Removed
  BY <1>2, <1>3 DEF BatchesShrink, Removed
<1>5. CursorsKept
  BY DEF Base, Rejoin, CursorsOK, CursorsKept
<1> QED
  BY <1>1, <1>4, <1>5 DEF QuietStep

LEMMA CheckPausedQuiet ==
  ASSUME Base, NEW dp \in Pair, CheckPaused(dp[1], dp[2])
  PROVE  QuietStep /\ Removed
<1>1. Progress /\ CursorsKept /\ HeardGrows /\ TasksKept /\ private' \in [Device -> BOOLEAN]
  BY StillProgress, CursorStill, HeardStill, TasksStill DEF Base, CheckPaused
<1>2. batch[dp] # None
  BY PairFacts DEF CheckPaused, InFlight
<1>5. BatchesShrink /\ Removed
  <2>1. CASE private[dp[2]]
    <3>1. GiveUp(dp[1], dp[2])
      BY <2>1 DEF CheckPaused, GiveUp
    <3> QED
      BY <3>1, PairFacts, GiveUpIs DEF Base
  <2>2. CASE ~private[dp[2]]
    <3>1. SetState(dp[1], dp[2], "checked")
      BY <2>2 DEF CheckPaused
    <3> QED
      BY <1>2, <3>1, PairFacts, SetStateIs DEF Base
  <2> QED
    BY <2>1, <2>2
<1> QED
  BY <1>1, <1>5 DEF QuietStep

-----------------------------------------------------------------------------
(* A record judged: every row is as it was, up to a retention pass, or has *)
(* the state of the record.                                                *)
Shows(row, r) ==
  /\ row.lamport = r.lamport /\ row.device_id = r.device_id
  /\ (row.deleted # "no") = r.deleted
  /\ r.deleted \/ row.pinned = r.pinned

TakenHere(s, t, r) ==
  /\ Shows(t.rows[r.content], r)
  /\ TidyAll(s) => Tidy(r.content, t.rows[r.content])
  /\ Wins(s, r)

TakenRow(s, t, r, e) ==
  Present(t, e) => \/ Present(s, e) /\ SameEntry(s.rows[e], t.rows[e])
                   \/ e = r.content /\ TakenHere(s, t, r)

RecordEnd(s, t, r) ==
  /\ Sane(t) /\ Moves(s, t)
  /\ \A e \in Content : TakenRow(s, t, r, e)
  /\ Lasting => Stays(s, t)
  /\ ObservesAt(t, r)

(* What wins is there afterwards, unless it deletes what is not there. *)
Arrives(s, t, r) ==
  TidyAll(s) /\ Wins(s, r) /\ (Present(s, r.content) \/ ~r.deleted) =>
    Present(t, r.content) /\ Shows(t.rows[r.content], r)

LEMMA SameShows ==
  ASSUME NEW row, NEW new, NEW r, SameEntry(row, new), Shows(row, r)
  PROVE  Shows(new, r)
BY DEF SameEntry, Shows

LEMMA AppliedEnd ==
  ASSUME NEW s, Sane(s), NEW r \in Record, r.lamport \in 1..Top, NEW t, t = Last(Applied(s, r))
  PROVE  RecordEnd(s, t, r) /\ (~ToStore(s, r) => Arrives(s, t, r))
<1>c. PICK c : c = r.content
  OBVIOUS
<1>st. PICK steps : steps = Applied(s, r)
  OBVIOUS
<1>1. s \in History /\ c \in Content /\ s.clock <= Top
  BY <1>c, RecordFacts DEF Sane
<1>2. /\ Len(steps) \in Nat /\ Len(steps) > 0
      /\ AllWithin(s, steps, c, r.lamport)
      /\ Judges(s, Last(steps), r)
      /\ ObservesAt(Last(steps), r)
  BY <1>1, <1>c, <1>st, AppliedIs
<1>3. t = steps[Len(steps)] /\ t = Last(steps)
  BY <1>st DEF Last
<1>4. Within(s, t, c, r.lamport) /\ (t.clock = s.clock \/ t.clock = r.lamport)
  <2>i. PICK i : i = Len(steps)
    OBVIOUS
  <2>0. i \in Nat /\ i > 0
    BY <1>2, <2>i
  <2>2. i \in 1..i
    BY <2>0
  <2>3. t = steps[i]
    BY <1>3, <2>i
  <2>1. i \in 1..Len(steps) /\ t = steps[i]
    BY <2>2, <2>3, <2>i
  <2> QED
    BY <1>2, <2>1 DEF AllWithin
<1>5. Sane(t) /\ Moves(s, t) /\ t \in History
  BY <1>1, <1>4, WithinProgress DEF Within
<1>6. CASE Ignores(s, t, r)
  <2>1. \A e \in Content : TakenRow(s, t, r, e)
    BY <1>1, <1>6, HistoryFacts, SameIsSame DEF Ignores, TakenRow, Present
  <2>2. Stays(s, t)
    BY <1>6 DEF Ignores, Stays, Present
  <2>3. ~ToStore(s, r) => Arrives(s, t, r)
    BY <1>6 DEF Ignores, Arrives
  <2> QED
    BY <1>2, <1>3, <1>5, <2>1, <2>2, <2>3 DEF RecordEnd
<1>7. CASE Takes(s, t, r)
  <2>1. Present(t, c) /\ Present(s, c)
    BY <1>1, <1>5, <1>7, <1>c, HistoryFacts DEF Takes, Fresh
  <2>2. Shows(t.rows[c], r)
    BY <1>7, <1>c DEF Takes, RemoteRow, Shows
  <2>3. ASSUME TidyAll(s) PROVE Tidy(c, t.rows[c])
    <3>1. Tidy(c, s.rows[c])
      BY <1>1, <2>1, <2>3 DEF TidyAll
    <3>2. /\ t.rows[c].sensitive = s.rows[c].sensitive /\ t.rows[c].blobs = s.rows[c].blobs
          /\ t.rows[c].deleted = "evicted" => s.rows[c].deleted = "evicted"
      BY <1>7, <1>c DEF Takes, RemoteRow
    <3>3. t.rows[c].deleted = "no" => s.rows[c].deleted = "no"
      <4>1. (t.rows[c].deleted # "no") = r.deleted
        BY <2>2 DEF Shows
      <4>2. t.rows[c].deleted = "no" => ~r.deleted
        BY <4>1
      <4> QED
        BY <1>7, <1>c, <4>2 DEF Takes, Live
    <3> QED
      BY <3>1, <3>2, <3>3 DEF Tidy
  <2>4. TakenHere(s, t, r)
    BY <1>7, <1>c, <2>2, <2>3 DEF TakenHere, Takes
  <2>5. \A e \in Content : TakenRow(s, t, r, e)
    <3> TAKE e \in Content
    <3>1. CASE e = c
      BY <1>c, <2>4, <3>1 DEF TakenRow
    <3>2. CASE e # c
      <4>1. t.rows[e] = s.rows[e]
        BY <1>4, <3>2 DEF Within, OnlyAt
      <4> QED
        BY <1>1, <4>1, HistoryFacts, SameIsSame DEF TakenRow, Present
    <3> QED
      BY <3>1, <3>2
  <2>6. Stays(s, t)
    BY <1>4, <2>1 DEF Stays, Within, OnlyAt, Present
  <2>7. Arrives(s, t, r)
    BY <1>c, <2>1, <2>2 DEF Arrives
  <2> QED
    BY <1>2, <1>3, <1>5, <2>5, <2>6, <2>7 DEF RecordEnd
<1> QED
  BY <1>2, <1>3, <1>6, <1>7 DEF Judges

LEMMA CollectedRecord ==
  ASSUME NEW d, NEW s, Sane(s), NEW r \in Record, NEW t, RecordEnd(s, t, r), NEW fresh,
         NEW g \in collect_garbage(d, t, fresh)
  PROVE  RecordEnd(s, g, r) /\ (Lasting /\ Arrives(s, t, r) => Arrives(s, g, r))
<1>1. s \in History /\ t \in History /\ r.content \in Content
  BY RecordFacts DEF Sane, RecordEnd
<1>2. Thins(t, g)
  BY <1>1, GarbageIs
<1>3. g \in History /\ Moves(t, g) /\ Sane(g) /\ g.clock = t.clock
  BY <1>1, <1>2, ThinsMoves DEF RecordEnd, Thins
<1>4. Moves(s, g)
  BY <1>1, <1>3, MovesTrans DEF RecordEnd
<1>5. \A e \in Content : TakenRow(s, t, r, e)
  BY DEF RecordEnd
<1>6. ASSUME NEW e \in Content PROVE TakenRow(s, g, r, e)
  <2>1. Present(g, e) => Present(t, e) /\ SameEntry(t.rows[e], g.rows[e])
    BY <1>2, RowsArePresent DEF Thins, Present
  <2>2. CASE Present(s, e) /\ SameEntry(s.rows[e], t.rows[e])
    BY <2>1, <2>2, SameTrans DEF TakenRow
  <2>3. CASE e = r.content /\ TakenHere(s, t, r) /\ Present(g, e)
    <3>1. TidyAll(s) => Tidy(e, g.rows[e])
      BY <2>1, <2>3, SameTidy DEF TakenHere
    <3>2. Shows(g.rows[e], r)
      BY <2>1, <2>3, SameShows DEF TakenHere
    <3> QED
      BY <2>3, <3>1, <3>2 DEF TakenHere, TakenRow
  <2> QED
    BY <1>5, <2>1, <2>2, <2>3 DEF TakenRow
<1>7. ASSUME Lasting, TidyAll(s), NEW e \in Content, Present(t, e)
      PROVE  Present(g, e)
  <2>1. CASE Present(s, e) /\ SameEntry(s.rows[e], t.rows[e])
    <3>1. Tidy(e, t.rows[e])
      BY <1>7, <2>1, SameTidy DEF TidyAll
    <3> QED
      BY <1>1, <1>7, <3>1, GarbageLasts DEF Tidy
  <2>2. CASE e = r.content /\ TakenHere(s, t, r)
    <3>1. Tidy(e, t.rows[e])
      BY <1>7, <2>2 DEF TakenHere
    <3> QED
      BY <1>1, <1>7, <3>1, GarbageLasts DEF Tidy
  <2> QED
    BY <1>5, <1>7, <2>1, <2>2 DEF TakenRow
<1>8. Lasting => Stays(s, g)
  BY <1>7 DEF Stays, RecordEnd
<1>9. ASSUME Lasting, Arrives(s, t, r) PROVE Arrives(s, g, r)
  <2>1. SUFFICES ASSUME TidyAll(s), Present(t, r.content), Shows(t.rows[r.content], r)
                 PROVE  Present(g, r.content) /\ Shows(g.rows[r.content], r)
    BY <1>9 DEF Arrives
  <2>2. Present(g, r.content)
    BY <1>1, <1>7, <1>9, <2>1
  <2>3. SameEntry(t.rows[r.content], g.rows[r.content])
    BY <1>1, <1>2, <2>2 DEF Thins, Present
  <2> QED
    BY <2>1, <2>2, <2>3, SameShows
<1>10. ObservesAt(g, r)
  BY <1>3 DEF RecordEnd, ObservesAt
<1> QED
  BY <1>3, <1>4, <1>6, <1>8, <1>9, <1>10 DEF RecordEnd

-----------------------------------------------------------------------------
(* A record that brings what is not here: the clock takes notice of it, a  *)
(* capture stores it, and it gets the state it has where it comes from.    *)
Passes(s, t) == Sane(t) /\ Moves(s, t)

StoredHere(s, u, r) ==
  LET c == r.content
  IN  /\ OnlyAt(s, u, c)
      /\ Live(u, c) /\ u.rows[c] \in Row /\ u.rows[c].deleted = "no"
      /\ TidyAll(s) => Tidy(c, u.rows[c])
      /\ ObservesAt(u, r)

LEMMA PassesTrans ==
  ASSUME NEW s, Sane(s), NEW t, Passes(s, t), NEW u, Passes(t, u)
  PROVE  Passes(s, u)
BY MovesTrans DEF Passes, Sane

LEMMA ObservePasses ==
  ASSUME NEW s, Sane(s), NEW n \in 1..Top, NEW o, o = observe_lamport(s, n)
  PROVE  /\ Passes(s, o) /\ Sane(o) /\ o.rows = s.rows /\ o \in History
         /\ n < LAMPORT_OBSERVE_LIMIT => o.clock >= n
<1>1. s \in History /\ n \in Nat /\ Top \in Nat /\ s.clock <= Top
  BY TopFacts DEF Sane
<1>2. /\ o \in History /\ o.seq = s.seq /\ o.rows = s.rows /\ o.clock >= s.clock
      /\ o.clock \in {s.clock, n}
      /\ n < LAMPORT_OBSERVE_LIMIT => o.clock >= n
  BY <1>1, ObserveIs
<1>3. o.clock <= Top
  BY <1>1, <1>2
<1>4. Sane(o) /\ Moves(s, o)
  BY <1>1, <1>2, <1>3, ClockMoves
<1> QED
  BY <1>2, <1>4 DEF Passes

LEMMA StoredIs ==
  ASSUME NEW s, Sane(s), NEW r \in Record, r.lamport \in 1..Top, NEW p \in Device,
         NEW steps, steps = Stored(p, s, r), steps[1].clock <= Top
  PROVE  /\ Len(steps) = 5 /\ Last(steps) = steps[5]
         /\ \A i \in 1..5 : Passes(s, steps[i])
         /\ StoredHere(s, steps[5], r)
<1>c. PICK c : c = r.content
  OBVIOUS
<1>o. PICK o : o = observe_lamport(s, r.lamport)
  OBVIOUS
<1>k. PICK k : k = tick_lamport(o).clock
  OBVIOUS
<1>0. c \in Content /\ s \in History
  BY <1>c, RecordFacts DEF Sane
<1>1. /\ Passes(s, o) /\ Sane(o) /\ o.rows = s.rows /\ o \in History
      /\ r.lamport < LAMPORT_OBSERVE_LIMIT => o.clock >= r.lamport
  BY <1>o, ObservePasses
<1>2. steps = store(o, c, p)
  BY <1>c, <1>o DEF Stored
<1>3. /\ Len(steps) = 5
      /\ \A i \in 1..5 : Within(o, steps[i], c, k) /\ steps[i].clock = k
      /\ StoredRow(o, steps[5], c, p, k)
  BY <1>0, <1>1, <1>2, <1>k, StoreIs
<1>4. k \in 1..Top /\ k > o.clock
  <2>1. k <= Top
    BY <1>3
  <2> QED
    BY <1>1, <1>k, <2>1, TickTop
<1>5. \A i \in 1..5 : Passes(s, steps[i])
  <2> TAKE i \in 1..5
  <2>t. PICK t : t = steps[i]
    OBVIOUS
  <2>1. Within(o, t, c, k) /\ t.clock = k
    BY <1>3, <2>t
  <2>2. Passes(o, t)
    BY <1>0, <1>1, <1>4, <2>1, WithinProgress DEF Passes
  <2>3. Passes(s, t)
    BY <1>1, <2>2, PassesTrans
  <2> QED
    BY <2>3, <2>t
<1>u. PICK u : u = steps[5]
  OBVIOUS
<1>6. Within(o, u, c, k) /\ StoredRow(o, u, c, p, k) /\ u.clock = k
  BY <1>3, <1>u
<1>7. OnlyAt(s, u, c)
  BY <1>1, <1>6 DEF Within, OnlyAt
<1>8. u \in History /\ u.rows[c] \in Row /\ u.rows[c].deleted = "no" /\ u.rows[c].blobs = TRUE
  BY <1>6 DEF Within, StoredRow, Fresh
<1>9. Live(u, c)
  BY <1>0, <1>8, HistoryFacts DEF Live
<1>10. ASSUME TidyAll(s) PROVE Tidy(c, u.rows[c])
  <2>1. c \notin Secret /\ Live(o, c) => o.rows[c].sensitive = FALSE
    BY <1>0, <1>1, <1>10 DEF TidyAll, Tidy, Live, Present
  <2>2. c \notin Secret => u.rows[c].sensitive = FALSE
    BY <1>6, <2>1 DEF StoredRow
  <2> QED
    BY <1>6, <1>8, <2>2 DEF StoredRow, Tidy
<1>11. ObservesAt(u, r)
  <2>1. k \in Nat /\ o.clock \in Nat /\ r.lamport \in Nat
    BY <1>1, <1>4, HistoryFacts
  <2> QED
    BY <1>1, <1>4, <1>6, <2>1 DEF ObservesAt
<1>12. StoredHere(s, u, r)
  BY <1>7, <1>8, <1>9, <1>10, <1>11, <1>c DEF StoredHere
<1> QED
  BY <1>3, <1>5, <1>12, <1>u DEF Last

LEMMA RemotePasses ==
  ASSUME NEW g, Sane(g), NEW r \in Record, r.lamport \in 1..Top, NEW c, c = r.content,
         Present(g, c), NEW t, t = apply_remote_state(g, c, r)
  PROVE  Passes(g, t)
<1>1. g \in History /\ c \in Content
  BY RecordFacts DEF Sane
<1>2. Within(g, t, c, r.lamport) /\ t.clock = g.clock
  BY <1>1, RemoteIs
<1> QED
  BY <1>1, <1>2, WithinProgress DEF Passes

(* A retention pass after the capture, and then the record's state. *)
LEMMA StoredEnd ==
  ASSUME NEW d, NEW s, Sane(s), NEW r \in Record, r.lamport \in 1..Top, ToStore(s, r),
         NEW u, Passes(s, u), StoredHere(s, u, r), NEW fresh, NEW g \in collect_garbage(d, u, fresh)
  PROVE  /\ ~Present(g, r.content) => RecordEnd(s, g, r) /\ (TidyAll(s) => ~Lasting)
         /\ Present(g, r.content) =>
              /\ RecordEnd(s, apply_remote_state(g, r.content, r), r)
              /\ Arrives(s, apply_remote_state(g, r.content, r), r)
<1>c. PICK c : c = r.content
  OBVIOUS
<1>t. PICK t : t = apply_remote_state(g, c, r)
  OBVIOUS
<1>0. c \in Content /\ s \in History /\ u \in History /\ Sane(u) /\ r.deleted \in BOOLEAN
  BY <1>c, RecordFacts DEF Sane, Passes
<1>1. Thins(u, g)
  BY <1>0, GarbageIs
<1>2. Passes(u, g) /\ g.clock = u.clock /\ g \in History /\ Sane(g)
  BY <1>0, <1>1, ThinsMoves DEF Passes, Thins
<1>3. Passes(s, g)
  BY <1>2, PassesTrans
<1>4. OnlyAt(s, u, c) /\ Live(u, c) /\ u.rows[c] \in Row /\ u.rows[c].deleted = "no"
      /\ (TidyAll(s) => Tidy(c, u.rows[c])) /\ ObservesAt(u, r)
  BY <1>c DEF StoredHere
<1>5. \A e \in Content : Present(g, e) => Present(u, e) /\ SameEntry(u.rows[e], g.rows[e])
  BY <1>1, RowsArePresent DEF Thins, Present
<1>6. \A e \in Content : e # c /\ Present(g, e) => Present(s, e) /\ SameEntry(s.rows[e], g.rows[e])
  BY <1>4, <1>5 DEF OnlyAt, Present
<1>7. ASSUME Lasting, TidyAll(s), NEW e \in Content, Present(s, e) \/ e = c PROVE Present(g, e)
  <2>1. Present(u, e) /\ u.rows[e].deleted # "evicted"
    <3>1. CASE e = c
      BY <1>4, <3>1 DEF Live
    <3>2. CASE e # c
      <4>1. u.rows[e] = s.rows[e]
        BY <1>4, <3>2 DEF OnlyAt
      <4> QED
        BY <1>7, <3>2, <4>1 DEF TidyAll, Tidy, Present
    <3> QED
      BY <3>1, <3>2
  <2> QED
    BY <1>0, <1>7, <2>1, GarbageLasts
<1>8. ObservesAt(g, r)
  BY <1>2, <1>4 DEF ObservesAt
<1>9. ASSUME ~Present(g, c) PROVE RecordEnd(s, g, r) /\ (TidyAll(s) => ~Lasting)
  <2>1. \A e \in Content : TakenRow(s, g, r, e)
    BY <1>6, <1>9 DEF TakenRow
  <2>2. TidyAll(s) => ~Lasting
    BY <1>0, <1>7, <1>9
  <2>3. Lasting => Stays(s, g)
    BY <2>2 DEF Stays
  <2> QED
    BY <1>3, <1>8, <2>1, <2>2, <2>3 DEF RecordEnd, Passes
<1>10. ASSUME Present(g, c) PROVE RecordEnd(s, t, r) /\ Arrives(s, t, r)
  <2>1. Passes(g, t)
    BY <1>2, <1>10, <1>c, <1>t, RemotePasses
  <2>2. Passes(s, t)
    BY <1>3, <2>1, PassesTrans
  <2>3. /\ Within(g, t, c, r.lamport) /\ t.clock = g.clock
        /\ Fresh(g, t, c, r.lamport)
        /\ t.rows[c].lamport = r.lamport /\ t.rows[c].device_id = r.device_id
        /\ t.rows[c].pinned = r.pinned /\ t.rows[c].deleted = g.rows[c].deleted
        /\ t.rows[c].sensitive = g.rows[c].sensitive
        /\ t.rows[c].blobs = g.rows[c].blobs
    BY <1>2, <1>10, <1>c, <1>t, RemoteIs
  <2>4. Present(t, c) /\ OnlyAt(g, t, c) /\ t \in History
    BY <1>0, <2>3, HistoryFacts DEF Within, Fresh
  <2>5. SameEntry(u.rows[c], g.rows[c]) /\ g.rows[c].deleted = "no"
    BY <1>0, <1>4, <1>5, <1>10 DEF SameEntry
  <2>6. r.deleted = FALSE /\ Wins(s, r)
    BY <1>0 DEF ToStore
  <2>7. Shows(t.rows[c], r)
    BY <2>3, <2>5, <2>6 DEF Shows
  <2>8. ASSUME TidyAll(s) PROVE Tidy(c, t.rows[c])
    <3>1. Tidy(c, g.rows[c])
      BY <1>4, <2>5, <2>8, SameTidy
    <3> QED
      BY <2>3, <3>1 DEF Tidy
  <2>9. TakenHere(s, t, r)
    BY <1>c, <2>6, <2>7, <2>8 DEF TakenHere
  <2>10. ASSUME NEW e \in Content PROVE TakenRow(s, t, r, e)
    <3>1. CASE e = c
      BY <1>c, <2>9, <3>1 DEF TakenRow
    <3>2. CASE e # c
      <4>1. t.rows[e] = g.rows[e]
        BY <2>4, <3>2 DEF OnlyAt
      <4> QED
        BY <1>6, <3>2, <4>1 DEF TakenRow, Present
    <3> QED
      BY <3>1, <3>2
  <2>11. Lasting => Stays(s, t)
    <3>1. \A e \in Content : Present(g, e) => Present(t, e)
      BY <2>4 DEF OnlyAt, Present
    <3> QED
      BY <1>7, <3>1 DEF Stays
  <2>12. ObservesAt(t, r)
    BY <1>8, <2>3 DEF ObservesAt
  <2> QED
    BY <1>c, <2>2, <2>4, <2>7, <2>10, <2>11, <2>12 DEF RecordEnd, Passes, Arrives
<1> QED
  BY <1>9, <1>10, <1>c, <1>t

-----------------------------------------------------------------------------
(* The steps that apply a record.                                          *)
Ends(dp, r, t) ==
  /\ RecordEnd(history[dp[2]], t, r)
  /\ Lasting /\ ~GateRefuses(dp[2], r) => Arrives(history[dp[2]], t, r)

Outcome(dp, r) ==
  \/ Done(dp[1], dp[2], r) /\ Heard(dp[2], r)
  \/ Done(dp[1], dp[2], r) /\ UNCHANGED heard /\ private[dp[2]]
  \/ GiveUp(dp[1], dp[2]) /\ UNCHANGED heard /\ (TidyAll(history[dp[2]]) => ~Lasting)

JudgeStep(dp, r) ==
  /\ batch[dp] # None /\ r \in batch[dp].todo
  /\ UNCHANGED <<private, suspended, cursor>>
  /\ Outcome(dp, r)
  /\ \E t : Write(dp[2], t) /\ Ends(dp, r, t)

LEMMA TodoFacts ==
  ASSUME Base, NEW dp \in Pair, NEW r \in Todo(dp[1], dp[2])
  PROVE  /\ batch[dp] # None /\ r \in batch[dp].todo /\ r \in Record /\ r.lamport \in 1..Top
         /\ ~Rejected(r) /\ Sane(history[dp[2]]) /\ dp[2] \in Device
<1>1. batch[dp] # None /\ r \in batch[dp].todo
  BY PairFacts DEF Todo
<1>2. r \in Record /\ r.lamport \in 1..Top
  BY <1>1, BatchFacts DEF Base
<1>3. ~Rejected(r)
  BY <1>2, TopFacts DEF Rejected
<1> QED
  BY <1>1, <1>2, <1>3, PairFacts DEF Base, HistoriesOK

LEMMA ApplyJudges ==
  ASSUME Base, NEW dp \in Pair, NEW r \in Todo(dp[1], dp[2]), Apply(dp[1], dp[2], r)
  PROVE  JudgeStep(dp, r)
<1>p. PICK p : p = dp[2]
  OBVIOUS
<1>s. PICK s : s = history[p]
  OBVIOUS
<1>t. PICK t : t = Last(Applied(s, r))
  OBVIOUS
<1>1. /\ batch[dp] # None /\ r \in batch[dp].todo /\ r \in Record /\ r.lamport \in 1..Top
      /\ ~Rejected(r) /\ Sane(s) /\ p \in Device
  BY <1>p, <1>s, TodoFacts
<1>2. /\ Done(dp[1], p, r)
      /\ UNCHANGED <<private, suspended, cursor>>
      /\ ToStore(s, r) => GateRefuses(p, r)
      /\ IF r.deleted /\ Wins(s, r) /\ Live(s, r.content)
         THEN Finish(p, t, {r.content}) ELSE Write(p, t)
      /\ IF ToStore(s, r) /\ private[p] THEN UNCHANGED heard ELSE Heard(p, r)
  BY <1>1, <1>p, <1>s, <1>t DEF Apply
<1>3. Outcome(dp, r)
  BY <1>2, <1>p DEF Outcome
<1>4. RecordEnd(s, t, r) /\ (~ToStore(s, r) => Arrives(s, t, r))
  BY <1>1, <1>t, AppliedEnd
<1>5. CASE r.deleted /\ Wins(s, r) /\ Live(s, r.content)
  <2>1. PICK g \in collect_garbage(p, t, {r.content}) : history' = [history EXCEPT ![p] = g]
    BY <1>2, <1>5 DEF Finish
  <2>2. ~ToStore(s, r)
    BY <1>5 DEF ToStore
  <2>3. RecordEnd(s, g, r) /\ (Lasting => Arrives(s, g, r))
    BY <1>1, <1>4, <2>2, CollectedRecord
  <2>4. Ends(dp, r, g)
    BY <1>p, <1>s, <2>3 DEF Ends
  <2>5. Write(p, g)
    BY <2>1 DEF Write
  <2> QED
    BY <1>1, <1>2, <1>3, <1>p, <2>4, <2>5 DEF JudgeStep
<1>6. CASE ~(r.deleted /\ Wins(s, r) /\ Live(s, r.content))
  <2>1. Write(p, t)
    BY <1>2, <1>6
  <2>2. Ends(dp, r, t)
    BY <1>2, <1>4, <1>p, <1>s DEF Ends
  <2> QED
    BY <1>1, <1>2, <1>3, <1>p, <2>1, <2>2 DEF JudgeStep
<1> QED
  BY <1>5, <1>6

LEMMA StoredSteps ==
  ASSUME Base, NEW p \in Device, NEW r \in Record, r.lamport \in 1..Top, MayStore(p, r),
         NEW s, s = history[p], NEW steps, steps = Stored(p, s, r)
  PROVE  /\ Len(steps) = 5 /\ Last(steps) = steps[5]
         /\ \A i \in 1..5 : Passes(s, steps[i])
         /\ StoredHere(s, steps[5], r)
<1>1. Sane(s)
  BY DEF Base, HistoriesOK
<1>2. steps[1].clock <= Top
  BY DEF MayStore, Top
<1> QED
  BY <1>1, <1>2, StoredIs

LEMMA ApplyNewJudges ==
  ASSUME Base, NEW dp \in Pair, NEW r \in Todo(dp[1], dp[2]), ApplyNew(dp[1], dp[2], r)
  PROVE  JudgeStep(dp, r)
<1>p. PICK p : p = dp[2]
  OBVIOUS
<1>s. PICK s : s = history[p]
  OBVIOUS
<1>st. PICK steps : steps = Stored(p, s, r)
  OBVIOUS
<1>u. PICK u : u = steps[5]
  OBVIOUS
<1>1. /\ batch[dp] # None /\ r \in batch[dp].todo /\ r \in Record /\ r.lamport \in 1..Top
      /\ Sane(s) /\ p \in Device
  BY <1>p, <1>s, TodoFacts
<1>2. /\ Last(steps) = steps[5]
      /\ \A i \in 1..5 : Passes(s, steps[i])
      /\ StoredHere(s, steps[5], r)
  BY <1>1, <1>p, <1>s, <1>st, StoredSteps DEF ApplyNew
<1>3. Passes(s, u) /\ StoredHere(s, u, r) /\ u = Last(Stored(p, s, r))
  BY <1>2, <1>st, <1>u
<1>4. PICK g \in collect_garbage(p, u, {r.content}) :
        IF Present(g, r.content)
        THEN /\ Write(p, apply_remote_state(g, r.content, r))
             /\ Done(dp[1], p, r)
             /\ Heard(p, r)
        ELSE /\ Write(p, g)
             /\ GiveUp(dp[1], p)
             /\ UNCHANGED heard
  BY <1>3, <1>p, <1>s DEF ApplyNew
<1>5. ToStore(s, r) /\ UNCHANGED <<private, suspended, cursor>>
  BY <1>p, <1>s DEF ApplyNew
<1>6. /\ ~Present(g, r.content) => RecordEnd(s, g, r) /\ (TidyAll(s) => ~Lasting)
      /\ Present(g, r.content) =>
           /\ RecordEnd(s, apply_remote_state(g, r.content, r), r)
           /\ Arrives(s, apply_remote_state(g, r.content, r), r)
  BY <1>1, <1>3, <1>5, StoredEnd
<1>7. CASE Present(g, r.content)
  <2>1. Outcome(dp, r)
    BY <1>4, <1>7, <1>p DEF Outcome
  <2>2. Ends(dp, r, apply_remote_state(g, r.content, r))
    BY <1>6, <1>7, <1>p, <1>s DEF Ends
  <2> QED
    BY <1>1, <1>4, <1>5, <1>7, <1>p, <2>1, <2>2 DEF JudgeStep
<1>8. CASE ~Present(g, r.content)
  <2>1. Outcome(dp, r)
    BY <1>4, <1>6, <1>8, <1>p, <1>s DEF Outcome
  <2>2. Ends(dp, r, g)
    BY <1>6, <1>8, <1>p, <1>s DEF Ends, Arrives
  <2> QED
    BY <1>1, <1>4, <1>5, <1>8, <1>p, <2>1, <2>2 DEF JudgeStep
<1> QED
  BY <1>7, <1>8

LEMMA JudgeQuiet ==
  ASSUME Base, NEW dp \in Pair, NEW r, JudgeStep(dp, r)
  PROVE  QuietStep /\ (private[dp[2]] = FALSE => Removed)
<1>p. PICK p : p = dp[2]
  OBVIOUS
<1>1. p \in Device /\ batch[dp] # None /\ r \in batch[dp].todo /\ dp = <<dp[1], p>>
  BY <1>p, PairFacts DEF JudgeStep
<1>2. r \in Record
  BY <1>1, BatchFacts DEF Base
<1>3. PICK t : Write(p, t) /\ Ends(dp, r, t)
  BY <1>p DEF JudgeStep
<1>4. Progress
  BY <1>1, <1>3, <1>p, WriteProgress DEF Base, Ends, RecordEnd
<1>5. CursorsKept /\ TasksKept /\ private' \in [Device -> BOOLEAN]
  BY CursorStill, TasksStill DEF Base, JudgeStep
<1>6. CASE Done(dp[1], p, r) /\ Heard(p, r)
  <2>1. HeardGrows /\ ~lww_wins(StampOf(r), heard'[p][r.content])
    BY <1>1, <1>2, <1>6, HeardIs DEF Base
  <2>2. BatchesShrink /\ Removed
    BY <1>1, <1>6, <2>1, DoneIs DEF Base
  <2> QED
    BY <1>4, <1>5, <2>1, <2>2 DEF QuietStep
<1>7. CASE Done(dp[1], p, r) /\ UNCHANGED heard /\ private[p]
  <2>1. HeardGrows /\ BatchesShrink
    BY <1>1, <1>7, HeardStill, DoneIs DEF Base
  <2> QED
    BY <1>4, <1>5, <1>7, <1>p, <2>1 DEF QuietStep
<1>8. CASE GiveUp(dp[1], p) /\ UNCHANGED heard
  <2>1. HeardGrows /\ BatchesShrink /\ Removed
    BY <1>1, <1>8, HeardStill, GiveUpIs DEF Base
  <2> QED
    BY <1>4, <1>5, <2>1 DEF QuietStep
<1> QED
  BY <1>6, <1>7, <1>8, <1>p DEF JudgeStep, Outcome

TidyStep == \A e \in Device : TidyAll(history[e]) => TidyAll(history'[e])

LEMMA WriteTidy ==
  ASSUME HistoriesOK, NEW d \in Device, NEW t, Write(d, t), TidyAll(history[d]) => TidyAll(t)
  PROVE  TidyStep
<1>1. \A e \in Device : history'[e] = IF e = d THEN t ELSE history[e]
  BY DEF Write, HistoriesOK
<1> QED
  BY <1>1 DEF TidyStep

LEMMA LocalTidy ==
  ASSUME Base, NEW d \in Device, LocalStep(d)
  PROVE  TidyStep
<1>s. PICK s : s = history[d]
  OBVIOUS
<1>1. PICK t : Write(d, t) /\ LocalEnd(d, s, t)
  BY <1>s DEF LocalStep
<1>2. PICK c : \A e \in Content : LocalRow(d, s, t, c, e)
  BY <1>1 DEF LocalEnd, LocalRows
<1>3. ASSUME TidyAll(s), NEW e \in Content, Present(t, e) PROVE Tidy(e, t.rows[e])
  <2>1. CASE Present(s, e) /\ SameEntry(s.rows[e], t.rows[e])
    BY <1>3, <2>1, SameTidy DEF TidyAll
  <2>2. CASE e = c /\ MadeHere(d, s, t, e)
    BY <1>3, <2>2 DEF MadeHere
  <2> QED
    BY <1>2, <1>3, <2>1, <2>2 DEF LocalRow
<1>4. TidyAll(s) => TidyAll(t)
  BY <1>3 DEF TidyAll
<1> QED
  BY <1>1, <1>4, <1>s, WriteTidy DEF Base

LEMMA JudgeTidy ==
  ASSUME Base, NEW dp \in Pair, NEW r, JudgeStep(dp, r)
  PROVE  TidyStep
<1>p. PICK p : p = dp[2]
  OBVIOUS
<1>s. PICK s : s = history[p]
  OBVIOUS
<1>1. PICK t : Write(p, t) /\ Ends(dp, r, t)
  BY <1>p DEF JudgeStep
<1>2. \A e \in Content : TakenRow(s, t, r, e)
  BY <1>1, <1>p, <1>s DEF Ends, RecordEnd
<1>3. ASSUME TidyAll(s), NEW e \in Content, Present(t, e) PROVE Tidy(e, t.rows[e])
  <2>1. CASE Present(s, e) /\ SameEntry(s.rows[e], t.rows[e])
    BY <1>3, <2>1, SameTidy DEF TidyAll
  <2>2. CASE e = r.content /\ TakenHere(s, t, r)
    BY <1>3, <2>2 DEF TakenHere
  <2> QED
    BY <1>2, <1>3, <2>1, <2>2 DEF TakenRow
<1>4. TidyAll(s) => TidyAll(t)
  BY <1>3 DEF TidyAll
<1>5. p \in Device
  BY <1>p, PairFacts
<1> QED
  BY <1>1, <1>4, <1>5, <1>s, WriteTidy DEF Base

(* An image: stored, and the rest waits for its thumbnail. *)
LEMMA StoredTidy ==
  ASSUME NEW s, NEW u, NEW r, StoredHere(s, u, r), TidyAll(s)
  PROVE  TidyAll(u)
<1>1. ASSUME NEW e \in Content, Present(u, e) PROVE Tidy(e, u.rows[e])
  <2>1. CASE e = r.content
    BY <2>1 DEF StoredHere
  <2>2. CASE e # r.content
    <3>1. u.rows[e] = s.rows[e]
      BY <2>2 DEF StoredHere, OnlyAt
    <3> QED
      BY <1>1, <3>1 DEF TidyAll, Present
  <2> QED
    BY <2>1, <2>2
<1> QED
  BY <1>1 DEF TidyAll

LEMMA ApplyImageQuiet ==
  ASSUME Base, NEW dp \in Pair, NEW r \in Todo(dp[1], dp[2]), ApplyImage(dp[1], dp[2], r)
  PROVE  QuietStep /\ Removed /\ TidyStep
<1>d. PICK d : d = dp[1]
  OBVIOUS
<1>p. PICK p : p = dp[2]
  OBVIOUS
<1>s. PICK s : s = history[p]
  OBVIOUS
<1>st. PICK steps : steps = Stored(p, s, r)
  OBVIOUS
<1>u. PICK u : u = steps[5]
  OBVIOUS
<1>c. PICK c : c = r.content
  OBVIOUS
<1>1. /\ batch[dp] # None /\ r \in batch[dp].todo /\ r \in Record /\ r.lamport \in 1..Top
      /\ Sane(s) /\ p \in Device /\ d \in Device /\ dp = <<d, p>> /\ c \in Content
  BY <1>d, <1>p, <1>s, <1>c, TodoFacts, PairFacts, RecordFacts
<1>2. /\ Last(steps) = steps[5]
      /\ \A i \in 1..5 : Passes(s, steps[i])
      /\ StoredHere(s, steps[5], r)
  BY <1>1, <1>p, <1>s, <1>st, StoredSteps DEF ApplyImage
<1>3. Passes(s, u) /\ StoredHere(s, u, r) /\ u = Last(Stored(p, s, r))
  BY <1>2, <1>st, <1>u
<1>x. PICK x : x = [from |-> d, record |-> r, id |-> u.rows[c].id, own |-> StampOf(u.rows[c])]
  OBVIOUS
<1>4. /\ Write(p, u)
      /\ suspended' = [suspended EXCEPT ![p] = suspended[p] \cup {x}]
      /\ SetState(d, p, "waiting")
      /\ UNCHANGED <<private, cursor, heard>>
  BY <1>3, <1>c, <1>d, <1>p, <1>s, <1>x DEF ApplyImage
<1>5. Progress /\ TidyStep
  BY <1>1, <1>3, <1>4, <1>s, WriteProgress, WriteTidy, StoredTidy DEF Base, Passes
<1>6. BatchesShrink /\ Removed
  BY <1>1, <1>4, SetStateIs DEF Base
<1>7. CursorsKept /\ HeardGrows /\ private' \in [Device -> BOOLEAN]
  BY <1>4, CursorStill, HeardStill DEF Base
<1>8. x \in Task /\ x.record = r /\ x.from = d
  <2>1. u.rows[c] \in Row
    BY <1>3, <1>c DEF StoredHere
  <2>2. u.rows[c].id \in Nat /\ StampOf(u.rows[c]) \in Nat \X Device
    BY <2>1 DEF Row, StampOf
  <2> QED
    BY <1>1, <1>x, <2>2 DEF Task
<1>9. TasksKept
  <2>1. suspended \in [Device -> SUBSET Task]
    BY DEF Base, TasksOK
  <2>2. suspended' \in [Device -> SUBSET Task]
    BY <1>1, <1>4, <1>8, <2>1
  <2>3. \A e \in Device : suspended'[e] = IF e = p THEN suspended[p] \cup {x} ELSE suspended[e]
    BY <1>1, <1>4, <2>1
  <2>4. ASSUME NEW e \in Device, NEW t \in suspended'[e]
        PROVE  t.record.lamport \in 1..Top /\ <<t.from, e>> \in Pair
    <3>1. CASE t \in suspended[e]
      BY <3>1 DEF Base, TasksOK
    <3>2. CASE e = p /\ t = x
      BY <1>1, <1>8, <3>2
    <3> QED
      BY <2>3, <2>4, <3>1, <3>2
  <2> QED
    BY <2>2, <2>4 DEF TasksKept
<1> QED
  BY <1>5, <1>6, <1>7, <1>9 DEF QuietStep

LEMMA ThinsTidy ==
  ASSUME NEW s, NEW g, Thins(s, g), TidyAll(s)
  PROVE  TidyAll(g)
<1>1. ASSUME NEW e \in Content, Present(g, e) PROVE Tidy(e, g.rows[e])
  <2>1. Present(s, e) /\ SameEntry(s.rows[e], g.rows[e])
    BY <1>1, RowsArePresent DEF Thins, Present
  <2> QED
    BY <2>1, SameTidy DEF TidyAll
<1> QED
  BY <1>1 DEF TidyAll

LEMMA RemoteTidy ==
  ASSUME NEW g \in History, NEW r \in Record, NEW c, c = r.content, Present(g, c),
         NEW t, t = apply_remote_state(g, c, r), TidyAll(g)
  PROVE  TidyAll(t)
<1>0. c \in Content
  BY RecordFacts
<1>1. /\ Within(g, t, c, r.lamport) /\ t.rows[c].deleted = g.rows[c].deleted
      /\ t.rows[c].sensitive = g.rows[c].sensitive
      /\ t.rows[c].blobs = g.rows[c].blobs
  BY RemoteIs
<1>2. ASSUME NEW e \in Content, Present(t, e) PROVE Tidy(e, t.rows[e])
  <2>1. CASE e = c
    <3>1. Tidy(c, g.rows[c])
      BY <1>0 DEF TidyAll
    <3> QED
      BY <1>1, <2>1, <3>1 DEF Tidy
  <2>2. CASE e # c
    <3>1. t.rows[e] = g.rows[e]
      BY <1>1, <2>2 DEF Within, OnlyAt
    <3> QED
      BY <1>2, <3>1 DEF TidyAll, Present
  <2> QED
    BY <2>1, <2>2
<1> QED
  BY <1>2 DEF TidyAll

LEMMA ResumeQuiet ==
  ASSUME Base, NEW p \in Device, NEW t \in suspended[p], Resume(p, t)
  PROVE  QuietStep /\ Removed /\ TidyStep
<1>s. PICK s : s = history[p]
  OBVIOUS
<1>r. PICK r : r = t.record
  OBVIOUS
<1>c. PICK c : c = r.content
  OBVIOUS
<1>dp. PICK dp : dp = <<t.from, p>>
  OBVIOUS
<1>1. /\ r \in Record /\ r.lamport \in 1..Top /\ dp \in Pair /\ Sane(s) /\ s \in History /\ c \in Content
      /\ dp[2] = p /\ dp[1] = t.from
  <2>1. t \in Task /\ t.record.lamport \in 1..Top /\ <<t.from, p>> \in Pair
    BY DEF Base, TasksOK
  <2>2. r \in Record
    BY <1>r, <2>1 DEF Task
  <2> QED
    BY <1>s, <1>r, <1>c, <1>dp, <2>1, <2>2, RecordFacts DEF Base, HistoriesOK, Sane
<1>2. /\ suspended' = [suspended EXCEPT ![p] = suspended[p] \ {t}]
      /\ UNCHANGED <<private, cursor>>
  BY DEF Resume
<1>3. PICK g \in collect_garbage(p, s, {}) :
        \/ /\ Present(g, c) /\ Write(p, apply_remote_state(g, c, r)) /\ Heard(p, r)
           /\ IF Awaited(p, t) THEN Done(t.from, p, r) ELSE UNCHANGED batch
        \/ /\ Write(p, g) \/ UNCHANGED history
           /\ UNCHANGED heard
           /\ IF Awaited(p, t) THEN GiveUp(t.from, p) ELSE UNCHANGED batch
  BY <1>s, <1>r, <1>c DEF Resume
<1>4. Thins(s, g)
  BY <1>1, GarbageIs
<1>5. Passes(s, g) /\ g \in History /\ Sane(g) /\ (TidyAll(s) => TidyAll(g))
  BY <1>1, <1>4, ThinsMoves, ThinsTidy DEF Passes
<1>6. TasksKept
  <2>1. suspended \in [Device -> SUBSET Task]
    BY DEF Base, TasksOK
  <2>2. suspended' \in [Device -> SUBSET Task]
    BY <1>2, <2>1
  <2>3. \A e \in Device : suspended'[e] \subseteq suspended[e]
    BY <1>2, <2>1
  <2> QED
    BY <2>2, <2>3 DEF Base, TasksOK, TasksKept
<1>7. CursorsKept /\ private' \in [Device -> BOOLEAN]
  BY <1>2, CursorStill DEF Base
<1>8. Awaited(p, t) => batch[dp] # None
  BY <1>dp DEF Awaited, InFlight
<1>9. UNCHANGED batch => BatchesShrink /\ Removed
  BY DEF Base, BatchesOK, BatchesShrink, Removed
<1>10. CASE /\ Present(g, c) /\ Write(p, apply_remote_state(g, c, r)) /\ Heard(p, r)
            /\ IF Awaited(p, t) THEN Done(t.from, p, r) ELSE UNCHANGED batch
  <2>n. PICK n : n = apply_remote_state(g, c, r)
    OBVIOUS
  <2>1. Passes(g, n)
    BY <1>1, <1>5, <1>10, <1>c, <2>n, RemotePasses
  <2>2. TidyAll(g) => TidyAll(n)
    BY <1>1, <1>5, <1>10, <1>c, <2>n, RemoteTidy
  <2>3. Passes(s, n)
    BY <1>1, <1>5, <2>1, PassesTrans
  <2>4. Write(p, n)
    BY <1>10, <2>n
  <2>5. Progress /\ TidyStep
    BY <1>5, <1>s, <2>2, <2>3, <2>4, WriteProgress, WriteTidy DEF Base, Passes
  <2>6. HeardGrows /\ ~lww_wins(StampOf(r), heard'[p][r.content])
    BY <1>1, <1>10, HeardIs DEF Base
  <2>7. BatchesShrink /\ Removed
    <3>1. CASE Awaited(p, t)
      <4>1. Done(t.from, p, r)
        BY <1>10, <3>1
      <4> QED
        BY <1>1, <1>8, <1>dp, <2>6, <3>1, <4>1, DoneIs DEF Base
    <3>2. CASE ~Awaited(p, t)
      BY <1>9, <1>10, <3>2
    <3> QED
      BY <3>1, <3>2
  <2> QED
    BY <1>6, <1>7, <2>5, <2>6, <2>7 DEF QuietStep
<1>11. CASE /\ Write(p, g) \/ UNCHANGED history
            /\ UNCHANGED heard
            /\ IF Awaited(p, t) THEN GiveUp(t.from, p) ELSE UNCHANGED batch
  <2>1. Progress /\ TidyStep
    <3>1. CASE Write(p, g)
      BY <1>5, <1>s, <3>1, WriteProgress, WriteTidy DEF Base, Passes
    <3>2. CASE UNCHANGED history
      BY <3>2, StillProgress DEF Base, TidyStep
    <3> QED
      BY <1>11, <3>1, <3>2
  <2>2. HeardGrows
    BY <1>11, HeardStill DEF Base
  <2>3. BatchesShrink /\ Removed
    <3>1. CASE Awaited(p, t)
      BY <1>1, <1>11, <1>dp, <3>1, GiveUpIs DEF Base
    <3>2. CASE ~Awaited(p, t)
      BY <1>9, <1>11, <3>2
    <3> QED
      BY <3>1, <3>2
  <2> QED
    BY <1>6, <1>7, <2>1, <2>2, <2>3 DEF QuietStep
<1> QED
  BY <1>3, <1>10, <1>11

-----------------------------------------------------------------------------
(* A crash leaves the database between two statements of an operation.     *)
LEMMA WithinPasses ==
  ASSUME NEW s, Sane(s), NEW c \in Content, NEW k \in 1..Top, NEW steps,
         AllWithin(s, steps, c, k), NEW i \in 1..Len(steps)
  PROVE  Passes(s, steps[i])
<1>t. PICK t : t = steps[i]
  OBVIOUS
<1>1. Within(s, t, c, k) /\ (t.clock = s.clock \/ t.clock = k)
  BY <1>t DEF AllWithin
<1>2. Passes(s, t)
  BY <1>1, WithinProgress DEF Passes
<1> QED
  BY <1>2, <1>t

LEMMA LocalCutsPass ==
  ASSUME Base, NEW d \in Device, NEW steps \in LocalCuts(d), NEW i \in 1..Len(steps),
         NEW s, s = history[d]
  PROVE  Passes(s, steps[i])
<1>1. Sane(s) /\ s \in History
  BY DEF Base, HistoriesOK, Sane
<1>2. CASE steps = <<s>>
  <2>1. Len(steps) = 1 /\ steps[1] = s
    BY <1>2
  <2>2. i = 1
    BY <2>1
  <2> QED
    BY <1>1, <2>1, <2>2, MovesSelf DEF Passes
<1>k. PICK k : k = tick_lamport(s).clock
  OBVIOUS
<1>3. MayTick(d) => k \in 1..Top
  BY <1>k, MayTickTop
<1>4. ASSUME NEW c \in Content, MayTick(d), steps = store(s, c, d) PROVE Passes(s, steps[i])
  <2>1. Len(steps) = 5 /\ \A j \in 1..5 : Within(s, steps[j], c, k) /\ steps[j].clock = k
    BY <1>1, <1>4, <1>k, StoreIs
  <2>2. AllWithin(s, steps, c, k)
    BY <2>1 DEF AllWithin
  <2> QED
    BY <1>1, <1>3, <1>4, <2>2, WithinPasses
<1>5. ASSUME NEW c \in Content, MayTick(d), Present(s, c), NEW b \in BOOLEAN, steps = pin(s, c, b, d)
      PROVE  Passes(s, steps[i])
  <2>1. AllWithin(s, steps, c, k)
    BY <1>1, <1>5, <1>k, PinIs
  <2> QED
    BY <1>1, <1>3, <1>5, <2>1, WithinPasses
<1>6. ASSUME NEW c \in Content, MayTick(d), Present(s, c), steps = delete(s, c, d)
      PROVE  Passes(s, steps[i])
  <2>1. AllWithin(s, steps, c, k)
    BY <1>1, <1>6, <1>k, DeleteIs
  <2> QED
    BY <1>1, <1>3, <1>6, <2>1, WithinPasses
<1>9. ASSUME NEW c \in Content, MayTick(d), Present(s, c), steps = restore(s, c, d)
      PROVE  Passes(s, steps[i])
  <2>1. AllWithin(s, steps, c, k)
    BY <1>1, <1>9, <1>k, RestoreIs
  <2> QED
    BY <1>1, <1>3, <1>9, <2>1, WithinPasses
<1>7. ASSUME steps = evict(s, Unpinned(s)) PROVE Passes(s, steps[i])
  <2>u. PICK u : u = purged(s, Unpinned(s))
    OBVIOUS
  <2>v. PICK v : v = evict(s, Unpinned(s))[1]
    OBVIOUS
  <2>1. Len(steps) = 2 /\ steps[1] = v /\ steps[2] = u
    BY <1>7, <2>u, <2>v DEF evict
  <2>2. i = 1 \/ i = 2
    BY <2>1
  <2>3. Passes(s, v)
    <3>1. \A c \in Unpinned(s) : c \in Content /\ Present(s, c)
      BY DEF Unpinned, Live
    <3> QED
      BY <1>1, <2>v, <3>1, EvictIs DEF Passes
  <2>4. Passes(s, u)
    BY <1>1, <2>u, PurgedThins, ThinsMoves DEF Passes
  <2> QED
    BY <2>1, <2>2, <2>3, <2>4
<1>8. \/ steps = <<s>>
      \/ MayTick(d) /\ \E c \in Content : steps = store(s, c, d)
      \/ MayTick(d) /\ \E c \in Content : \E b \in BOOLEAN : Present(s, c) /\ steps = pin(s, c, b, d)
      \/ MayTick(d) /\ \E c \in Content : Present(s, c) /\ steps = delete(s, c, d)
      \/ MayTick(d) /\ \E c \in Content : Present(s, c) /\ steps = restore(s, c, d)
      \/ steps = evict(s, Unpinned(s))
  <2> DEFINE h     == history[d]
             On(e) == {c \in Content : e \in Happens /\ MayTick(d) /\ Present(h, c)}
             New   == {c \in Content : /\ MayTick(d)
                                       /\ \/ "import" \in Happens
                                          \/ "copy" \in Happens /\ Admits(d, c)}
             A1 == {<<h>>}
             A2 == {store(h, c, d) : c \in New}
             A3 == {pin(h, c, b, d) : c \in On("pin"), b \in BOOLEAN}
             A4 == {delete(h, c, d) : c \in {e \in On("delete") : Live(h, e)}}
             A6 == {restore(h, c, d) : c \in {e \in On("delete") : Restorable(h, e)}}
             A5 == {evict(h, cs) : cs \in {e \in {Unpinned(h)} : "clear" \in Happens}}
  <2>1. LocalCuts(d) = A1 \cup A2 \cup A3 \cup A4 \cup A6 \cup A5
    BY DEF LocalCuts
  <2>2. steps \in A1 => steps = <<s>>
    OBVIOUS
  <2>3. steps \in A2 => MayTick(d) /\ \E c \in Content : steps = store(s, c, d)
    OBVIOUS
  <2>4. steps \in A3 => MayTick(d) /\ \E c \in Content : \E b \in BOOLEAN :
                          Present(s, c) /\ steps = pin(s, c, b, d)
    OBVIOUS
  <2>5. steps \in A4 => MayTick(d) /\ \E c \in Content : Present(s, c) /\ steps = delete(s, c, d)
    OBVIOUS
  <2>6. steps \in A5 => steps = evict(s, Unpinned(s))
    OBVIOUS
  <2>8. steps \in A6 => MayTick(d) /\ \E c \in Content : Present(s, c) /\ steps = restore(s, c, d)
    OBVIOUS
  <2> HIDE DEF A1, A2, A3, A4, A5, A6
  <2>7. steps \in A1 \/ steps \in A2 \/ steps \in A3 \/ steps \in A4 \/ steps \in A5 \/ steps \in A6
    BY <2>1
  <2> QED
    BY <2>2, <2>3, <2>4, <2>5, <2>6, <2>7, <2>8, Zenon
<1> QED
  BY <1>2, <1>4, <1>5, <1>6, <1>7, <1>8, <1>9

LEMMA ApplyCutsPass ==
  ASSUME Base, NEW p \in Device, NEW steps \in ApplyCuts(p), NEW i \in 1..Len(steps),
         NEW s, s = history[p]
  PROVE  Passes(s, steps[i])
<1>0. Sane(s) /\ s \in History
  BY DEF Base, HistoriesOK, Sane
<1>1. PICK d \in Device : /\ <<d, p>> \in Pair
        /\ \E r \in Todo(d, p) : MayStore(p, r) /\ steps \in {Stored(p, s, r), Applied(s, r)}
  BY DEF ApplyCuts
<1>2. PICK r \in Todo(d, p) : MayStore(p, r) /\ steps \in {Stored(p, s, r), Applied(s, r)}
  BY <1>1
<1>3. r \in Record /\ r.lamport \in 1..Top /\ r.content \in Content
  <2>dp. PICK dp : dp = <<d, p>>
    OBVIOUS
  <2>1. dp \in Pair /\ dp[1] = d /\ dp[2] = p
    BY <1>1, <2>dp
  <2> QED
    BY <1>2, <2>1, TodoFacts, RecordFacts
<1>4. CASE steps = Stored(p, s, r)
  <2>1. Len(steps) = 5 /\ \A j \in 1..5 : Passes(s, steps[j])
    BY <1>2, <1>3, <1>4, StoredSteps
  <2> QED
    BY <2>1
<1>5. CASE steps = Applied(s, r)
  <2>1. AllWithin(s, steps, r.content, r.lamport)
    BY <1>0, <1>3, <1>5, AppliedIs
  <2> QED
    BY <1>0, <1>3, <2>1, WithinPasses
<1> QED
  BY <1>2, <1>4, <1>5

LEMMA CrashQuiet ==
  ASSUME Base, NEW d \in Device, Crash(d)
  PROVE  QuietStep /\ Removed
<1>s. PICK s : s = history[d]
  OBVIOUS
<1>1. PICK steps \in LocalCuts(d) \cup ApplyCuts(d) : \E i \in 1..Len(steps) : Write(d, steps[i])
  BY DEF Crash
<1>2. PICK i \in 1..Len(steps) : Write(d, steps[i])
  BY <1>1
<1>3. Passes(s, steps[i])
  BY <1>1, <1>s, LocalCutsPass, ApplyCutsPass
<1>4. Progress
  BY <1>2, <1>3, <1>s, WriteProgress DEF Base, Passes
<1>5. UNCHANGED <<private, cursor, heard>> /\ suspended' = [suspended EXCEPT ![d] = {}]
  BY DEF Crash
<1>6. CursorsKept /\ HeardGrows /\ private' \in [Device -> BOOLEAN]
  BY <1>5, CursorStill, HeardStill DEF Base
<1>7. TasksKept
  <2>1. suspended \in [Device -> SUBSET Task]
    BY DEF Base, TasksOK
  <2>2. suspended' \in [Device -> SUBSET Task]
    BY <1>5, <2>1
  <2>3. \A e \in Device : suspended'[e] \subseteq suspended[e]
    BY <1>5, <2>1
  <2> QED
    BY <2>2, <2>3 DEF Base, TasksOK, TasksKept
<1>8. \A dp \in Pair : batch'[dp] = None \/ batch'[dp] = batch[dp]
  BY DEF Crash
<1>9. batch' \in [Pair -> Batch \cup {None}]
  BY DEF Base, Crash, BatchesOK
<1>10. BatchesShrink /\ Removed
  BY <1>8, <1>9 DEF BatchesShrink, Removed
<1> QED
  BY <1>4, <1>6, <1>7, <1>10 DEF QuietStep

-----------------------------------------------------------------------------
(* A page of the feed: every row up to its end is one of those it consumes.*)
PageRecord(s, c, r) == /\ InFeed(s.rows[c]) /\ Sendable(s.rows[c])
                       /\ r = RecordOf(c, s.rows[c])

LEMMA PageNext ==
  ASSUME NEW s, Sane(s), NEW since \in Nat, since <= s.seq, NEW limit,
         NEW page, page = sync_changes(s, since, limit)
  PROVE  /\ page.next \in Nat /\ page.next >= since /\ page.next <= s.seq
         /\ page.next = since \/ \E c \in Consumed(s, since, limit) : page.next = s.rows[c].change_seq
<1>rs. PICK rs : rs = Consumed(s, since, limit)
  OBVIOUS
<1>S. PICK S : S = {since} \cup {s.rows[c].change_seq : c \in rs}
  OBVIOUS
<1>1. s \in History /\ s.seq \in Nat
  BY HistoryFacts DEF Sane
<1>2. \A c \in rs : c \in Content /\ Present(s, c)
  BY <1>rs DEF Consumed, changes_since, InFeed, Present
<1>3. \A c \in rs : s.rows[c].change_seq \in 1..s.seq
  BY <1>2 DEF Sane
<1>4. S \subseteq 0..s.seq /\ S # {}
  BY <1>1, <1>3, <1>S
<1>5. Max(S) \in S /\ \A y \in S : Max(S) >= y
  BY <1>1, <1>4, MaxOf
<1>6. page.next = Max(S)
  BY <1>rs, <1>S DEF sync_changes
<1>7. page.next \in S /\ page.next >= since /\ page.next \in 0..s.seq
  BY <1>4, <1>5, <1>6, <1>S
<1>8. page.next \in Nat /\ page.next <= s.seq
  BY <1>1, <1>7
<1>9. page.next = since \/ \E c \in rs : page.next = s.rows[c].change_seq
  BY <1>7, <1>S
<1> QED
  BY <1>7, <1>8, <1>9, <1>rs

LEMMA PageRecords ==
  ASSUME NEW s, Sane(s), NEW since, NEW limit, NEW page, page = sync_changes(s, since, limit),
         NEW r \in page.records
  PROVE  /\ r \in Record /\ r.lamport \in 1..Top /\ r.content \in Content
         /\ PageRecord(s, r.content, r)
         /\ s.rows[r.content].change_seq > since
<1>1. PICK c \in Consumed(s, since, limit) : Sendable(s.rows[c]) /\ r = RecordOf(c, s.rows[c])
  BY DEF sync_changes
<1>2. c \in Content /\ InFeed(s.rows[c]) /\ Present(s, c) /\ s.rows[c].change_seq > since
  BY <1>1 DEF Consumed, changes_since, InFeed, Present
<1>3. s.rows[c] \in Row /\ s.rows[c].lamport \in 1..Top
  BY <1>2, HistoryFacts DEF Sane
<1>4. r \in Record /\ r.lamport = s.rows[c].lamport /\ r.content = c
  <2>1. (s.rows[c].deleted # "no") \in BOOLEAN
    OBVIOUS
  <2> QED
    BY <1>1, <1>2, <1>3, <2>1 DEF Record, RecordOf, Row
<1> QED
  BY <1>1, <1>2, <1>3, <1>4 DEF PageRecord

LEMMA PageWhole ==
  ASSUME NEW s, Sane(s), NEW since \in Nat, since <= s.seq, NEW limit \in Nat,
         NEW page, page = sync_changes(s, since, limit),
         NEW c \in Content, InFeed(s.rows[c]), Sendable(s.rows[c]),
         s.rows[c].change_seq > since, s.rows[c].change_seq <= page.next
  PROVE  RecordOf(c, s.rows[c]) \in page.records
<1> DEFINE Before(x) == {e \in changes_since(s, since) :
                           Sendable(s.rows[e]) /\ s.rows[e].change_seq < s.rows[x].change_seq}
<1>0. s \in History /\ s.seq \in Nat /\ Present(s, c)
  BY HistoryFacts DEF Sane, InFeed, Present
<1>1. /\ page.next \in Nat
      /\ page.next = since \/ \E e \in Consumed(s, since, limit) : page.next = s.rows[e].change_seq
  BY PageNext
<1>2. s.rows[c].change_seq \in Nat
  BY <1>0 DEF Sane
<1>3. PICK e \in Consumed(s, since, limit) : page.next = s.rows[e].change_seq
  BY <1>1, <1>2
<1>4. Cardinality(Before(e)) < limit
  BY <1>3 DEF Consumed
<1>5. Before(c) \subseteq Before(e)
  <2>1. ASSUME NEW x \in Before(c) PROVE x \in Before(e)
    <3>1. x \in Content /\ Present(s, x)
      BY DEF changes_since, InFeed, Present
    <3>2. s.rows[x].change_seq \in Nat
      BY <1>0, <3>1 DEF Sane
    <3> QED
      BY <1>1, <1>2, <1>3, <3>2
  <2> QED
    BY <2>1
<1>6. IsFiniteSet(Before(e)) /\ IsFiniteSet(Before(c))
  <2>1. Before(e) \subseteq Content /\ Before(c) \subseteq Content
    BY DEF changes_since
  <2> HIDE DEF Before
  <2> QED
    BY <2>1, ContentAssumption, FS_Subset
<1>7. Cardinality(Before(c)) < limit
  <2> HIDE DEF Before
  <2>1. Cardinality(Before(c)) <= Cardinality(Before(e))
    BY <1>5, <1>6, FS_Subset
  <2>2. Cardinality(Before(c)) \in Nat /\ Cardinality(Before(e)) \in Nat
    BY <1>6, FS_CardinalityType
  <2> QED
    BY <1>4, <2>1, <2>2
<1>8. c \in Consumed(s, since, limit)
  BY <1>7 DEF Consumed, changes_since
<1> QED
  BY <1>8 DEF sync_changes

-----------------------------------------------------------------------------
(* All steps.                                                              *)
Open == private = [d \in Device |-> FALSE]

OtherStep ==
  /\ QuietStep
  /\ Open => Removed
  /\ "crash" \notin Happens => TidyStep

LEMMA OpenIs ==
  ASSUME Open, NEW d \in Device
  PROVE  private[d] = FALSE
BY DEF Open

LEMMA LocalOther ==
  ASSUME Base, NEW d \in Device, LocalStep(d)
  PROVE  OtherStep
BY LocalQuiet, LocalTidy DEF OtherStep

LEMMA UserSteps ==
  ASSUME Base, NEW d \in Device, UserNext(d)
  PROVE  OtherStep
<1>1. ASSUME LocalStep(d) PROVE OtherStep
  BY <1>1, LocalOther
<1>2. ASSUME NEW c \in Content, Capture(d, c) PROVE OtherStep
  BY <1>1, <1>2, CaptureLocal
<1>3. ASSUME NEW c \in Content, NEW pinned \in BOOLEAN, SetPinned(d, c, pinned) PROVE OtherStep
  BY <1>1, <1>3, PinLocal
<1>4. ASSUME NEW c \in Content, Delete(d, c) PROVE OtherStep
  BY <1>1, <1>4, DeleteLocal
<1>5. ASSUME NEW c \in Content, Restore(d, c) PROVE OtherStep
  BY <1>1, <1>5, RestoreLocal
<1>6. ASSUME NEW c \in Content, NEW pinned \in BOOLEAN, Import(d, c, pinned) PROVE OtherStep
  BY <1>1, <1>6, ImportLocal
<1>7. CASE Clear(d)
  BY <1>1, <1>7, ClearLocal
<1>8. CASE Wipe(d)
  BY <1>1, <1>8, WipeLocal
<1>9. CASE Maintain(d)
  BY <1>1, <1>9, MaintainLocal
<1>10. UNCHANGED history => TidyStep
  BY DEF TidyStep
<1>11. CASE TogglePrivate(d)
  BY <1>10, <1>11, TogglePrivateQuiet DEF OtherStep, TogglePrivate
<1>12. CASE Rejoin(d)
  BY <1>10, <1>12, RejoinQuiet DEF OtherStep, Rejoin
<1>13. CASE Crash(d)
  BY <1>13, CrashQuiet DEF OtherStep, Crash
<1> QED
  BY <1>2, <1>3, <1>4, <1>5, <1>6, <1>7, <1>8, <1>9, <1>11, <1>12, <1>13 DEF UserNext

LEMMA JudgeOther ==
  ASSUME Base, NEW dp \in Pair, NEW r, JudgeStep(dp, r)
  PROVE  OtherStep
<1>1. dp[2] \in Device
  BY PairFacts
<1> QED
  BY <1>1, JudgeQuiet, JudgeTidy, OpenIs DEF OtherStep

LEMMA NextSteps ==
  ASSUME Base, Next
  PROVE  \/ OtherStep
         \/ \E dp \in Pair : Push(dp[1], dp[2])
         \/ \E dp \in Pair : Confirm(dp[1], dp[2])
<1>1. UNCHANGED history => TidyStep
  BY DEF TidyStep
<1>2. CASE \E d \in Device : UserNext(d)
  BY <1>2, UserSteps
<1>3. ASSUME NEW dp \in Pair, SyncNext(dp[1], dp[2])
      PROVE  OtherStep \/ Push(dp[1], dp[2]) \/ Confirm(dp[1], dp[2])
  <2>1. CASE CheckPaused(dp[1], dp[2])
    BY <1>1, <2>1, CheckPausedQuiet DEF OtherStep, CheckPaused
  <2>2. ASSUME NEW r \in Todo(dp[1], dp[2]), Apply(dp[1], dp[2], r) PROVE OtherStep
    BY <2>2, ApplyJudges, JudgeOther
  <2>3. ASSUME NEW r \in Todo(dp[1], dp[2]), ApplyNew(dp[1], dp[2], r) PROVE OtherStep
    BY <2>3, ApplyNewJudges, JudgeOther
  <2>4. ASSUME NEW r \in Todo(dp[1], dp[2]), ApplyImage(dp[1], dp[2], r) PROVE OtherStep
    BY <2>4, ApplyImageQuiet DEF OtherStep
  <2> QED
    BY <1>3, <2>1, <2>2, <2>3, <2>4 DEF SyncNext
<1>4. ASSUME NEW dp \in Pair, Drop(dp[1], dp[2]) PROVE OtherStep
  BY <1>1, <1>4, DropQuiet DEF OtherStep, Drop
<1>5. ASSUME NEW p \in Device, NEW t \in suspended[p], Resume(p, t) PROVE OtherStep
  BY <1>5, ResumeQuiet DEF OtherStep
<1> QED
  BY <1>2, <1>3, <1>4, <1>5 DEF Next, ResumeNext

LEMMA QuietBase ==
  ASSUME Base, QuietStep
  PROVE  Base'
<1>1. /\ history' \in [Device -> History]
      /\ \A d \in Device : Sane(history'[d]) /\ Moves(history[d], history'[d])
  BY DEF QuietStep, Progress
<1>2. \A d \in Device : history[d].seq \in Nat /\ history'[d].seq \in Nat /\ history'[d].seq >= history[d].seq
  BY <1>1, HistoryFacts DEF Base, HistoriesOK, Moves
<1>3. HistoriesOK'
  BY <1>1 DEF HistoriesOK
<1>4. TasksOK'
  BY DEF QuietStep, TasksKept, TasksOK
<1>5. CursorsOK'
  <2>1. cursor' \in [Pair -> Nat] /\ cursor \in [Pair -> Nat]
    BY DEF QuietStep, CursorsKept, Base, CursorsOK
  <2>2. ASSUME NEW dp \in Pair PROVE cursor'[dp] <= history'[dp[1]].seq
    <3>1. dp[1] \in Device /\ cursor[dp] \in Nat
      BY <2>1, PairFacts
    <3>2. cursor[dp] <= history[dp[1]].seq
      BY DEF Base, CursorsOK
    <3>3. cursor'[dp] = 0 \/ cursor'[dp] = cursor[dp]
      BY DEF QuietStep, CursorsKept
    <3> QED
      BY <1>2, <3>1, <3>2, <3>3
  <2> QED
    BY <2>1, <2>2 DEF CursorsOK
<1>6. BatchesOK'
  <2>1. batch' \in [Pair -> Batch \cup {None}]
    BY DEF QuietStep, BatchesShrink
  <2>2. ASSUME NEW dp \in Pair, batch'[dp] # None
        PROVE  /\ batch'[dp].next <= history'[dp[1]].seq
               /\ \A r \in batch'[dp].todo : r.lamport \in 1..Top
    <3>1. batch[dp] # None /\ batch'[dp].next = batch[dp].next /\ batch'[dp].todo \subseteq batch[dp].todo
      BY <2>2 DEF QuietStep, BatchesShrink
    <3>2. batch[dp].next <= history[dp[1]].seq /\ \A r \in batch[dp].todo : r.lamport \in 1..Top
      BY <3>1 DEF Base, BatchesOK
    <3>3. dp[1] \in Device /\ batch[dp].next \in Nat
      BY <3>1, PairFacts, BatchFacts DEF Base
    <3> QED
      BY <1>2, <3>1, <3>2, <3>3
  <2> QED
    BY <2>1, <2>2 DEF BatchesOK
<1>7. private' \in [Device -> BOOLEAN] /\ heard' \in [Device -> [Content -> Stamp]]
  BY DEF QuietStep, HeardGrows
<1> QED
  BY <1>3, <1>4, <1>5, <1>6, <1>7 DEF Base

(* Push: the cursor or the batch takes the page's end. *)
Paged(dp, page) ==
  /\ page = sync_changes(history[dp[1]], cursor[dp], PAGE)
  /\ page.next \in Nat /\ page.next >= cursor[dp] /\ page.next <= history[dp[1]].seq

ForPeer(dp, page) == {r \in page.records : r.device_id # dp[2]}

SentOn(dp, page) ==
  /\ UNCHANGED <<history, private, suspended, heard>>
  /\ \/ /\ ForPeer(dp, page) = {}
        /\ cursor' = [cursor EXCEPT ![dp] = page.next]
        /\ UNCHANGED batch
     \/ /\ batch' = [batch EXCEPT ![dp] =
              [todo |-> ForPeer(dp, page), next |-> page.next, state |-> "sent"]]
        /\ UNCHANGED cursor

LEMMA PushIs ==
  ASSUME Base, NEW dp \in Pair, Push(dp[1], dp[2])
  PROVE  /\ batch[dp] = None
         /\ \E page : Paged(dp, page) /\ SentOn(dp, page)
<1>1. dp = <<dp[1], dp[2]>> /\ dp[1] \in Device
  BY PairFacts
<1>page. PICK page : page = sync_changes(history[dp[1]], cursor[dp], PAGE)
  OBVIOUS
<1>2. Sane(history[dp[1]]) /\ cursor[dp] \in Nat /\ cursor[dp] <= history[dp[1]].seq
  BY <1>1 DEF Base, HistoriesOK, CursorsOK
<1>3. Paged(dp, page)
  BY <1>2, <1>page, PageNext DEF Paged
<1>4. batch[dp] = None /\ SentOn(dp, page)
  BY <1>1, <1>page DEF Push, MayPush, SentOn, ForPeer
<1> QED
  BY <1>3, <1>4

LEMMA SentBatch ==
  ASSUME Base, NEW dp \in Pair, NEW page, Paged(dp, page),
         NEW b, b = [todo |-> ForPeer(dp, page), next |-> page.next, state |-> "sent"]
  PROVE  /\ b \in Batch /\ b # None /\ b.todo = ForPeer(dp, page) /\ b.next = page.next
         /\ \A r \in b.todo : r \in Record /\ r.lamport \in 1..Top
<1>1. Sane(history[dp[1]])
  BY PairFacts DEF Base, HistoriesOK
<1>2. \A r \in page.records : r \in Record /\ r.lamport \in 1..Top
  BY <1>1, PageRecords DEF Paged
<1>3. ForPeer(dp, page) \subseteq Record
  BY <1>2 DEF ForPeer
<1>4. b \in Batch /\ b.todo = ForPeer(dp, page) /\ b.next = page.next
  BY <1>3 DEF Batch, Paged
<1> QED
  BY <1>2, <1>4, BatchesAreThere DEF ForPeer

LEMMA PushBase ==
  ASSUME Base, NEW dp \in Pair, Push(dp[1], dp[2])
  PROVE  Base'
<1>1. PICK page : Paged(dp, page) /\ SentOn(dp, page)
  BY PushIs
<1>2. /\ history' = history /\ private' = private /\ suspended' = suspended /\ heard' = heard
  BY <1>1 DEF SentOn
<1>3. HistoriesOK' /\ TasksOK' /\ private' \in [Device -> BOOLEAN] /\ heard' \in [Device -> [Content -> Stamp]]
  BY <1>2 DEF Base, HistoriesOK, TasksOK
<1>4. CASE cursor' = [cursor EXCEPT ![dp] = page.next] /\ UNCHANGED batch
  <2>1. cursor \in [Pair -> Nat] /\ \A x \in Pair : cursor[x] <= history[x[1]].seq
    BY DEF Base, CursorsOK
  <2>2. cursor' \in [Pair -> Nat] /\ \A x \in Pair : cursor'[x] = IF x = dp THEN page.next ELSE cursor[x]
    BY <1>1, <1>4, <2>1 DEF Paged
  <2>3. CursorsOK'
    BY <1>1, <1>2, <2>1, <2>2 DEF Paged, CursorsOK
  <2>4. BatchesOK'
    BY <1>2, <1>4 DEF Base, BatchesOK
  <2> QED
    BY <1>3, <2>3, <2>4 DEF Base
<1>b. PICK b : b = [todo |-> ForPeer(dp, page), next |-> page.next, state |-> "sent"]
  OBVIOUS
<1>5. CASE batch' = [batch EXCEPT ![dp] = b] /\ UNCHANGED cursor
  <2>1. /\ b \in Batch /\ b # None /\ b.next = page.next
        /\ \A r \in b.todo : r \in Record /\ r.lamport \in 1..Top
    BY <1>1, <1>b, SentBatch
  <2>2. batch \in [Pair -> Batch \cup {None}]
    BY DEF Base, BatchesOK
  <2>3. batch' \in [Pair -> Batch \cup {None}] /\ \A x \in Pair : batch'[x] = IF x = dp THEN b ELSE batch[x]
    BY <1>5, <2>1, <2>2
  <2>4. b.next <= history[dp[1]].seq
    BY <1>1, <2>1 DEF Paged
  <2>5. BatchesOK'
    BY <1>2, <2>1, <2>3, <2>4 DEF Base, BatchesOK
  <2>6. CursorsOK'
    BY <1>2, <1>5 DEF Base, CursorsOK
  <2> QED
    BY <1>3, <2>5, <2>6 DEF Base
<1> QED
  BY <1>1, <1>4, <1>5, <1>b DEF SentOn

(* Confirm: the cursor takes the end of a batch with nothing left to do. *)
LEMMA ConfirmIs ==
  ASSUME Base, NEW dp \in Pair, Confirm(dp[1], dp[2])
  PROVE  /\ batch[dp] # None /\ batch[dp].todo = {} /\ batch[dp].next \in Nat
         /\ UNCHANGED <<history, private, suspended, heard>>
         /\ cursor' \in [Pair -> Nat]
         /\ \A x \in Pair : cursor'[x] = IF x = dp THEN batch[dp].next ELSE cursor[x]
         /\ BatchesShrink /\ batch'[dp] = None /\ OthersKeep(dp)
<1>1. dp = <<dp[1], dp[2]>>
  BY PairFacts
<1>2. batch[dp] # None /\ batch[dp].todo = {} /\ UNCHANGED <<history, private, suspended, heard>>
  BY <1>1 DEF Confirm, InFlight
<1>3. cursor' = [cursor EXCEPT ![dp] = batch[dp].next] /\ GiveUp(dp[1], dp[2])
  BY <1>1 DEF Confirm
<1>4. batch[dp].next \in Nat /\ cursor \in [Pair -> Nat]
  BY <1>2, BatchFacts DEF Base, CursorsOK
<1>5. BatchesShrink /\ batch'[dp] = None /\ OthersKeep(dp)
  BY <1>1, <1>3, GiveUpIs DEF Base
<1>6. /\ cursor' \in [Pair -> Nat]
      /\ \A x \in Pair : cursor'[x] = IF x = dp THEN batch[dp].next ELSE cursor[x]
  BY <1>3, <1>4
<1> QED
  BY <1>2, <1>4, <1>5, <1>6

LEMMA ConfirmBase ==
  ASSUME Base, NEW dp \in Pair, Confirm(dp[1], dp[2])
  PROVE  Base'
<1>1. /\ batch[dp] # None /\ UNCHANGED <<history, private, suspended, heard>>
      /\ cursor' \in [Pair -> Nat]
      /\ \A x \in Pair : cursor'[x] = IF x = dp THEN batch[dp].next ELSE cursor[x]
      /\ BatchesShrink
  BY ConfirmIs
<1>2. HistoriesOK' /\ TasksOK' /\ private' \in [Device -> BOOLEAN] /\ heard' \in [Device -> [Content -> Stamp]]
  BY <1>1 DEF Base, HistoriesOK, TasksOK
<1>3. CursorsOK'
  <2>1. batch[dp].next <= history[dp[1]].seq /\ \A x \in Pair : cursor[x] <= history[x[1]].seq
    BY <1>1 DEF Base, BatchesOK, CursorsOK
  <2> QED
    BY <1>1, <2>1 DEF CursorsOK
<1>4. BatchesOK'
  BY <1>1 DEF BatchesShrink, Base, BatchesOK
<1> QED
  BY <1>2, <1>3, <1>4 DEF Base

LEMMA BaseStep ==
  ASSUME Base, [Next]_vars
  PROVE  Base'
<1>1. CASE UNCHANGED vars
  BY <1>1 DEF vars, Base, HistoriesOK, TasksOK, CursorsOK, BatchesOK
<1>2. CASE Next
  BY <1>2, NextSteps, QuietBase, PushBase, ConfirmBase DEF OtherStep
<1> QED
  BY <1>1, <1>2

LEMMA EmptySane ==
  Sane(EmptyHistory) /\ EmptyHistory.seq = 0
<1>rs. PICK rs : rs = [c \in Content |-> Absent]
  OBVIOUS
<1>1. EmptyHistory = [rows |-> rs, clock |-> 0, seq |-> 0]
  BY <1>rs DEF EmptyHistory
<1>2. rs \in [Content -> Row \cup {Absent}] /\ \A c \in Content : rs[c] = Absent
  BY <1>rs
<1>3. EmptyHistory \in History /\ EmptyHistory.rows = rs /\ EmptyHistory.clock = 0 /\ EmptyHistory.seq = 0
  BY <1>1, <1>2 DEF History
<1> QED
  BY <1>2, <1>3, TopFacts DEF Sane, Present

LEMMA BaseInit ==
  Init => Base
<1> SUFFICES ASSUME Init PROVE Base
  OBVIOUS
<1>1. \A d \in Device : history[d] = EmptyHistory
  BY DEF Init
<1>2. Sane(EmptyHistory) /\ EmptyHistory \in History /\ EmptyHistory.seq = 0
  BY EmptySane DEF Sane
<1>3. HistoriesOK
  BY <1>1, <1>2 DEF Init, HistoriesOK
<1>4. TasksOK /\ private \in [Device -> BOOLEAN]
  BY DEF Init, TasksOK
<1>5. CursorsOK
  BY <1>1, <1>2, PairFacts DEF Init, CursorsOK
<1>6. BatchesOK
  BY DEF Init, BatchesOK
<1>7. heard \in [Device -> [Content -> Stamp]]
  BY DEF Init, NoStamp, Stamp
<1> QED
  BY <1>3, <1>4, <1>5, <1>6, <1>7 DEF Base

LEMMA BaseHolds ==
  Spec => []Base
<1>1. Base /\ [Next]_vars => Base'
  BY BaseStep
<1> QED
  BY <1>1, BaseInit, PTL DEF Spec

LEMMA BaseTypes ==
  Base => TypeOK
<1> SUFFICES ASSUME Base PROVE TypeOK
  OBVIOUS
<1>1. history \in [Device -> History] /\ private \in [Device -> BOOLEAN]
  BY DEF Base, HistoriesOK
<1>2. \A d \in Device : suspended[d] \subseteq Task
  BY DEF Base, TasksOK
<1>3. cursor \in [Pair -> Nat] /\ \A dp \in Pair : cursor[dp] <= history[dp[1]].seq
  BY DEF Base, CursorsOK
<1>4. batch \in [Pair -> Batch \cup {None}]
  BY DEF Base, BatchesOK
<1>5. heard \in [Device -> [Content -> Nat \X (Device \cup {0})]]
  BY DEF Base, Stamp
<1> QED
  BY <1>1, <1>2, <1>3, <1>4, <1>5 DEF TypeOK

(* The state is what the code's types say, in every instance, and no peer  *)
(* has confirmed more of a change feed than there is of it.                *)
THEOREM TypeCorrect ==
  Spec => []TypeOK
BY BaseHolds, BaseTypes, PTL

-----------------------------------------------------------------------------
(* The feed.  Up to the cursor everything has been judged; up to the end   *)
(* of a batch, everything that is not still in it.                         *)
Offered(row, n) == InFeed(row) /\ Sendable(row) /\ row.change_seq <= n

Judged(row, p, c) == row.device_id = p \/ ~lww_wins(StampOf(row), heard[p][c])

Pending(todo, row, c) == \E r \in todo : r.content = c /\ StampOf(r) = StampOf(row)

CursorFeed ==
  \A dp \in Pair : \A c \in Content :
    Offered(history[dp[1]].rows[c], cursor[dp]) => Judged(history[dp[1]].rows[c], dp[2], c)

BatchFeed ==
  \A dp \in Pair : batch[dp] # None => \A c \in Content :
    Offered(history[dp[1]].rows[c], batch[dp].next) =>
      \/ Judged(history[dp[1]].rows[c], dp[2], c)
      \/ Pending(batch[dp].todo, history[dp[1]].rows[c], c)

FeedOK == Open /\ CursorFeed /\ BatchFeed

LEMMA SameStamp ==
  ASSUME NEW row, NEW new, StampOf(new) = StampOf(row)
  PROVE  new.lamport = row.lamport /\ new.device_id = row.device_id
BY DEF StampOf

(* Where a row that is offered after the step was before it. *)
LEMMA OfferedBefore ==
  ASSUME NEW s, Sane(s), NEW t, Sane(t), Moves(s, t), NEW c \in Content, NEW n \in Nat, n <= s.seq,
         Offered(t.rows[c], n)
  PROVE  /\ s.rows[c] \in Row /\ Offered(s.rows[c], n) /\ StampOf(t.rows[c]) = StampOf(s.rows[c])
         /\ t.rows[c].change_seq = s.rows[c].change_seq /\ n > 0
<1>1. s \in History /\ t \in History /\ s.seq \in Nat /\ t.seq \in Nat
  BY HistoryFacts DEF Sane
<1>2. Present(t, c)
  BY DEF Offered, InFeed, Present
<1>3. t.rows[c].change_seq \in 1..t.seq /\ t.rows[c].change_seq <= n
  BY <1>2 DEF Sane, Offered
<1>4. Held(s.rows[c], t.rows[c])
  <2>1. RowMoves(s, t, c)
    BY DEF Moves
  <2>2. t.rows[c].change_seq \notin (s.seq + 1)..t.seq
    BY <1>1, <1>3
  <2> QED
    BY <1>2, <2>1, <2>2 DEF RowMoves, Present
<1>5. s.rows[c] \in Row
  BY <1>1, <1>4, HistoryFacts DEF Held, Present
<1> QED
  BY <1>1, <1>3, <1>4, <1>5 DEF Held, Offered

LEMMA JudgedStays ==
  ASSUME Base, Base', HeardGrows, NEW row \in Row, NEW new, StampOf(new) = StampOf(row),
         NEW p \in Device, NEW c \in Content, Judged(row, p, c)
  PROVE  Judged(new, p, c)'
<1>1. new.device_id = row.device_id
  BY SameStamp
<1>2. CASE row.device_id = p
  BY <1>1, <1>2 DEF Judged
<1>3. CASE ~lww_wins(StampOf(row), heard[p][c])
  <2>1. StampOf(row) \in Stamp /\ heard[p][c] \in Stamp /\ heard'[p][c] \in Stamp
    BY RowStamps DEF Base
  <2>2. ~lww_wins(heard[p][c], heard'[p][c])
    BY DEF HeardGrows
  <2>3. ~lww_wins(StampOf(row), heard'[p][c])
    BY <1>3, <2>1, <2>2, StampOrder
  <2> QED
    BY <2>3 DEF Judged
<1> QED
  BY <1>2, <1>3 DEF Judged

LEMMA QuietFeed ==
  ASSUME Base, Base', QuietStep, Removed, CursorFeed, BatchFeed
  PROVE  CursorFeed' /\ BatchFeed'
<1>1. \A d \in Device : Sane(history[d]) /\ Sane(history'[d]) /\ Moves(history[d], history'[d])
  BY DEF QuietStep, Progress, Base, HistoriesOK
<1>2. HeardGrows
  BY DEF QuietStep
<1>3. ASSUME NEW dp \in Pair, NEW c \in Content, Offered(history'[dp[1]].rows[c], cursor'[dp])
      PROVE  Judged(history[dp[1]].rows[c], dp[2], c)'
  <2>s. PICK s : s = history[dp[1]]
    OBVIOUS
  <2>t. PICK t : t = history'[dp[1]]
    OBVIOUS
  <2>1. dp[1] \in Device /\ dp[2] \in Device
    BY PairFacts
  <2>2. Sane(s) /\ Sane(t) /\ Moves(s, t) /\ s.seq \in Nat
    BY <1>1, <2>1, <2>s, <2>t, HistoryFacts DEF Sane
  <2>3. cursor'[dp] \in Nat /\ cursor'[dp] <= s.seq /\ (cursor'[dp] = 0 \/ cursor'[dp] = cursor[dp])
    <3>1. cursor'[dp] = 0 \/ cursor'[dp] = cursor[dp]
      BY DEF QuietStep, CursorsKept
    <3>2. cursor[dp] \in Nat /\ cursor[dp] <= s.seq
      BY <2>s DEF Base, CursorsOK
    <3> QED
      BY <2>2, <3>1, <3>2
  <2>4. /\ s.rows[c] \in Row /\ Offered(s.rows[c], cursor'[dp]) /\ StampOf(t.rows[c]) = StampOf(s.rows[c])
        /\ cursor'[dp] > 0
    BY <1>3, <2>2, <2>3, <2>t, OfferedBefore
  <2>5. cursor'[dp] = cursor[dp]
    BY <2>3, <2>4
  <2>6. Judged(s.rows[c], dp[2], c)
    BY <2>4, <2>5, <2>s DEF CursorFeed
  <2>7. Judged(t.rows[c], dp[2], c)'
    <3>new. PICK new : new = t.rows[c]
      OBVIOUS
    <3>1. new.device_id = s.rows[c].device_id /\ StampOf(new) = StampOf(s.rows[c])
      BY <2>4, <3>new, SameStamp
    <3> QED
      BY <1>2, <2>1, <2>4, <2>6, JudgedStays
  <2> QED
    BY <2>7, <2>t
<1>4. ASSUME NEW dp \in Pair, batch'[dp] # None, NEW c \in Content,
             Offered(history'[dp[1]].rows[c], batch'[dp].next)
      PROVE  \/ Judged(history[dp[1]].rows[c], dp[2], c)'
             \/ Pending(batch[dp].todo, history[dp[1]].rows[c], c)'
  <2>s. PICK s : s = history[dp[1]]
    OBVIOUS
  <2>t. PICK t : t = history'[dp[1]]
    OBVIOUS
  <2>1. dp[1] \in Device /\ dp[2] \in Device
    BY PairFacts
  <2>2. Sane(s) /\ Sane(t) /\ Moves(s, t) /\ s.seq \in Nat
    BY <1>1, <2>1, <2>s, <2>t, HistoryFacts DEF Sane
  <2>3. batch[dp] # None /\ batch'[dp].next = batch[dp].next
    BY <1>4 DEF QuietStep, BatchesShrink
  <2>4. batch[dp].next \in Nat /\ batch[dp].next <= s.seq
    BY <2>3, <2>s, BatchFacts DEF Base, BatchesOK
  <2>5. /\ s.rows[c] \in Row /\ Offered(s.rows[c], batch[dp].next) /\ StampOf(t.rows[c]) = StampOf(s.rows[c])
    BY <1>4, <2>2, <2>3, <2>4, <2>t, OfferedBefore
  <2>6. Judged(s.rows[c], dp[2], c) \/ Pending(batch[dp].todo, s.rows[c], c)
    BY <2>3, <2>5, <2>s DEF BatchFeed
  <2>7. CASE Judged(s.rows[c], dp[2], c)
    <3>1. Judged(t.rows[c], dp[2], c)'
      BY <1>2, <2>1, <2>5, <2>7, JudgedStays
    <3> QED
      BY <3>1, <2>t
  <2>8. CASE Pending(batch[dp].todo, s.rows[c], c)
    <3>1. PICK r \in batch[dp].todo : r.content = c /\ StampOf(r) = StampOf(s.rows[c])
      BY <2>8 DEF Pending
    <3>2. r \in batch'[dp].todo \/ ~lww_wins(StampOf(r), heard'[dp[2]][c])
      BY <1>4, <3>1 DEF Removed
    <3> QED
      BY <2>5, <2>t, <3>1, <3>2 DEF Pending, Judged
  <2> QED
    BY <2>6, <2>7, <2>8
<1> QED
  BY <1>3, <1>4 DEF CursorFeed, BatchFeed

(* A page: what it offers is for the peer, from the peer, or was judged. *)
LEMMA PagedFeed ==
  ASSUME Base, CursorFeed, NEW dp \in Pair, NEW page, Paged(dp, page), NEW c \in Content,
         Offered(history[dp[1]].rows[c], page.next)
  PROVE  \/ Judged(history[dp[1]].rows[c], dp[2], c)
         \/ Pending(ForPeer(dp, page), history[dp[1]].rows[c], c)
<1>s. PICK s : s = history[dp[1]]
  OBVIOUS
<1>row. PICK row : row = s.rows[c]
  OBVIOUS
<1>1. Sane(s) /\ cursor[dp] \in Nat /\ cursor[dp] <= s.seq
  BY <1>s, PairFacts DEF Base, HistoriesOK, CursorsOK
<1>2. InFeed(row) /\ Sendable(row) /\ row.change_seq <= page.next
  BY <1>s, <1>row DEF Offered
<1>3. row.change_seq \in Nat /\ Present(s, c)
  BY <1>1, <1>2, <1>row DEF Sane, InFeed, Present
<1>4. CASE row.change_seq <= cursor[dp]
  BY <1>2, <1>4, <1>s, <1>row DEF CursorFeed, Offered
<1>5. CASE row.change_seq > cursor[dp]
  <2>r. PICK r : r = RecordOf(c, row)
    OBVIOUS
  <2>1. PAGE \in Nat
    BY BoundAssumption
  <2>2. r \in page.records
    BY <1>1, <1>2, <1>5, <1>s, <1>row, <2>1, <2>r, PageWhole DEF Paged
  <2>3. r.content = c /\ StampOf(r) = StampOf(row) /\ r.device_id = row.device_id
    BY <2>r DEF RecordOf, StampOf
  <2>4. CASE r.device_id = dp[2]
    BY <1>s, <1>row, <2>3, <2>4 DEF Judged
  <2>5. CASE r.device_id # dp[2]
    BY <1>s, <1>row, <2>2, <2>3, <2>5 DEF Pending, ForPeer
  <2> QED
    BY <2>4, <2>5
<1> QED
  BY <1>1, <1>3, <1>4, <1>5

LEMMA PushFeed ==
  ASSUME Base, NEW dp \in Pair, Push(dp[1], dp[2]), CursorFeed, BatchFeed
  PROVE  CursorFeed' /\ BatchFeed'
<1>1. PICK page : Paged(dp, page) /\ SentOn(dp, page)
  BY PushIs
<1>2. history' = history /\ heard' = heard
  BY <1>1 DEF SentOn
<1>3. \A row, p, c : Judged(row, p, c)' <=> Judged(row, p, c)
  BY <1>2 DEF Judged
<1>4. CASE ForPeer(dp, page) = {} /\ cursor' = [cursor EXCEPT ![dp] = page.next] /\ UNCHANGED batch
  <2>1. \A x \in Pair : cursor'[x] = IF x = dp THEN page.next ELSE cursor[x]
    BY <1>4 DEF Base, CursorsOK
  <2>2. ASSUME NEW x \in Pair, NEW c \in Content, Offered(history[x[1]].rows[c], cursor'[x])
        PROVE  Judged(history[x[1]].rows[c], x[2], c)
    <3>1. CASE x = dp
      <4>1. ~Pending({}, history[x[1]].rows[c], c)
        BY DEF Pending
      <4> QED
        BY <1>1, <1>4, <2>1, <2>2, <3>1, <4>1, PagedFeed
    <3>2. CASE x # dp
      BY <2>1, <2>2, <3>2 DEF CursorFeed
    <3> QED
      BY <3>1, <3>2
  <2>3. CursorFeed'
    BY <1>2, <2>2 DEF CursorFeed, Judged
  <2>4. BatchFeed'
    BY <1>2, <1>4 DEF BatchFeed, Judged
  <2> QED
    BY <2>3, <2>4
<1>b. PICK b : b = [todo |-> ForPeer(dp, page), next |-> page.next, state |-> "sent"]
  OBVIOUS
<1>5. CASE batch' = [batch EXCEPT ![dp] = b] /\ UNCHANGED cursor
  <2>1. b.next = page.next /\ b.todo = ForPeer(dp, page)
    BY <1>b
  <2>2. \A x \in Pair : batch'[x] = IF x = dp THEN b ELSE batch[x]
    BY <1>5 DEF Base, BatchesOK
  <2>3. ASSUME NEW x \in Pair, batch'[x] # None, NEW c \in Content,
               Offered(history[x[1]].rows[c], batch'[x].next)
        PROVE  \/ Judged(history[x[1]].rows[c], x[2], c)
               \/ Pending(batch'[x].todo, history[x[1]].rows[c], c)
    <3>1. CASE x = dp
      BY <1>1, <2>1, <2>2, <2>3, <3>1, PagedFeed
    <3>2. CASE x # dp
      BY <2>2, <2>3, <3>2 DEF BatchFeed
    <3> QED
      BY <3>1, <3>2
  <2>4. BatchFeed'
    BY <1>2, <2>3 DEF BatchFeed, Judged, Pending
  <2>5. CursorFeed'
    BY <1>2, <1>5 DEF CursorFeed, Judged
  <2> QED
    BY <2>4, <2>5
<1> QED
  BY <1>1, <1>4, <1>5, <1>b DEF SentOn

LEMMA ConfirmFeed ==
  ASSUME Base, NEW dp \in Pair, Confirm(dp[1], dp[2]), CursorFeed, BatchFeed
  PROVE  CursorFeed' /\ BatchFeed'
<1>1. /\ batch[dp] # None /\ batch[dp].todo = {} /\ history' = history /\ heard' = heard
      /\ \A x \in Pair : cursor'[x] = IF x = dp THEN batch[dp].next ELSE cursor[x]
      /\ batch'[dp] = None /\ OthersKeep(dp)
  BY ConfirmIs
<1>2. ASSUME NEW x \in Pair, NEW c \in Content, Offered(history[x[1]].rows[c], cursor'[x])
      PROVE  Judged(history[x[1]].rows[c], x[2], c)
  <2>1. CASE x = dp
    <3>1. ~Pending({}, history[x[1]].rows[c], c)
      BY DEF Pending
    <3>2. Offered(history[x[1]].rows[c], batch[dp].next)
      BY <1>1, <1>2, <2>1
    <3> QED
      BY <1>1, <2>1, <3>1, <3>2 DEF BatchFeed
  <2>2. CASE x # dp
    <3>1. Offered(history[x[1]].rows[c], cursor[x])
      BY <1>1, <1>2, <2>2
    <3> QED
      BY <3>1 DEF CursorFeed
  <2> QED
    BY <2>1, <2>2
<1>3. CursorFeed'
  BY <1>1, <1>2 DEF CursorFeed, Judged
<1>4. BatchFeed'
  <2>1. \A x \in Pair : batch'[x] # None => batch'[x] = batch[x]
    BY <1>1 DEF OthersKeep
  <2> QED
    BY <1>1, <2>1 DEF BatchFeed, Judged, Pending
<1> QED
  BY <1>3, <1>4

LEMMA OpenStep ==
  ASSUME "private" \notin Happens, Open, [Next]_vars
  PROVE  Open'
<1>1. private' = private
  <2>1. ASSUME NEW d \in Device, UserNext(d) PROVE private' = private
    <3>1. ~TogglePrivate(d)
      BY DEF TogglePrivate
    <3> QED
      BY <2>1, <3>1 DEF UserNext, Capture, SetPinned, Delete, Restore, Import, Clear, Wipe, Maintain,
                        Rejoin, Crash, LocalOnly
  <2>2. ASSUME NEW d, NEW p, SyncNext(d, p) PROVE private' = private
    BY <2>2 DEF SyncNext, Push, CheckPaused, Apply, ApplyNew, ApplyImage, Confirm
  <2>3. ASSUME NEW d, NEW p, Drop(d, p) PROVE private' = private
    BY <2>3 DEF Drop
  <2>4. ASSUME NEW p, ResumeNext(p) PROVE private' = private
    BY <2>4 DEF ResumeNext, Resume
  <2> QED
    BY <2>1, <2>2, <2>3, <2>4 DEF Next, vars
<1> QED
  BY <1>1 DEF Open

LEMMA FeedStep ==
  ASSUME "private" \notin Happens, Base, FeedOK, [Next]_vars
  PROVE  FeedOK'
<1>1. Open' /\ Base'
  BY OpenStep, BaseStep DEF FeedOK
<1>2. CASE UNCHANGED vars
  BY <1>1, <1>2 DEF vars, FeedOK, CursorFeed, BatchFeed, Judged, Pending
<1>3. CASE OtherStep
  BY <1>1, <1>3, QuietFeed DEF OtherStep, FeedOK
<1>4. ASSUME NEW dp \in Pair, Push(dp[1], dp[2]) PROVE FeedOK'
  BY <1>1, <1>4, PushFeed DEF FeedOK
<1>5. ASSUME NEW dp \in Pair, Confirm(dp[1], dp[2]) PROVE FeedOK'
  BY <1>1, <1>5, ConfirmFeed DEF FeedOK
<1> QED
  BY <1>2, <1>3, <1>4, <1>5, NextSteps

LEMMA FeedInit ==
  Init => FeedOK
<1> SUFFICES ASSUME Init PROVE FeedOK
  OBVIOUS
<1>1. \A d \in Device : history[d] = EmptyHistory
  BY DEF Init
<1>2. \A c \in Content : EmptyHistory.rows[c] = Absent
  BY DEF EmptyHistory
<1>3. \A dp \in Pair : \A c \in Content : \A n : ~Offered(history[dp[1]].rows[c], n)
  BY <1>1, <1>2, PairFacts DEF Offered, InFeed
<1>4. Open
  BY DEF Init, Open
<1> QED
  BY <1>3, <1>4 DEF FeedOK, CursorFeed, BatchFeed

(* The feed misses nothing, whatever the devices, the limits, the losses   *)
(* and the crashes: as long as no device is switched to private mode       *)
(* between the check for it and the records, a confirmed change has been   *)
(* judged by the peer or made by it.                                       *)
THEOREM NothingIsMissed ==
  ASSUME "private" \notin Happens
  PROVE  Spec => []FeedMissesNothing
<1>1. FeedOK => FeedMissesNothing
  BY DEF FeedOK, CursorFeed, Offered, Judged, FeedMissesNothing
<1>2. Base /\ FeedOK /\ [Next]_vars => FeedOK'
  BY FeedStep
<1> QED
  BY <1>1, <1>2, BaseHolds, FeedInit, PTL DEF Spec

-----------------------------------------------------------------------------
(* Secrets.  Without a crash between the row and its mark, every row of a  *)
(* secret is marked, so no page has it.                                    *)
TidyDevices == \A d \in Device : TidyAll(history[d])

NoSecrets == \A dp \in Pair : batch[dp] # None => \A r \in batch[dp].todo : r.content \notin Secret

SecretsOK == TidyDevices /\ NoSecrets

LEMMA PageNoSecrets ==
  ASSUME Base, TidyDevices, NEW dp \in Pair, NEW page, Paged(dp, page), NEW r \in page.records
  PROVE  r.content \notin Secret
<1>s. PICK s : s = history[dp[1]]
  OBVIOUS
<1>1. Sane(s) /\ TidyAll(s)
  BY <1>s, PairFacts DEF Base, HistoriesOK, TidyDevices
<1>2. r.content \in Content /\ PageRecord(s, r.content, r)
  BY <1>1, <1>s, PageRecords DEF Paged
<1>row. PICK row : row = s.rows[r.content]
  OBVIOUS
<1>3. InFeed(row) /\ Present(s, r.content)
  BY <1>2, <1>row DEF PageRecord, InFeed, Present
<1>4. Tidy(r.content, row)
  BY <1>1, <1>2, <1>3, <1>row DEF TidyAll
<1> QED
  BY <1>3, <1>4 DEF InFeed, Tidy

LEMMA SecretsStep ==
  ASSUME "crash" \notin Happens, Base, SecretsOK, [Next]_vars
  PROVE  SecretsOK'
<1>1. CASE UNCHANGED vars
  BY <1>1 DEF vars, SecretsOK, TidyDevices, NoSecrets
<1>2. CASE OtherStep
  <2>1. TidyDevices'
    BY <1>2 DEF OtherStep, TidyStep, SecretsOK, TidyDevices
  <2>2. NoSecrets'
    BY <1>2 DEF OtherStep, QuietStep, BatchesShrink, SecretsOK, NoSecrets
  <2> QED
    BY <2>1, <2>2 DEF SecretsOK
<1>3. ASSUME NEW dp \in Pair, Push(dp[1], dp[2]) PROVE SecretsOK'
  <2>1. PICK page : Paged(dp, page) /\ SentOn(dp, page)
    BY <1>3, PushIs
  <2>2. TidyDevices'
    BY <2>1 DEF SentOn, SecretsOK, TidyDevices
  <2>3. CASE UNCHANGED batch
    BY <2>2, <2>3 DEF SecretsOK, NoSecrets
  <2>b. PICK b : b = [todo |-> ForPeer(dp, page), next |-> page.next, state |-> "sent"]
    OBVIOUS
  <2>4. CASE batch' = [batch EXCEPT ![dp] = b]
    <3>1. \A r \in b.todo : r.content \notin Secret
      <4>1. b.todo = ForPeer(dp, page)
        BY <2>b
      <4> QED
        BY <2>1, <4>1, PageNoSecrets DEF ForPeer, SecretsOK
    <3>2. \A x \in Pair : batch'[x] = IF x = dp THEN b ELSE batch[x]
      BY <2>4 DEF Base, BatchesOK
    <3>3. NoSecrets'
      BY <3>1, <3>2 DEF SecretsOK, NoSecrets
    <3> QED
      BY <2>2, <3>3 DEF SecretsOK
  <2> QED
    BY <2>1, <2>3, <2>4, <2>b DEF SentOn
<1>4. ASSUME NEW dp \in Pair, Confirm(dp[1], dp[2]) PROVE SecretsOK'
  <2>1. history' = history /\ BatchesShrink
    BY <1>4, ConfirmIs
  <2> QED
    BY <2>1 DEF BatchesShrink, SecretsOK, TidyDevices, NoSecrets
<1> QED
  BY <1>1, <1>2, <1>3, <1>4, NextSteps

LEMMA SecretsInit ==
  Init => SecretsOK
<1> SUFFICES ASSUME Init PROVE SecretsOK
  OBVIOUS
<1>1. \A d \in Device : history[d] = EmptyHistory
  BY DEF Init
<1>2. \A c \in Content : ~Present(EmptyHistory, c)
  BY DEF EmptyHistory, Present
<1>3. TidyDevices
  BY <1>1, <1>2 DEF TidyDevices, TidyAll
<1>4. NoSecrets
  BY DEF Init, NoSecrets
<1> QED
  BY <1>3, <1>4 DEF SecretsOK

LEMMA SecretsHolds ==
  ASSUME "crash" \notin Happens
  PROVE  Spec => []SecretsOK
<1>1. Base /\ SecretsOK /\ [Next]_vars => SecretsOK'
  BY SecretsStep
<1> QED
  BY <1>1, BaseHolds, SecretsInit, PTL DEF Spec

(* The payloads of a sensitive entry are never offered to another device,  *)
(* as long as no crash falls between storing an entry and marking it.      *)
THEOREM SecretsStayHome ==
  ASSUME "crash" \notin Happens
  PROVE  Spec => []SecretsStay
<1>1. SecretsOK => SecretsStay
  <2> SUFFICES ASSUME SecretsOK, NEW dp \in Pair, NEW r \in Todo(dp[1], dp[2])
               PROVE  r.content \in Secret => r.deleted
    BY DEF SecretsStay
  <2>1. batch[dp] # None /\ r \in batch[dp].todo
    BY PairFacts DEF Todo
  <2> QED
    BY <2>1 DEF SecretsOK, NoSecrets
<1> QED
  BY <1>1, SecretsHolds, PTL

-----------------------------------------------------------------------------
(* Without crashes and thumbnails to wait for, a step is a user's change,  *)
(* a record judged, a page sent, or leaves what the devices hold alone.    *)
Calm == suspended = [d \in Device |-> {}]

Whole == "crash" \notin Happens /\ Image = {}

(* A batch is as it was, given up, forgotten with its cursor, or confirmed.*)
PairIdle(dp) ==
  \/ /\ cursor'[dp] = cursor[dp]
     /\ \/ batch'[dp] = None
        \/ batch[dp] # None /\ batch'[dp] # None
           /\ batch'[dp].todo = batch[dp].todo /\ batch'[dp].next = batch[dp].next
  \/ cursor'[dp] = 0 /\ batch'[dp] = None
  \/ /\ batch[dp] # None /\ batch[dp].todo = {}
     /\ cursor'[dp] = batch[dp].next /\ batch'[dp] = None

IdleStep ==
  /\ UNCHANGED <<history, suspended, heard>> /\ BatchesShrink
  /\ \A dp \in Pair : PairIdle(dp)

LEMMA OthersIdle ==
  ASSUME NEW dp \in Pair, OthersKeep(dp), \A x \in Pair : x # dp => cursor'[x] = cursor[x], PairIdle(dp)
  PROVE  \A x \in Pair : PairIdle(x)
BY DEF OthersKeep, PairIdle

LEMMA ShapedSteps ==
  ASSUME Whole, Base, Calm, Next
  PROVE  \/ \E d \in Device : LocalStep(d)
         \/ \E dp \in Pair : \E r \in Todo(dp[1], dp[2]) : JudgeStep(dp, r)
         \/ \E dp \in Pair : Push(dp[1], dp[2])
         \/ IdleStep
<1>1. ASSUME NEW d \in Device, UserNext(d) PROVE LocalStep(d) \/ IdleStep
  <2>1. ASSUME NEW c \in Content, Capture(d, c) PROVE LocalStep(d)
    BY <2>1, CaptureLocal
  <2>2. ASSUME NEW c \in Content, NEW pinned \in BOOLEAN, SetPinned(d, c, pinned) PROVE LocalStep(d)
    BY <2>2, PinLocal
  <2>3. ASSUME NEW c \in Content, Delete(d, c) PROVE LocalStep(d)
    BY <2>3, DeleteLocal
  <2>4. ASSUME NEW c \in Content, Restore(d, c) PROVE LocalStep(d)
    BY <2>4, RestoreLocal
  <2>5. ASSUME NEW c \in Content, NEW pinned \in BOOLEAN, Import(d, c, pinned) PROVE LocalStep(d)
    BY <2>5, ImportLocal
  <2>6. CASE Clear(d) \/ Wipe(d) \/ Maintain(d)
    BY <2>6, ClearLocal, WipeLocal, MaintainLocal
  <2>7. CASE TogglePrivate(d)
    <3>1. \A dp \in Pair : PairIdle(dp)
      BY <2>7 DEF TogglePrivate, PairIdle
    <3> QED
      BY <2>7, <3>1, TogglePrivateQuiet DEF IdleStep, TogglePrivate, QuietStep
  <2>8. CASE Rejoin(d)
    <3>1. \A dp \in Pair : PairIdle(dp)
      BY <2>8 DEF Rejoin, PairIdle
    <3> QED
      BY <2>8, <3>1, RejoinQuiet DEF IdleStep, Rejoin, QuietStep
  <2>9. ~Crash(d)
    BY DEF Whole, Crash
  <2> QED
    BY <1>1, <2>1, <2>2, <2>3, <2>4, <2>5, <2>6, <2>7, <2>8, <2>9 DEF UserNext
<1>2. ASSUME NEW dp \in Pair, SyncNext(dp[1], dp[2])
      PROVE  (\E r \in Todo(dp[1], dp[2]) : JudgeStep(dp, r)) \/ Push(dp[1], dp[2]) \/ IdleStep
  <2>1. CASE CheckPaused(dp[1], dp[2])
    <3>1. dp = <<dp[1], dp[2]>> /\ batch[dp] # None /\ UNCHANGED cursor
      BY <2>1, PairFacts DEF CheckPaused, InFlight
    <3>2. OthersKeep(dp) /\ PairIdle(dp)
      <4>1. CASE private[dp[2]]
        <5>1. GiveUp(dp[1], dp[2])
          BY <2>1, <4>1 DEF CheckPaused, GiveUp
        <5>2. batch'[dp] = None /\ OthersKeep(dp)
          BY <3>1, <5>1, GiveUpIs DEF Base
        <5> QED
          BY <3>1, <5>2 DEF PairIdle
      <4>2. CASE ~private[dp[2]]
        <5>1. SetState(dp[1], dp[2], "checked")
          BY <2>1, <4>2 DEF CheckPaused
        <5>2. /\ OthersKeep(dp) /\ batch'[dp] # None
              /\ batch'[dp].todo = batch[dp].todo /\ batch'[dp].next = batch[dp].next
          BY <3>1, <5>1, SetStateIs DEF Base
        <5> QED
          BY <3>1, <5>2 DEF PairIdle
      <4> QED
        BY <4>1, <4>2
    <3>3. \A x \in Pair : PairIdle(x)
      BY <3>1, <3>2, OthersIdle
    <3> QED
      BY <2>1, <3>3, CheckPausedQuiet DEF IdleStep, CheckPaused, QuietStep
  <2>2. ASSUME NEW r \in Todo(dp[1], dp[2]), Apply(dp[1], dp[2], r) PROVE JudgeStep(dp, r)
    BY <2>2, ApplyJudges
  <2>3. ASSUME NEW r \in Todo(dp[1], dp[2]), ApplyNew(dp[1], dp[2], r) PROVE JudgeStep(dp, r)
    BY <2>3, ApplyNewJudges
  <2>4. ASSUME NEW r \in Todo(dp[1], dp[2]), ApplyImage(dp[1], dp[2], r) PROVE FALSE
    BY <2>4 DEF ApplyImage, Whole
  <2>5. CASE Confirm(dp[1], dp[2])
    <3>1. /\ batch[dp] # None /\ batch[dp].todo = {}
          /\ UNCHANGED <<history, private, suspended, heard>>
          /\ \A x \in Pair : cursor'[x] = IF x = dp THEN batch[dp].next ELSE cursor[x]
          /\ BatchesShrink /\ batch'[dp] = None /\ OthersKeep(dp)
      BY <2>5, ConfirmIs
    <3>2. PairIdle(dp)
      BY <3>1 DEF PairIdle
    <3>3. \A x \in Pair : PairIdle(x)
      BY <3>1, <3>2, OthersIdle
    <3> QED
      BY <3>1, <3>3 DEF IdleStep
  <2> QED
    BY <1>2, <2>1, <2>2, <2>3, <2>4, <2>5 DEF SyncNext
<1>3. ASSUME NEW dp \in Pair, Drop(dp[1], dp[2]) PROVE IdleStep
  <2>1. batch'[dp] = None /\ OthersKeep(dp) /\ UNCHANGED cursor
    BY <1>3, PairFacts, GiveUpIs DEF Base, Drop
  <2>2. PairIdle(dp)
    BY <2>1 DEF PairIdle
  <2>3. \A x \in Pair : PairIdle(x)
    BY <2>1, <2>2, OthersIdle
  <2> QED
    BY <1>3, <2>3, DropQuiet DEF IdleStep, Drop, QuietStep
<1>4. ASSUME NEW p \in Device, ResumeNext(p) PROVE FALSE
  BY <1>4 DEF ResumeNext, Calm
<1> QED
  BY <1>1, <1>2, <1>3, <1>4 DEF Next

LEMMA CalmStep ==
  ASSUME Whole, Base, Calm, [Next]_vars
  PROVE  Calm'
<1>1. suspended' = suspended
  <2>1. CASE UNCHANGED vars
    BY <2>1 DEF vars
  <2>2. ASSUME NEW d \in Device, LocalStep(d) PROVE suspended' = suspended
    BY <2>2 DEF LocalStep, LocalOnly
  <2>3. ASSUME NEW dp \in Pair, NEW r, JudgeStep(dp, r) PROVE suspended' = suspended
    BY <2>3 DEF JudgeStep
  <2>4. ASSUME NEW dp \in Pair, Push(dp[1], dp[2]) PROVE suspended' = suspended
    BY <2>4 DEF Push
  <2>5. CASE IdleStep
    BY <2>5 DEF IdleStep
  <2> QED
    BY <2>1, <2>2, <2>3, <2>4, <2>5, ShapedSteps
<1> QED
  BY <1>1 DEF Calm

-----------------------------------------------------------------------------
(* Stamps.  What a row or a record on its way shows under which stamp.     *)
RowVisible(row) == IF row.deleted # "no" THEN "deleted" ELSE IF row.pinned THEN "pinned" ELSE "live"

RowBears(s, c, st, v) == Present(s, c) /\ StampOf(s.rows[c]) = st /\ RowVisible(s.rows[c]) = v

TodoBears(b, c, st, v) ==
  b # None /\ \E r \in b.todo : r.content = c /\ StampOf(r) = st /\ Visible(r) = v

Bears(c, st, v) ==
  \/ \E d \in Device : RowBears(history[d], c, st, v)
  \/ \E dp \in Pair : TodoBears(batch[dp], c, st, v)

(* A clock is not behind any stamp its device has given, *)
Stamped == \A c \in Content : \A st, v :
  Bears(c, st, v) => st[2] \in Device /\ st[1] \in Nat /\ st[1] <= history[st[2]].clock

(* and a stamp has been given once. *)
Unique == \A c \in Content : \A st, v, w : Bears(c, st, v) /\ Bears(c, st, w) => v = w

StampsOK == Calm /\ Stamped /\ Unique

LEMMA SameVisible ==
  ASSUME NEW s, NEW t, NEW e, Present(s, e), SameEntry(s.rows[e], t.rows[e]), NEW st, NEW v,
         RowBears(t, e, st, v)
  PROVE  RowBears(s, e, st, v)
BY DEF RowBears, SameEntry, StampOf, RowVisible

LEMMA ShowsVisible ==
  ASSUME NEW row, NEW r \in Record, Shows(row, r)
  PROVE  StampOf(row) = StampOf(r) /\ RowVisible(row) = Visible(r)
<1>1. StampOf(row) = StampOf(r)
  BY DEF Shows, StampOf
<1>2. (row.deleted # "no") = r.deleted
  BY DEF Shows
<1>3. (row.deleted # "no" => r.deleted) /\ (r.deleted => row.deleted # "no")
  BY <1>2
<1>4. r.deleted \/ row.pinned = r.pinned
  BY DEF Shows
<1>5. CASE r.deleted
  BY <1>1, <1>3, <1>5 DEF RowVisible, Visible
<1>6. CASE ~r.deleted
  <2>1. row.pinned = r.pinned /\ ~(row.deleted # "no")
    BY <1>3, <1>4, <1>6
  <2> QED
    BY <1>1, <1>6, <2>1 DEF RowVisible, Visible
<1> QED
  BY <1>1, <1>5, <1>6

(* What is held after a step was held before it, or it has one new stamp. *)
NothingNew == \A c \in Content : \A st, v : Bears(c, st, v)' => Bears(c, st, v)

OneNew(d) ==
  \E c0, k, w :
    /\ k \in Nat /\ history[d].clock < k /\ k = history'[d].clock
    /\ \A c \in Content : \A st, v :
         Bears(c, st, v)' => Bears(c, st, v) \/ (c = c0 /\ st = <<k, d>> /\ v = w)

LEMMA ClocksGrow ==
  ASSUME Base, Base', \A d \in Device : history'[d].clock >= history[d].clock, Stamped, NothingNew
  PROVE  Stamped'
<1>1. \A d \in Device : history[d].clock \in Nat /\ history'[d].clock \in Nat
  BY HistoryFacts DEF Base, HistoriesOK
<1>2. ASSUME NEW c \in Content, NEW st, NEW v, Bears(c, st, v)'
      PROVE  st[2] \in Device /\ st[1] \in Nat /\ st[1] <= history'[st[2]].clock
  <2>1. Bears(c, st, v)
    BY <1>2 DEF NothingNew
  <2>2. st[2] \in Device /\ st[1] \in Nat /\ st[1] <= history[st[2]].clock
    BY <2>1 DEF Stamped
  <2> QED
    BY <1>1, <2>2
<1> QED
  BY <1>2 DEF Stamped

LEMMA NothingUnique ==
  ASSUME Unique, NothingNew
  PROVE  Unique'
<1>1. ASSUME NEW c \in Content, NEW st, NEW v, NEW w, Bears(c, st, v)', Bears(c, st, w)'
      PROVE  v = w
  <2>1. Bears(c, st, v) /\ Bears(c, st, w)
    BY <1>1 DEF NothingNew
  <2> QED
    BY <2>1 DEF Unique
<1> QED
  BY <1>1 DEF Unique

LEMMA NewStamps ==
  ASSUME Base, Base', \A d \in Device : history'[d].clock >= history[d].clock,
         Stamped, Unique, NEW d \in Device, OneNew(d)
  PROVE  Stamped' /\ Unique'
<1>1. PICK c0, k, w :
    /\ k \in Nat /\ history[d].clock < k /\ k = history'[d].clock
    /\ \A c \in Content : \A st, v :
         Bears(c, st, v)' => Bears(c, st, v) \/ (c = c0 /\ st = <<k, d>> /\ v = w)
  BY DEF OneNew
<1>2. \A e \in Device : history[e].clock \in Nat /\ history'[e].clock \in Nat
  BY HistoryFacts DEF Base, HistoriesOK
<1>3. ASSUME NEW c \in Content, NEW v, NEW st, st = <<k, d>> PROVE ~Bears(c, st, v)
  <2>1. st[1] = k /\ st[2] = d
    BY <1>3
  <2>2. Bears(c, st, v) => st[1] <= history[st[2]].clock
    BY DEF Stamped
  <2> QED
    BY <1>1, <1>2, <2>1, <2>2
<1>4. ASSUME NEW c \in Content, NEW st, NEW v, Bears(c, st, v)'
      PROVE  st[2] \in Device /\ st[1] \in Nat /\ st[1] <= history'[st[2]].clock
  <2>1. CASE Bears(c, st, v)
    <3>1. st[2] \in Device /\ st[1] \in Nat /\ st[1] <= history[st[2]].clock
      BY <2>1 DEF Stamped
    <3> QED
      BY <1>2, <3>1
  <2>2. CASE st = <<k, d>>
    BY <1>1, <1>2, <2>2
  <2> QED
    BY <1>1, <1>4, <2>1, <2>2
<1>5. ASSUME NEW c \in Content, NEW st, NEW v, NEW u, Bears(c, st, v)', Bears(c, st, u)'
      PROVE  v = u
  <2>1. CASE st = <<k, d>>
    <3>1. ~Bears(c, st, v) /\ ~Bears(c, st, u)
      BY <1>3, <2>1
    <3> QED
      BY <1>1, <1>5, <3>1
  <2>2. CASE st # <<k, d>>
    <3>1. Bears(c, st, v) /\ Bears(c, st, u)
      BY <1>1, <1>5, <2>2
    <3> QED
      BY <3>1 DEF Unique
  <2> QED
    BY <2>1, <2>2
<1>6. Stamped'
  BY <1>4 DEF Stamped
<1>7. Unique'
  BY <1>5 DEF Unique
<1> QED
  BY <1>6, <1>7

LEMMA StepClocks ==
  ASSUME Base, [Next]_vars
  PROVE  \A d \in Device : history'[d].clock >= history[d].clock
<1>0. \A d \in Device : history[d].clock \in Nat
  BY HistoryFacts DEF Base, HistoriesOK
<1>1. CASE OtherStep
  BY <1>1 DEF OtherStep, QuietStep, Progress, Moves
<1>2. CASE UNCHANGED history
  BY <1>0, <1>2
<1> QED
  BY <1>1, <1>2, NextSteps DEF vars, Push, Confirm

(* One device writes, and the batches only lose records. *)
LEMMA WriteBears ==
  ASSUME Base, NEW d \in Device, NEW s, s = history[d], NEW t, Write(d, t), BatchesShrink,
         NEW c \in Content, NEW st, NEW v, Bears(c, st, v)'
  PROVE  Bears(c, st, v) \/ RowBears(t, c, st, v)
<1>1. \A e \in Device : history'[e] = IF e = d THEN t ELSE history[e]
  BY DEF Write, Base, HistoriesOK
<1>2. ASSUME NEW e \in Device, RowBears(history'[e], c, st, v)
      PROVE  Bears(c, st, v) \/ RowBears(t, c, st, v)
  BY <1>1, <1>2 DEF Bears
<1>3. ASSUME NEW dp \in Pair, TodoBears(batch'[dp], c, st, v)
      PROVE  Bears(c, st, v)
  <2>1. batch[dp] # None /\ batch'[dp].todo \subseteq batch[dp].todo
    BY <1>3 DEF TodoBears, BatchesShrink
  <2>2. TodoBears(batch[dp], c, st, v)
    BY <1>3, <2>1 DEF TodoBears
  <2> QED
    BY <2>2 DEF Bears
<1> QED
  BY <1>2, <1>3 DEF Bears

LEMMA LocalStamps ==
  ASSUME Base, NEW d \in Device, LocalStep(d)
  PROVE  NothingNew \/ OneNew(d)
<1>s. PICK s : s = history[d]
  OBVIOUS
<1>1. PICK t : Write(d, t) /\ LocalEnd(d, s, t)
  BY <1>s DEF LocalStep
<1>2. PICK c0 : \A e \in Content : LocalRow(d, s, t, c0, e)
  BY <1>1 DEF LocalEnd, LocalRows
<1>3. BatchesShrink
  BY LocalQuiet DEF QuietStep
<1>4. s \in History /\ t \in History
  BY <1>s, <1>1 DEF Base, HistoriesOK, LocalEnd, Sane
<1>5. history'[d] = t
  BY <1>1 DEF Write, Base, HistoriesOK
<1>6. ASSUME NEW c \in Content, NEW st, NEW v, Bears(c, st, v)', ~Bears(c, st, v)
      PROVE  c = c0 /\ MadeHere(d, s, t, c) /\ StampOf(t.rows[c]) = st /\ RowVisible(t.rows[c]) = v
  <2>1. RowBears(t, c, st, v)
    BY <1>1, <1>3, <1>6, <1>s, WriteBears
  <2>2. ~(Present(s, c) /\ SameEntry(s.rows[c], t.rows[c]))
    <3>1. ASSUME Present(s, c), SameEntry(s.rows[c], t.rows[c]) PROVE FALSE
      <4>1. RowBears(s, c, st, v)
        BY <2>1, <3>1, SameVisible
      <4> QED
        BY <1>6, <1>s, <4>1 DEF Bears
    <3> QED
      BY <3>1
  <2> QED
    BY <1>2, <2>1, <2>2 DEF LocalRow, RowBears
<1>7. CASE NothingNew
  BY <1>7
<1>8. CASE ~NothingNew
  <2>k. PICK k : k = t.clock
    OBVIOUS
  <2>w. PICK w : w = RowVisible(t.rows[c0])
    OBVIOUS
  <2>1. PICK c \in Content : \E st, v : Bears(c, st, v)' /\ ~Bears(c, st, v)
    BY <1>8 DEF NothingNew
  <2>2. MadeHere(d, s, t, c0) /\ c0 \in Content
    BY <1>6, <2>1
  <2>3. t.clock = tick_lamport(s).clock
    BY <2>2 DEF MadeHere
  <2>4. k \in Nat /\ s.clock < k
    <3>u. PICK u : u = tick_lamport(s)
      OBVIOUS
    <3>1. u \in History /\ u.clock > s.clock /\ u.clock = k
      BY <1>4, <2>3, <2>k, <3>u, TickIs
    <3>2. k \in Nat /\ s.clock \in Nat
      BY <1>4, <3>1, HistoryFacts
    <3> QED
      BY <3>1, <3>2
  <2>5. StampOf(t.rows[c0]) = <<k, d>>
    BY <2>2, <2>k DEF MadeHere, StampOf
  <2>6. ASSUME NEW e \in Content, NEW st, NEW v, Bears(e, st, v)'
        PROVE  Bears(e, st, v) \/ (e = c0 /\ st = <<k, d>> /\ v = w)
    BY <1>6, <2>5, <2>6, <2>w
  <2>7. history[d].clock < k /\ k = history'[d].clock
    BY <1>5, <1>s, <2>4, <2>k
  <2> QED
    BY <2>4, <2>6, <2>7 DEF OneNew
<1> QED
  BY <1>7, <1>8

LEMMA JudgeStamps ==
  ASSUME Base, NEW dp \in Pair, NEW r \in Todo(dp[1], dp[2]), JudgeStep(dp, r)
  PROVE  NothingNew
<1>p. PICK p : p = dp[2]
  OBVIOUS
<1>s. PICK s : s = history[p]
  OBVIOUS
<1>1. batch[dp] # None /\ r \in batch[dp].todo /\ r \in Record /\ p \in Device /\ r.content \in Content
  BY <1>p, TodoFacts, RecordFacts
<1>2. PICK t : Write(p, t) /\ Ends(dp, r, t)
  BY <1>p DEF JudgeStep
<1>3. \A e \in Content : TakenRow(s, t, r, e)
  BY <1>2, <1>p, <1>s DEF Ends, RecordEnd
<1>4. BatchesShrink
  BY JudgeQuiet DEF QuietStep
<1>5. ASSUME NEW c \in Content, NEW st, NEW v, RowBears(t, c, st, v) PROVE Bears(c, st, v)
  <2>1. CASE Present(s, c) /\ SameEntry(s.rows[c], t.rows[c])
    <3>1. RowBears(s, c, st, v)
      BY <1>5, <2>1, SameVisible
    <3> QED
      BY <1>1, <1>s, <3>1 DEF Bears
  <2>2. CASE c = r.content /\ TakenHere(s, t, r)
    <3>1. Shows(t.rows[c], r)
      BY <2>2 DEF TakenHere
    <3>2. StampOf(r) = st /\ Visible(r) = v
      BY <1>1, <1>5, <3>1, ShowsVisible DEF RowBears
    <3>3. TodoBears(batch[dp], c, st, v)
      BY <1>1, <2>2, <3>2 DEF TodoBears
    <3> QED
      BY <3>3 DEF Bears
  <2> QED
    BY <1>3, <1>5, <2>1, <2>2 DEF TakenRow, RowBears
<1>6. ASSUME NEW c \in Content, NEW st, NEW v, Bears(c, st, v)' PROVE Bears(c, st, v)
  BY <1>1, <1>2, <1>4, <1>5, <1>6, <1>s, WriteBears
<1> QED
  BY <1>6 DEF NothingNew

LEMMA RecordBears ==
  ASSUME NEW s, NEW c, NEW r, PageRecord(s, c, r)
  PROVE  RowBears(s, c, StampOf(r), Visible(r)) /\ r.content = c
<1>row. PICK row : row = s.rows[c]
  OBVIOUS
<1>1. /\ r.content = c /\ r.lamport = row.lamport /\ r.device_id = row.device_id
      /\ r.pinned = row.pinned /\ r.deleted = (row.deleted # "no")
  BY <1>row DEF PageRecord, RecordOf
<1>2. StampOf(r) = StampOf(row)
  BY <1>1 DEF StampOf
<1>3. Visible(r) = RowVisible(row)
  BY <1>1 DEF Visible, RowVisible
<1>4. Present(s, c)
  BY DEF PageRecord, InFeed, Present
<1> QED
  BY <1>1, <1>2, <1>3, <1>4, <1>row DEF RowBears

LEMMA PushStamps ==
  ASSUME Base, NEW dp \in Pair, Push(dp[1], dp[2])
  PROVE  NothingNew
<1>1. PICK page : Paged(dp, page) /\ SentOn(dp, page)
  BY PushIs
<1>2. history' = history
  BY <1>1 DEF SentOn
<1>s. PICK s : s = history[dp[1]]
  OBVIOUS
<1>3. Sane(s) /\ dp[1] \in Device
  BY <1>s, PairFacts DEF Base, HistoriesOK
<1>b. PICK b : b = [todo |-> ForPeer(dp, page), next |-> page.next, state |-> "sent"]
  OBVIOUS
<1>4. \A x \in Pair : batch'[x] = batch[x] \/ (x = dp /\ batch'[x] = b)
  <2>1. CASE UNCHANGED batch
    BY <2>1
  <2>2. CASE batch' = [batch EXCEPT ![dp] = b]
    BY <2>2 DEF Base, BatchesOK
  <2> QED
    BY <1>1, <1>b, <2>1, <2>2 DEF SentOn
<1>5. ASSUME NEW c \in Content, NEW st, NEW v, TodoBears(b, c, st, v) PROVE Bears(c, st, v)
  <2>1. b.todo = ForPeer(dp, page)
    BY <1>b
  <2>2. PICK r \in b.todo : r.content = c /\ StampOf(r) = st /\ Visible(r) = v
    BY <1>5 DEF TodoBears
  <2>3. r \in page.records
    BY <2>1, <2>2 DEF ForPeer
  <2>4. PageRecord(s, r.content, r)
    BY <1>1, <1>3, <1>s, <2>3, PageRecords DEF Paged
  <2>5. RowBears(s, c, st, v)
    BY <2>2, <2>4, RecordBears
  <2> QED
    BY <1>3, <1>s, <2>5 DEF Bears
<1>6. ASSUME NEW c \in Content, NEW st, NEW v, Bears(c, st, v)' PROVE Bears(c, st, v)
  <2>1. CASE \E d \in Device : RowBears(history'[d], c, st, v)
    BY <1>2, <2>1 DEF Bears
  <2>2. ASSUME NEW x \in Pair, TodoBears(batch'[x], c, st, v) PROVE Bears(c, st, v)
    <3>1. CASE batch'[x] = batch[x]
      BY <2>2, <3>1 DEF Bears
    <3>2. CASE batch'[x] = b
      BY <1>5, <2>2, <3>2
    <3> QED
      BY <1>4, <3>1, <3>2
  <2> QED
    BY <1>6, <2>1, <2>2 DEF Bears
<1> QED
  BY <1>6 DEF NothingNew

LEMMA IdleStamps ==
  ASSUME Base, history' = history, BatchesShrink
  PROVE  NothingNew
<1>1. ASSUME NEW c \in Content, NEW st, NEW v, Bears(c, st, v)' PROVE Bears(c, st, v)
  <2>1. CASE \E d \in Device : RowBears(history'[d], c, st, v)
    BY <2>1 DEF Bears
  <2>2. ASSUME NEW x \in Pair, TodoBears(batch'[x], c, st, v) PROVE Bears(c, st, v)
    <3>1. batch[x] # None /\ batch'[x].todo \subseteq batch[x].todo
      BY <2>2 DEF TodoBears, BatchesShrink
    <3>2. TodoBears(batch[x], c, st, v)
      BY <2>2, <3>1 DEF TodoBears
    <3> QED
      BY <3>2 DEF Bears
  <2> QED
    BY <1>1, <2>1, <2>2 DEF Bears
<1> QED
  BY <1>1 DEF NothingNew

LEMMA StampsStep ==
  ASSUME Whole, Base, StampsOK, [Next]_vars
  PROVE  StampsOK'
<1>1. Base' /\ Calm' /\ \A d \in Device : history'[d].clock >= history[d].clock
  BY BaseStep, CalmStep, StepClocks DEF StampsOK
<1>2. ASSUME NothingNew PROVE StampsOK'
  BY <1>1, <1>2, ClocksGrow, NothingUnique DEF StampsOK
<1>3. CASE UNCHANGED vars
  <2>1. NothingNew
    BY <1>3 DEF vars, NothingNew, Bears
  <2> QED
    BY <1>2, <2>1
<1>4. ASSUME NEW d \in Device, LocalStep(d) PROVE StampsOK'
  <2>1. CASE OneNew(d)
    BY <1>1, <2>1, NewStamps DEF StampsOK
  <2> QED
    BY <1>2, <1>4, <2>1, LocalStamps
<1>5. ASSUME NEW dp \in Pair, NEW r \in Todo(dp[1], dp[2]), JudgeStep(dp, r) PROVE StampsOK'
  BY <1>2, <1>5, JudgeStamps
<1>6. ASSUME NEW dp \in Pair, Push(dp[1], dp[2]) PROVE StampsOK'
  BY <1>2, <1>6, PushStamps
<1>7. CASE IdleStep
  BY <1>2, <1>7, IdleStamps DEF IdleStep
<1> QED
  BY <1>3, <1>4, <1>5, <1>6, <1>7, ShapedSteps DEF StampsOK

LEMMA StampsInit ==
  Init => StampsOK
<1> SUFFICES ASSUME Init PROVE StampsOK
  OBVIOUS
<1>1. \A d \in Device : history[d] = EmptyHistory
  BY DEF Init
<1>2. \A c \in Content : ~Present(EmptyHistory, c)
  BY DEF EmptyHistory, Present
<1>3. \A dp \in Pair : batch[dp] = None
  BY DEF Init
<1>4. \A c \in Content : \A st, v : ~Bears(c, st, v)
  BY <1>1, <1>2, <1>3 DEF Bears, RowBears, TodoBears
<1>5. Calm
  BY DEF Init, Calm
<1> QED
  BY <1>4, <1>5 DEF StampsOK, Stamped, Unique

LEMMA StampsHold ==
  ASSUME Whole
  PROVE  Spec => []StampsOK
<1>1. Base /\ StampsOK /\ [Next]_vars => StampsOK'
  BY StampsStep
<1> QED
  BY <1>1, BaseHolds, StampsInit, PTL DEF Spec

LEMMA RecordsBear ==
  ASSUME NEW r \in RecordsAnywhere, Base
  PROVE  r.content \in Content /\ Bears(r.content, StampOf(r), Visible(r))
<1>1. CASE \E d \in Device : r \in RecordsAt(d)
  <2>1. PICK d \in Device : r \in RecordsAt(d)
    BY <1>1
  <2>2. PICK c \in Content : InFeed(history[d].rows[c]) /\ r = RecordOf(c, history[d].rows[c])
    BY <2>1 DEF RecordsAt
  <2>row. PICK row : row = history[d].rows[c]
    OBVIOUS
  <2>3. /\ r.content = c /\ r.lamport = row.lamport /\ r.device_id = row.device_id
        /\ r.pinned = row.pinned /\ r.deleted = (row.deleted # "no")
    BY <2>2, <2>row DEF RecordOf
  <2>4. StampOf(r) = StampOf(row) /\ Visible(r) = RowVisible(row)
    BY <2>3 DEF StampOf, Visible, RowVisible
  <2>5. RowBears(history[d], c, StampOf(r), Visible(r))
    BY <2>2, <2>4, <2>row DEF RowBears, Present, InFeed
  <2> QED
    BY <2>3, <2>5 DEF Bears
<1>2. CASE \E dp \in Pair : r \in Todo(dp[1], dp[2])
  <2>1. PICK dp \in Pair : r \in Todo(dp[1], dp[2])
    BY <1>2
  <2>2. batch[dp] # None /\ r \in batch[dp].todo /\ r.content \in Content
    BY <2>1, TodoFacts, RecordFacts
  <2>3. TodoBears(batch[dp], r.content, StampOf(r), Visible(r))
    BY <2>2 DEF TodoBears
  <2> QED
    BY <2>2, <2>3 DEF Bears
<1> DEFINE A == {RecordsAt(d) : d \in Device}
           B == {Todo(dp[1], dp[2]) : dp \in Pair}
<1>3. RecordsAnywhere = (UNION A) \cup (UNION B)
  BY DEF RecordsAnywhere
<1>4. r \in UNION A => \E d \in Device : r \in RecordsAt(d)
  OBVIOUS
<1>5. r \in UNION B => \E dp \in Pair : r \in Todo(dp[1], dp[2])
  OBVIOUS
<1> HIDE DEF A, B
<1> QED
  BY <1>1, <1>2, <1>3, <1>4, <1>5

(* A stamp names one state, everywhere and for ever, when no crash cuts a  *)
(* change off from its stamp and no record waits for a thumbnail.          *)
THEOREM StampsNameStates ==
  ASSUME "crash" \notin Happens, Image = {}
  PROVE  Spec => []SameStampSameState
<1>1. Base /\ StampsOK => SameStampSameState
  BY RecordsBear DEF StampsOK, Unique, SameStampSameState
<1>2. Whole
  BY DEF Whole
<1> QED
  BY <1>1, <1>2, BaseHolds, StampsHold, PTL

-----------------------------------------------------------------------------
(* Authors.  The device a stamp names still has the entry, in this state   *)
(* or a newer one, when nothing is taken off it.                           *)
RS(d, c) == StampOf(history[d].rows[c])

OwnHas(st, c) == Present(history[st[2]], c) /\ ~lww_wins(st, RS(st[2], c))

OwnOK == \A c \in Content : \A st, v : Bears(c, st, v) => OwnHas(st, c)

IsStamp(st) == st[1] \in Nat /\ st[2] \in Nat

LEMMA StampTrans ==
  ASSUME NEW x, IsStamp(x), NEW y, IsStamp(y), NEW z, IsStamp(z), ~lww_wins(x, y), ~lww_wins(y, z)
  PROVE  ~lww_wins(x, z)
BY DEF IsStamp, lww_wins

LEMMA StampAsym ==
  ASSUME NEW x, IsStamp(x), NEW y, IsStamp(y), lww_wins(x, y)
  PROVE  ~lww_wins(y, x)
BY DEF IsStamp, lww_wins

LEMMA StampSelf ==
  ASSUME NEW x, IsStamp(x)
  PROVE  ~lww_wins(x, x)
BY DEF IsStamp, lww_wins

LEMMA KeptIsStamp ==
  ASSUME NEW s \in History, NEW c \in Content, Present(s, c)
  PROVE  IsStamp(StampOf(s.rows[c]))
<1>1. s.rows[c] \in Row
  BY HistoryFacts
<1>2. s.rows[c].lamport \in Nat /\ s.rows[c].device_id \in Nat
  BY <1>1, DeviceAssumption DEF Row
<1> QED
  BY <1>2 DEF IsStamp, StampOf

LEMMA RowIsStamp ==
  ASSUME Base, NEW d \in Device, NEW c \in Content, Present(history[d], c)
  PROVE  IsStamp(RS(d, c)) /\ history[d].rows[c] \in Row /\ RS(d, c) \in Stamp
<1>1. history[d].rows[c] \in Row
  BY HistoryFacts DEF Base, HistoriesOK
<1>2. history[d].rows[c].lamport \in Nat /\ history[d].rows[c].device_id \in Nat
  BY <1>1, DeviceAssumption DEF Row
<1> QED
  BY <1>1, <1>2, RowStamps DEF RS, IsStamp

LEMMA RecordIsStamp ==
  ASSUME NEW r \in Record
  PROVE  IsStamp(StampOf(r))
<1>1. r.lamport \in Nat /\ r.device_id \in Nat
  BY RecordFacts, DeviceAssumption
<1> QED
  BY <1>1 DEF IsStamp, StampOf

(* A row is kept, and gives way to newer states only. *)
RowGrows(s, t, c) ==
  Present(s, c) => Present(t, c) /\ ~lww_wins(StampOf(s.rows[c]), StampOf(t.rows[c]))

GrowStep == \A d \in Device : \A c \in Content : RowGrows(history[d], history'[d], c)

LEMMA SameGrows ==
  ASSUME NEW s, NEW t, NEW c, s.rows[c] \in Row, Present(t, c), SameEntry(s.rows[c], t.rows[c])
  PROVE  RowGrows(s, t, c)
<1>1. StampOf(t.rows[c]) = StampOf(s.rows[c])
  BY DEF SameEntry, StampOf
<1>2. ~lww_wins(StampOf(s.rows[c]), StampOf(s.rows[c]))
  BY RowStamps, StampOrder
<1> QED
  BY <1>1, <1>2 DEF RowGrows

LEMMA SelfGrows ==
  ASSUME Base, NEW d \in Device, NEW c \in Content
  PROVE  RowGrows(history[d], history[d], c)
BY RowIsStamp, StampSelf DEF RowGrows, RS

LEMMA WriteGrows ==
  ASSUME Base, NEW d \in Device, NEW t, Write(d, t), \A c \in Content : RowGrows(history[d], t, c)
  PROVE  GrowStep
<1>1. \A e \in Device : history'[e] = IF e = d THEN t ELSE history[e]
  BY DEF Write, Base, HistoriesOK
<1> QED
  BY <1>1, SelfGrows DEF GrowStep

LEMMA JudgeGrows ==
  ASSUME Lasting, Base, TidyDevices, NEW dp \in Pair, NEW r \in Todo(dp[1], dp[2]), JudgeStep(dp, r)
  PROVE  GrowStep
<1>p. PICK p : p = dp[2]
  OBVIOUS
<1>s. PICK s : s = history[p]
  OBVIOUS
<1>1. r \in Record /\ p \in Device /\ TidyAll(s) /\ s \in History
  BY <1>p, <1>s, TodoFacts DEF TidyDevices, Base, HistoriesOK
<1>2. PICK t : Write(p, t) /\ Ends(dp, r, t)
  BY <1>p DEF JudgeStep
<1>3. (\A e \in Content : TakenRow(s, t, r, e)) /\ Stays(s, t)
  BY <1>2, <1>p, <1>s DEF Ends, RecordEnd
<1>4. ASSUME NEW c \in Content, Present(s, c) PROVE RowGrows(s, t, c)
  <2>1. Present(t, c) /\ s.rows[c] \in Row
    BY <1>1, <1>3, <1>4, HistoryFacts DEF Stays
  <2>2. CASE SameEntry(s.rows[c], t.rows[c])
    BY <2>1, <2>2, SameGrows
  <2>3. CASE c = r.content /\ TakenHere(s, t, r)
    <3>1. lww_wins(StampOf(r), StampOf(s.rows[c]))
      BY <1>4, <2>3 DEF TakenHere, Wins
    <3>2. StampOf(t.rows[c]) = StampOf(r)
      BY <1>1, <2>3, ShowsVisible DEF TakenHere
    <3>3. ~lww_wins(StampOf(s.rows[c]), StampOf(r))
      BY <1>1, <2>1, <3>1, RowStamps, RecordStamps, StampOrder
    <3> QED
      BY <2>1, <3>2, <3>3 DEF RowGrows
  <2> QED
    BY <1>3, <2>1, <2>2, <2>3 DEF TakenRow
<1>5. \A c \in Content : RowGrows(s, t, c)
  BY <1>4 DEF RowGrows
<1> QED
  BY <1>1, <1>2, <1>5, <1>s, WriteGrows

LEMMA GrowOwn ==
  ASSUME Base, Base', StampsOK, OwnOK, GrowStep, NothingNew
  PROVE  OwnOK'
<1>1. ASSUME NEW c \in Content, NEW st, NEW v, Bears(c, st, v)' PROVE OwnHas(st, c)'
  <2>1. Bears(c, st, v)
    BY <1>1 DEF NothingNew
  <2>a. PICK a : a = st[2]
    OBVIOUS
  <2>2. a \in Device /\ IsStamp(st)
    BY <2>1, <2>a, DeviceAssumption DEF StampsOK, Stamped, IsStamp
  <2>3. Present(history[a], c) /\ ~lww_wins(st, RS(a, c))
    BY <2>1, <2>a DEF OwnOK, OwnHas
  <2>4. Present(history'[a], c) /\ ~lww_wins(RS(a, c), RS(a, c)')
    BY <2>2, <2>3 DEF GrowStep, RowGrows, RS
  <2>5. IsStamp(RS(a, c)) /\ IsStamp(StampOf(history'[a].rows[c]))
    <3>1. history'[a] \in History
      BY <2>2 DEF Base, HistoriesOK
    <3> QED
      BY <2>2, <2>3, <2>4, <3>1, RowIsStamp, KeptIsStamp
  <2>6. ~lww_wins(st, RS(a, c)')
    <3>1. RS(a, c)' = StampOf(history'[a].rows[c])
      BY DEF RS
    <3> QED
      BY <2>2, <2>3, <2>4, <2>5, <3>1, StampTrans
  <2> QED
    BY <2>4, <2>6, <2>a DEF OwnHas, Present
<1> QED
  BY <1>1 DEF OwnOK

LEMMA LocalOwn ==
  ASSUME Lasting, Base, TidyDevices, StampsOK, OwnOK, NEW d \in Device, LocalStep(d)
  PROVE  OwnOK'
<1>s. PICK s : s = history[d]
  OBVIOUS
<1>1. PICK t : Write(d, t) /\ LocalEnd(d, s, t)
  BY <1>s DEF LocalStep
<1>2. PICK c0 : \A e \in Content : LocalRow(d, s, t, c0, e)
  BY <1>1 DEF LocalEnd, LocalRows
<1>3. BatchesShrink
  BY LocalQuiet DEF QuietStep
<1>4. s \in History /\ t \in History /\ TidyAll(s) /\ Stays(s, t)
  BY <1>s, <1>1 DEF Base, HistoriesOK, LocalEnd, Sane, TidyDevices
<1>5. \A e \in Device : history'[e] = IF e = d THEN t ELSE history[e]
  BY <1>1 DEF Write, Base, HistoriesOK
<1>6. ASSUME NEW c \in Content, MadeHere(d, s, t, c)
      PROVE  /\ StampOf(t.rows[c]) = <<t.clock, d>> /\ t.clock \in Nat /\ t.clock > s.clock /\ s.clock \in Nat
  <2>1. t.clock = tick_lamport(s).clock /\ t.rows[c].lamport = t.clock /\ t.rows[c].device_id = d
    BY <1>6 DEF MadeHere
  <2>u. PICK u : u = tick_lamport(s)
    OBVIOUS
  <2>2. u.clock > s.clock /\ u.clock = t.clock
    BY <1>4, <2>1, <2>u, TickIs
  <2> QED
    BY <1>4, <2>1, <2>2, HistoryFacts DEF StampOf
<1>7. ASSUME NEW c \in Content, NEW st, NEW v, Bears(c, st, v)' PROVE OwnHas(st, c)'
  <2>a. PICK a : a = st[2]
    OBVIOUS
  <2>1. CASE Bears(c, st, v)
    <3>1. a \in Device /\ IsStamp(st) /\ st[1] <= history[a].clock
      BY <2>1, <2>a, DeviceAssumption DEF StampsOK, Stamped, IsStamp
    <3>2. Present(history[a], c) /\ ~lww_wins(st, RS(a, c))
      BY <2>1, <2>a DEF OwnOK, OwnHas
    <3>3. CASE a # d
      BY <1>5, <2>a, <3>1, <3>2, <3>3 DEF OwnHas, RS
    <3>4. CASE a = d
      <4>1. Present(s, c) /\ Present(t, c) /\ ~lww_wins(st, StampOf(s.rows[c]))
        BY <1>4, <1>s, <3>2, <3>4 DEF Stays, RS
      <4>2. ~lww_wins(st, StampOf(t.rows[c]))
        <5>1. CASE SameEntry(s.rows[c], t.rows[c])
          BY <4>1, <5>1 DEF SameEntry, StampOf
        <5>2. CASE MadeHere(d, s, t, c)
          <6>1. StampOf(t.rows[c]) = <<t.clock, d>> /\ t.clock \in Nat /\ t.clock > s.clock /\ s.clock \in Nat
            BY <1>6, <5>2
          <6>2. st[1] <= s.clock /\ st[1] \in Nat
            BY <1>s, <3>1, <3>4 DEF IsStamp
          <6> QED
            BY <6>1, <6>2 DEF lww_wins
        <5> QED
          BY <1>2, <4>1, <5>1, <5>2 DEF LocalRow
      <4>3. history'[a] = t
        BY <1>5, <3>4
      <4> QED
        BY <2>a, <4>1, <4>2, <4>3 DEF OwnHas, RS, Present
    <3> QED
      BY <3>3, <3>4
  <2>2. CASE ~Bears(c, st, v)
    <3>1. RowBears(t, c, st, v)
      BY <1>1, <1>3, <1>7, <1>s, <2>2, WriteBears
    <3>2. MadeHere(d, s, t, c)
      <4>1. ASSUME Present(s, c), SameEntry(s.rows[c], t.rows[c]) PROVE FALSE
        <5>1. RowBears(s, c, st, v)
          BY <3>1, <4>1, SameVisible
        <5> QED
          BY <1>s, <2>2, <5>1 DEF Bears
      <4> QED
        BY <1>2, <3>1, <4>1 DEF LocalRow, RowBears
    <3>3. st = StampOf(t.rows[c]) /\ Present(t, c) /\ t.rows[c] \in Row
      BY <1>4, <3>1, HistoryFacts DEF RowBears
    <3>4. st[2] = d
      BY <3>2, <3>3 DEF MadeHere, StampOf
    <3>5. history'[st[2]] = t
      BY <1>5, <3>4
    <3>6. ~lww_wins(st, st)
      BY <3>3, RowStamps, StampOrder
    <3> QED
      BY <3>3, <3>5, <3>6 DEF OwnHas, RS, Present
  <2> QED
    BY <2>1, <2>2
<1> QED
  BY <1>7 DEF OwnOK

LEMMA StillGrows ==
  ASSUME Base, history' = history
  PROVE  GrowStep
BY SelfGrows DEF GrowStep

LEMMA OwnStep ==
  ASSUME Lasting, Image = {}, Base, SecretsOK, StampsOK, OwnOK, [Next]_vars
  PROVE  OwnOK'
<1>1. Base' /\ Whole /\ TidyDevices /\ Calm
  BY BaseStep DEF Whole, Lasting, SecretsOK, StampsOK
<1>2. CASE UNCHANGED vars
  BY <1>2 DEF vars, OwnOK, OwnHas, Bears, RS
<1>3. ASSUME NEW d \in Device, LocalStep(d) PROVE OwnOK'
  BY <1>1, <1>3, LocalOwn
<1>4. ASSUME NEW dp \in Pair, NEW r \in Todo(dp[1], dp[2]), JudgeStep(dp, r) PROVE OwnOK'
  BY <1>1, <1>4, JudgeGrows, JudgeStamps, GrowOwn
<1>5. ASSUME NEW dp \in Pair, Push(dp[1], dp[2]) PROVE OwnOK'
  <2>1. history' = history
    BY <1>5 DEF Push
  <2> QED
    BY <1>1, <1>5, <2>1, StillGrows, PushStamps, GrowOwn
<1>6. CASE IdleStep
  BY <1>1, <1>6, StillGrows, IdleStamps, GrowOwn DEF IdleStep
<1> QED
  BY <1>1, <1>2, <1>3, <1>4, <1>5, <1>6, ShapedSteps

LEMMA OwnInit ==
  Init => OwnOK
<1> SUFFICES ASSUME Init PROVE OwnOK
  OBVIOUS
<1>1. \A d \in Device : history[d] = EmptyHistory
  BY DEF Init
<1>2. \A c \in Content : ~Present(EmptyHistory, c)
  BY DEF EmptyHistory, Present
<1>3. \A dp \in Pair : batch[dp] = None
  BY DEF Init
<1>4. \A c \in Content : \A st, v : ~Bears(c, st, v)
  BY <1>1, <1>2, <1>3 DEF Bears, RowBears, TodoBears
<1> QED
  BY <1>4 DEF OwnOK

LEMMA OwnHolds ==
  ASSUME Lasting, Image = {}
  PROVE  Spec => []OwnOK
<1>1. "crash" \notin Happens /\ Whole
  BY DEF Lasting, Whole
<1>2. Base /\ SecretsOK /\ StampsOK /\ OwnOK /\ [Next]_vars => OwnOK'
  BY OwnStep
<1> QED
  BY <1>1, <1>2, BaseHolds, SecretsHolds, StampsHold, OwnInit, PTL DEF Spec

(* When nothing is taken off a device - no crash, no retention limit, no   *)
(* clearing - and nothing waits for a thumbnail, the author of a state     *)
(* that is about has it or something newer: push may leave it out.         *)
THEOREM AuthorsKeepUp ==
  ASSUME Lasting, Image = {}
  PROVE  Spec => []PeerHasItsOwn
<1>1. Base /\ OwnOK => PeerHasItsOwn
  <2> SUFFICES ASSUME Base, OwnOK, NEW d \in Device, NEW r \in RecordsAt(d)
               PROVE  LET own == history[r.device_id].rows[r.content]
                      IN  own # Absent => ~lww_wins(StampOf(r), StampOf(own))
    BY DEF PeerHasItsOwn
  <2>1. r \in RecordsAnywhere
    <3> DEFINE A == {RecordsAt(e) : e \in Device}
               B == {Todo(dp[1], dp[2]) : dp \in Pair}
    <3>1. RecordsAnywhere = (UNION A) \cup (UNION B)
      BY DEF RecordsAnywhere
    <3>2. r \in UNION A
      OBVIOUS
    <3> HIDE DEF A, B
    <3> QED
      BY <3>1, <3>2
  <2>2. r.content \in Content /\ Bears(r.content, StampOf(r), Visible(r))
    BY <2>1, RecordsBear
  <2>3. OwnHas(StampOf(r), r.content)
    BY <2>2 DEF OwnOK
  <2>4. StampOf(r)[2] = r.device_id
    BY DEF StampOf
  <2> QED
    BY <2>3, <2>4 DEF OwnHas, RS
<1> QED
  BY <1>1, BaseHolds, OwnHolds, PTL

-----------------------------------------------------------------------------
(* Devices that all meet, and lose nothing, agree once every feed has been *)
(* read to its end: for any number of devices and contents, and any order  *)
(* of changes, batches, broken sessions and new starts.                    *)
(*                                                                         *)
(* What it takes.  Each of these has its counterexample, see the README;   *)
(* the last says that no clock comes near the limit beyond which panod     *)
(* does not follow a peer's.                                               *)
Meeting ==
  /\ Lasting /\ Image = {}
  /\ Refused = {} /\ Apart = {}
  /\ "private" \notin Happens
  /\ Top < LAMPORT_OBSERVE_LIMIT

LEMMA MeetingIs ==
  ASSUME Meeting
  PROVE  /\ Lasting /\ Image = {} /\ Whole /\ "crash" \notin Happens /\ "private" \notin Happens
         /\ \A d, e \in Device : d # e => <<d, e>> \in Pair
<1>1. Lasting /\ Image = {} /\ Apart = {} /\ "private" \notin Happens
  BY DEF Meeting
<1>2. "crash" \notin Happens
  BY <1>1 DEF Lasting
<1>3. \A d, e \in Device : d # e => <<d, e>> \in Pair
  BY <1>1 DEF Pair
<1> QED
  BY <1>1, <1>2, <1>3 DEF Whole

(* The order of stamps, in the forms used below. *)
LEMMA StampIs ==
  ASSUME NEW x \in Stamp
  PROVE  IsStamp(x)
<1>1. PICK a \in Nat, b \in Device \cup {0} : x = <<a, b>>
  BY DEF Stamp
<1> QED
  BY <1>1, DeviceAssumption DEF IsStamp

LEMMA WinsOver ==
  ASSUME NEW x \in Stamp, NEW y \in Stamp, NEW z \in Stamp, lww_wins(x, y), ~lww_wins(z, y)
  PROVE  lww_wins(x, z)
BY StampIs, StampTrans

LEMMA WinsFrom ==
  ASSUME NEW x \in Stamp, NEW y \in Stamp, NEW z \in Stamp, ~lww_wins(y, x), lww_wins(y, z)
  PROVE  lww_wins(x, z)
BY StampIs, StampTrans

LEMMA NotOver ==
  ASSUME NEW x \in Stamp, NEW y \in Stamp, NEW z \in Stamp, ~lww_wins(x, y), ~lww_wins(y, z)
  PROVE  ~lww_wins(x, z)
BY StampIs, StampTrans

LEMMA Alike ==
  ASSUME NEW x \in Stamp, NEW y \in Stamp, ~lww_wins(x, y), ~lww_wins(y, x)
  PROVE  x = y
BY StampOrder

-----------------------------------------------------------------------------
(* Rows give way to newer states only, to the user's changes too.          *)
LEMMA MadeIsNewer ==
  ASSUME Meeting, NEW d \in Device, NEW s, Sane(s), NEW t, Sane(t), NEW c \in Content, MadeHere(d, s, t, c)
  PROVE  /\ StampOf(t.rows[c]) = <<t.clock, d>> /\ t.clock \in Nat /\ t.clock > s.clock
         /\ Present(s, c) => lww_wins(StampOf(t.rows[c]), StampOf(s.rows[c]))
<1>u. PICK u : u = tick_lamport(s)
  OBVIOUS
<1>1. s \in History /\ t \in History /\ t.clock \in Nat /\ s.clock \in Nat
  BY HistoryFacts DEF Sane
<1>2. t.clock = u.clock /\ t.rows[c].lamport = t.clock /\ t.rows[c].device_id = d
  BY <1>u DEF MadeHere
<1>3. u.clock > s.clock
  BY <1>1, <1>u, TickIs
<1>4. ASSUME Present(s, c) PROVE lww_wins(StampOf(t.rows[c]), StampOf(s.rows[c]))
  <2>1. s.rows[c].lamport \in 1..Top
    BY <1>4 DEF Sane
  <2>2. s.rows[c].lamport < LAMPORT_OBSERVE_LIMIT
    BY <2>1, TopFacts, LamportAssumption DEF Meeting
  <2>3. u.clock > s.rows[c].lamport
    BY <1>1, <1>4, <1>u, <2>2, TickIs
  <2> QED
    BY <1>2, <2>3 DEF lww_wins, StampOf
<1> QED
  BY <1>1, <1>2, <1>3, <1>4 DEF StampOf

LEMMA LocalGrows ==
  ASSUME Meeting, Base, TidyDevices, NEW d \in Device, LocalStep(d)
  PROVE  GrowStep
<1>s. PICK s : s = history[d]
  OBVIOUS
<1>1. PICK t : Write(d, t) /\ LocalEnd(d, s, t)
  BY <1>s DEF LocalStep
<1>2. PICK c0 : \A e \in Content : LocalRow(d, s, t, c0, e)
  BY <1>1 DEF LocalEnd, LocalRows
<1>3. Sane(s) /\ Sane(t) /\ s \in History /\ t \in History
  BY <1>1, <1>s DEF Base, HistoriesOK, LocalEnd, Sane
<1>4. TidyAll(s) /\ Stays(s, t)
  BY <1>1, <1>s, MeetingIs DEF LocalEnd, TidyDevices
<1>5. ASSUME NEW c \in Content, Present(s, c) PROVE RowGrows(s, t, c)
  <2>1. Present(t, c) /\ s.rows[c] \in Row /\ t.rows[c] \in Row
    BY <1>3, <1>4, <1>5, HistoryFacts DEF Stays
  <2>2. CASE SameEntry(s.rows[c], t.rows[c])
    BY <2>1, <2>2, SameGrows
  <2>3. CASE MadeHere(d, s, t, c)
    <3>1. lww_wins(StampOf(t.rows[c]), StampOf(s.rows[c]))
      BY <1>3, <1>5, <2>3, MadeIsNewer
    <3>2. ~lww_wins(StampOf(s.rows[c]), StampOf(t.rows[c]))
      BY <2>1, <3>1, RowStamps, StampOrder
    <3> QED
      BY <2>1, <3>2 DEF RowGrows
  <2> QED
    BY <1>2, <2>1, <2>2, <2>3 DEF LocalRow
<1>6. \A c \in Content : RowGrows(s, t, c)
  BY <1>5 DEF RowGrows
<1> QED
  BY <1>1, <1>6, <1>s, WriteGrows

LEMMA StepGrows ==
  ASSUME Meeting, Base, SecretsOK, Calm, [Next]_vars
  PROVE  GrowStep
<1>1. Whole /\ TidyDevices /\ Lasting
  BY MeetingIs DEF SecretsOK
<1>2. ASSUME NEW d \in Device, LocalStep(d) PROVE GrowStep
  BY <1>1, <1>2, LocalGrows
<1>3. ASSUME NEW dp \in Pair, NEW r \in Todo(dp[1], dp[2]), JudgeStep(dp, r) PROVE GrowStep
  BY <1>1, <1>3, JudgeGrows
<1>4. CASE history' = history
  BY <1>4, StillGrows
<1> QED
  BY <1>1, <1>2, <1>3, <1>4, ShapedSteps DEF vars, Push, IdleStep

LEMMA OwnHasGrows ==
  ASSUME Base, Base', GrowStep, NEW c \in Content, NEW st, IsStamp(st), st[2] \in Device, OwnHas(st, c)
  PROVE  OwnHas(st, c)'
<1>a. PICK a : a = st[2]
  OBVIOUS
<1>1. a \in Device /\ Present(history[a], c) /\ ~lww_wins(st, RS(a, c))
  BY <1>a DEF OwnHas
<1>2. Present(history'[a], c) /\ ~lww_wins(RS(a, c), StampOf(history'[a].rows[c]))
  BY <1>1 DEF GrowStep, RowGrows, RS
<1>3. IsStamp(RS(a, c)) /\ IsStamp(StampOf(history'[a].rows[c]))
  <2>1. history'[a] \in History
    BY <1>1 DEF Base, HistoriesOK
  <2> QED
    BY <1>1, <1>2, <2>1, RowIsStamp, KeptIsStamp
<1>4. ~lww_wins(st, StampOf(history'[a].rows[c]))
  BY <1>1, <1>2, <1>3, StampTrans
<1> QED
  BY <1>2, <1>4, <1>a DEF OwnHas, RS, Present

-----------------------------------------------------------------------------
(* What a device has heard: its clock has followed, the author of what it  *)
(* heard still has it or something newer, and if the entry is not there    *)
(* then what it heard is a deletion.                                       *)
HeardFits(e, c, h) ==
  /\ h[1] <= history[e].clock
  /\ h # NoStamp => h[2] \in Device /\ h[1] <= history[h[2]].clock /\ OwnHas(h, c)
  /\ h # NoStamp /\ ~Present(history[e], c) => \A v : Bears(c, h, v) => v = "deleted"

HeardOK == \A e \in Device : \A c \in Content : HeardFits(e, c, heard[e][c])

ClocksMove == \A d \in Device : history'[d].clock >= history[d].clock

Stamps == NothingNew \/ \E d \in Device : OneNew(d)

LEMMA FitsStays ==
  ASSUME Base, Base', GrowStep, ClocksMove, Stamps, NEW e \in Device, NEW c \in Content,
         NEW h \in Stamp, HeardFits(e, c, h)
  PROVE  HeardFits(e, c, h)'
<1>1. \A d \in Device : history[d].clock \in Nat /\ history'[d].clock \in Nat /\ history'[d].clock >= history[d].clock
  BY HistoryFacts DEF Base, HistoriesOK, ClocksMove
<1>2. IsStamp(h) /\ h[1] \in Nat
  BY StampIs DEF IsStamp
<1>3. h[1] <= history'[e].clock
  BY <1>1, <1>2 DEF HeardFits
<1>4. ASSUME h # NoStamp PROVE h[2] \in Device /\ h[1] <= history'[h[2]].clock /\ OwnHas(h, c)'
  <2>1. h[2] \in Device /\ h[1] <= history[h[2]].clock /\ OwnHas(h, c)
    BY <1>4 DEF HeardFits
  <2>2. OwnHas(h, c)'
    BY <1>2, <2>1, OwnHasGrows
  <2> QED
    BY <1>1, <1>2, <2>1, <2>2
<1>5. ASSUME h # NoStamp, ~Present(history'[e], c), NEW v, Bears(c, h, v)' PROVE v = "deleted"
  <2>1. ~Present(history[e], c)
    BY <1>5 DEF GrowStep, RowGrows
  <2>2. Bears(c, h, v)
    <3>1. ASSUME NEW d \in Device, OneNew(d) PROVE Bears(c, h, v)
      <4>1. PICK c0, k, w :
              /\ k \in Nat /\ history[d].clock < k /\ k = history'[d].clock
              /\ \A x \in Content : \A st, u :
                   Bears(x, st, u)' => Bears(x, st, u) \/ (x = c0 /\ st = <<k, d>> /\ u = w)
        BY <3>1 DEF OneNew
      <4>2. h[2] \in Device /\ h[1] <= history[h[2]].clock
        BY <1>5 DEF HeardFits
      <4>3. h # <<k, d>>
        <5>1. ASSUME h = <<k, d>> PROVE FALSE
          <6>1. h[1] = k /\ h[2] = d
            BY <5>1
          <6> QED
            BY <1>1, <4>1, <4>2, <6>1
        <5> QED
          BY <5>1
      <4> QED
        BY <1>5, <4>1, <4>3
    <3> QED
      BY <1>5, <3>1 DEF Stamps, NothingNew
  <2> QED
    BY <1>5, <2>1, <2>2 DEF HeardFits
<1> QED
  BY <1>3, <1>4, <1>5 DEF HeardFits, Present

LEMMA SameHeard ==
  ASSUME Base, Base', GrowStep, ClocksMove, Stamps, HeardOK, heard' = heard
  PROVE  HeardOK'
<1>1. ASSUME NEW e \in Device, NEW c \in Content PROVE HeardFits(e, c, heard[e][c])'
  <2>h. PICK h : h = heard[e][c]
    OBVIOUS
  <2>1. h \in Stamp /\ HeardFits(e, c, h)
    BY <2>h DEF Base, HeardOK
  <2>2. HeardFits(e, c, h)'
    BY <2>1, FitsStays
  <2> QED
    BY <2>2, <2>h
<1> QED
  BY <1>1 DEF HeardOK

LEMMA JudgeStepHeard ==
  ASSUME Meeting, Base, Base', SecretsOK, StampsOK, OwnOK, FeedOK, HeardOK,
         NEW dp \in Pair, NEW r \in Todo(dp[1], dp[2]), JudgeStep(dp, r)
  PROVE  HeardOK'
<1>p. PICK p : p = dp[2]
  OBVIOUS
<1>s. PICK s : s = history[p]
  OBVIOUS
<1>c. PICK c : c = r.content
  OBVIOUS
<1>k. PICK k : k = StampOf(r)
  OBVIOUS
<1>1. /\ p \in Device /\ r \in Record /\ r.lamport \in 1..Top /\ c \in Content
      /\ batch[dp] # None /\ r \in batch[dp].todo
  BY <1>p, <1>c, TodoFacts, RecordFacts
<1>2. PICK t : Write(p, t) /\ Ends(dp, r, t)
  BY <1>p DEF JudgeStep
<1>3. history'[p] = t /\ TidyAll(s)
  BY <1>1, <1>2, <1>s DEF Write, Base, HistoriesOK, SecretsOK, TidyDevices
<1>4. GrowStep /\ NothingNew /\ Stamps
  BY MeetingIs, JudgeGrows, JudgeStamps DEF SecretsOK, Stamps
<1>5. ClocksMove
  BY JudgeQuiet DEF QuietStep, Progress, Moves, ClocksMove
<1>6. private[p] = FALSE
  BY <1>1, OpenIs DEF FeedOK
<1>7. Heard(p, r)
  BY <1>3, <1>6, <1>p, <1>s, MeetingIs DEF JudgeStep, Outcome
<1>8. HeardElsewhere(p, c) /\ heard'[p][c] \in {k, heard[p][c]}
  BY <1>1, <1>7, <1>c, <1>k, HeardIs DEF Base
<1>9. ASSUME NEW e \in Device, NEW x \in Content, heard'[e][x] = heard[e][x]
      PROVE  HeardFits(e, x, heard[e][x])'
  <2>h. PICK h : h = heard[e][x]
    OBVIOUS
  <2>1. h \in Stamp /\ HeardFits(e, x, h)
    BY <2>h DEF Base, HeardOK
  <2>2. HeardFits(e, x, h)'
    BY <1>4, <1>5, <2>1, FitsStays
  <2> QED
    BY <1>9, <2>2, <2>h
<1>10. HeardFits(p, c, k)'
  <2>1. TodoBears(batch[dp], c, k, Visible(r))
    BY <1>1, <1>c, <1>k DEF TodoBears
  <2>2. Bears(c, k, Visible(r))
    BY <2>1 DEF Bears
  <2>3. k[2] \in Device /\ k[1] \in Nat /\ k[1] <= history[k[2]].clock /\ OwnHas(k, c)
    BY <1>1, <2>2 DEF StampsOK, Stamped, OwnOK
  <2>4. k \in Stamp /\ IsStamp(k) /\ k[1] = r.lamport
    BY <1>1, <1>k, RecordStamps, RecordIsStamp
  <2>5. k[1] <= history'[k[2]].clock /\ OwnHas(k, c)'
    <3>1. history[k[2]].clock \in Nat /\ history'[k[2]].clock \in Nat
      BY <2>3, HistoryFacts DEF Base, HistoriesOK
    <3> QED
      BY <1>1, <1>4, <1>5, <2>3, <2>4, <3>1, OwnHasGrows DEF ClocksMove
  <2>6. k[1] <= history'[p].clock
    <3>1. ObservesAt(t, r)
      BY <1>2 DEF Ends, RecordEnd
    <3>2. r.lamport < LAMPORT_OBSERVE_LIMIT
      BY <1>1, TopFacts, LamportAssumption DEF Meeting
    <3>3. t \in History
      BY <1>2 DEF Ends, RecordEnd, Sane
    <3>4. t.clock \in Nat /\ r.lamport \in Nat
      BY <1>1, <3>3, HistoryFacts, TopFacts
    <3> QED
      BY <1>3, <2>4, <3>1, <3>2, <3>4 DEF ObservesAt
  <2>7. ASSUME ~Present(history'[p], c), NEW v, Bears(c, k, v)' PROVE v = "deleted"
    <3>1. ~Present(s, c) /\ ~Present(t, c)
      BY <1>1, <1>3, <1>4, <1>s, <2>7 DEF GrowStep, RowGrows
    <3>2. ~GateRefuses(dp[2], r)
      BY <1>6, <1>p DEF GateRefuses, Meeting
    <3>3. Arrives(s, t, r)
      BY <1>2, <1>p, <1>s, <3>2, MeetingIs DEF Ends
    <3>4. Wins(s, r)
      BY <1>c, <3>1 DEF Wins
    <3>5. r.deleted
      BY <1>3, <1>c, <3>1, <3>3, <3>4 DEF Arrives
    <3>6. Visible(r) = "deleted"
      BY <3>5 DEF Visible
    <3>7. Bears(c, k, v)
      BY <1>1, <1>4, <2>7 DEF NothingNew
    <3> QED
      BY <1>1, <2>2, <3>6, <3>7 DEF StampsOK, Unique
  <2> QED
    BY <2>3, <2>5, <2>6, <2>7 DEF HeardFits, Present
<1>11. ASSUME NEW e \in Device, NEW x \in Content PROVE HeardFits(e, x, heard[e][x])'
  <2>1. CASE heard'[e][x] = heard[e][x]
    BY <1>9, <2>1
  <2>2. CASE heard'[e][x] # heard[e][x]
    <3>1. e = p /\ x = c /\ heard'[e][x] = k
      BY <1>8, <2>2 DEF HeardElsewhere
    <3> QED
      BY <1>10, <3>1
  <2> QED
    BY <2>1, <2>2
<1> QED
  BY <1>11 DEF HeardOK

LEMMA HeardStep ==
  ASSUME Meeting, Base, SecretsOK, StampsOK, OwnOK, FeedOK, HeardOK, [Next]_vars
  PROVE  HeardOK'
<1>1. Base' /\ GrowStep /\ ClocksMove /\ Whole /\ Calm
  BY BaseStep, StepGrows, StepClocks, MeetingIs DEF ClocksMove, StampsOK
<1>2. CASE UNCHANGED vars
  <2>1. NothingNew
    BY <1>2 DEF vars, NothingNew, Bears
  <2> QED
    BY <1>1, <1>2, <2>1, SameHeard DEF vars, Stamps
<1>3. ASSUME NEW d \in Device, LocalStep(d) PROVE HeardOK'
  <2>1. Stamps /\ heard' = heard
    BY <1>3, LocalStamps DEF Stamps, LocalStep, LocalOnly
  <2> QED
    BY <1>1, <2>1, SameHeard
<1>4. ASSUME NEW dp \in Pair, NEW r \in Todo(dp[1], dp[2]), JudgeStep(dp, r) PROVE HeardOK'
  BY <1>1, <1>4, JudgeStepHeard
<1>5. ASSUME NEW dp \in Pair, Push(dp[1], dp[2]) PROVE HeardOK'
  <2>1. Stamps /\ heard' = heard
    BY <1>5, PushStamps DEF Stamps, Push
  <2> QED
    BY <1>1, <2>1, SameHeard
<1>6. CASE IdleStep
  <2>1. Stamps /\ heard' = heard
    BY <1>1, <1>6, IdleStamps DEF Stamps, IdleStep
  <2> QED
    BY <1>1, <2>1, SameHeard
<1> QED
  BY <1>1, <1>2, <1>3, <1>4, <1>5, <1>6, ShapedSteps

LEMMA HeardInit ==
  Init => HeardOK
<1> SUFFICES ASSUME Init PROVE HeardOK
  OBVIOUS
<1>1. \A e \in Device : \A c \in Content : heard[e][c] = NoStamp /\ history[e].clock = 0
  BY DEF Init, EmptyHistory
<1> QED
  BY <1>1 DEF HeardOK, HeardFits, NoStamp

-----------------------------------------------------------------------------
(* What is in a batch is what its sender has, or it has something newer    *)
(* that comes after the batch.                                             *)
AheadRow(row, r, since, next) ==
  /\ row # Absent
  /\ ~lww_wins(StampOf(r), StampOf(row))
  /\ row.change_seq > since
  /\ StampOf(row) = StampOf(r) \/ row.change_seq > next

AheadOK ==
  \A dp \in Pair : batch[dp] # None =>
    /\ batch[dp].next >= cursor[dp]
    /\ \A r \in batch[dp].todo : AheadRow(history[dp[1]].rows[r.content], r, cursor[dp], batch[dp].next)

LEMMA QuietAhead ==
  ASSUME Base, Base', QuietStep, GrowStep, AheadOK
  PROVE  AheadOK'
<1>1. ASSUME NEW dp \in Pair, batch'[dp] # None
      PROVE  /\ batch'[dp].next >= cursor'[dp]
             /\ \A r \in batch'[dp].todo :
                  AheadRow(history'[dp[1]].rows[r.content], r, cursor'[dp], batch'[dp].next)
  <2>n. PICK n : n = batch[dp].next
    OBVIOUS
  <2>s. PICK s : s = history[dp[1]]
    OBVIOUS
  <2>t. PICK t : t = history'[dp[1]]
    OBVIOUS
  <2>1. batch[dp] # None /\ batch'[dp].next = n /\ batch'[dp].todo \subseteq batch[dp].todo
    BY <1>1, <2>n DEF QuietStep, BatchesShrink
  <2>2. n \in Nat /\ n <= s.seq /\ cursor[dp] \in Nat /\ cursor[dp] <= s.seq /\ dp[1] \in Device
    BY <2>1, <2>n, <2>s, BatchFacts, PairFacts DEF Base, BatchesOK, CursorsOK
  <2>3. cursor'[dp] \in Nat /\ cursor'[dp] <= cursor[dp]
    <3>1. cursor'[dp] = 0 \/ cursor'[dp] = cursor[dp]
      BY DEF QuietStep, CursorsKept
    <3> QED
      BY <2>2, <3>1
  <2>4. n >= cursor[dp]
    BY <2>1, <2>n DEF AheadOK
  <2>5. Sane(s) /\ Sane(t) /\ Moves(s, t) /\ s \in History /\ t \in History /\ s.seq \in Nat /\ t.seq \in Nat
    BY <2>2, <2>s, <2>t, HistoryFacts DEF Base, HistoriesOK, QuietStep, Progress, Sane
  <2>6. ASSUME NEW r \in batch'[dp].todo PROVE AheadRow(t.rows[r.content], r, cursor'[dp], n)
    <3>c. PICK c : c = r.content
      OBVIOUS
    <3>1. r \in batch[dp].todo /\ r \in Record /\ c \in Content
      BY <2>1, <3>c, BatchFacts, RecordFacts DEF Base
    <3>2. AheadRow(s.rows[c], r, cursor[dp], n)
      BY <2>1, <2>n, <2>s, <3>1, <3>c DEF AheadOK
    <3>3. Present(s, c) /\ ~lww_wins(StampOf(r), StampOf(s.rows[c]))
      BY <3>2 DEF AheadRow, Present
    <3>4. Present(t, c) /\ ~lww_wins(StampOf(s.rows[c]), StampOf(t.rows[c]))
      BY <2>2, <2>s, <2>t, <3>1, <3>3 DEF GrowStep, RowGrows
    <3>5. IsStamp(StampOf(r)) /\ IsStamp(StampOf(s.rows[c])) /\ IsStamp(StampOf(t.rows[c]))
      BY <2>5, <3>1, <3>3, <3>4, RecordIsStamp, KeptIsStamp
    <3>6. ~lww_wins(StampOf(r), StampOf(t.rows[c]))
      BY <3>3, <3>4, <3>5, StampTrans
    <3>7. s.rows[c].change_seq \in Nat /\ t.rows[c].change_seq \in Nat
      BY <2>5, <3>1, <3>3, <3>4 DEF Sane
    <3>8. CASE t.rows[c].change_seq \in (s.seq + 1)..t.seq
      <4>1. t.rows[c].change_seq > cursor'[dp] /\ t.rows[c].change_seq > n
        BY <2>2, <2>3, <2>5, <3>8
      <4> QED
        BY <3>4, <3>6, <3>c, <4>1 DEF AheadRow, Present
    <3>9. CASE Held(s.rows[c], t.rows[c])
      <4>1. StampOf(t.rows[c]) = StampOf(s.rows[c]) /\ t.rows[c].change_seq = s.rows[c].change_seq
        BY <3>9 DEF Held
      <4>2. t.rows[c].change_seq > cursor'[dp]
        BY <2>2, <2>3, <3>2, <3>7, <4>1 DEF AheadRow
      <4> QED
        BY <3>2, <3>4, <3>6, <3>c, <4>1, <4>2 DEF AheadRow, Present
    <3> QED
      BY <2>5, <3>1, <3>4, <3>8, <3>9 DEF Moves, RowMoves, Present
  <2> QED
    BY <2>1, <2>2, <2>3, <2>4, <2>6, <2>t
<1> QED
  BY <1>1 DEF AheadOK

LEMMA IdleAhead ==
  ASSUME AheadOK, IdleStep
  PROVE  AheadOK'
<1>1. history' = history
  BY DEF IdleStep
<1>2. \A dp \in Pair : batch'[dp] # None =>
        /\ cursor'[dp] = cursor[dp] /\ batch[dp] # None
        /\ batch'[dp].todo = batch[dp].todo /\ batch'[dp].next = batch[dp].next
  BY DEF IdleStep, PairIdle
<1> QED
  BY <1>1, <1>2 DEF AheadOK

LEMMA PushAhead ==
  ASSUME Base, AheadOK, NEW dp \in Pair, Push(dp[1], dp[2])
  PROVE  AheadOK'
<1>1. PICK page : Paged(dp, page) /\ SentOn(dp, page)
  BY PushIs
<1>2. history' = history /\ batch[dp] = None
  BY <1>1, PushIs DEF SentOn
<1>3. CASE cursor' = [cursor EXCEPT ![dp] = page.next] /\ UNCHANGED batch
  <2>1. \A x \in Pair : x # dp => cursor'[x] = cursor[x]
    BY <1>3 DEF Base, CursorsOK
  <2> QED
    BY <1>2, <1>3, <2>1 DEF AheadOK
<1>b. PICK b : b = [todo |-> ForPeer(dp, page), next |-> page.next, state |-> "sent"]
  OBVIOUS
<1>4. CASE batch' = [batch EXCEPT ![dp] = b] /\ UNCHANGED cursor
  <2>1. \A x \in Pair : batch'[x] = IF x = dp THEN b ELSE batch[x]
    BY <1>4 DEF Base, BatchesOK
  <2>s. PICK s : s = history[dp[1]]
    OBVIOUS
  <2>2. Sane(s) /\ b.next = page.next /\ b.todo = ForPeer(dp, page) /\ page.next >= cursor[dp]
    BY <1>1, <1>b, <2>s, PairFacts DEF Base, HistoriesOK, Paged
  <2>3. ASSUME NEW r \in b.todo PROVE AheadRow(s.rows[r.content], r, cursor[dp], b.next)
    <3>1. r \in page.records
      BY <2>2 DEF ForPeer
    <3>2. /\ r \in Record /\ PageRecord(s, r.content, r)
          /\ s.rows[r.content].change_seq > cursor[dp]
      BY <1>1, <2>2, <2>s, <3>1, PageRecords DEF Paged
    <3>3. s.rows[r.content] # Absent
      BY <3>2 DEF PageRecord, InFeed
    <3>4. StampOf(s.rows[r.content]) = StampOf(r)
      BY <3>2 DEF PageRecord, RecordOf, StampOf
    <3>5. ~lww_wins(StampOf(r), StampOf(r))
      BY <3>2, RecordIsStamp, StampSelf
    <3> QED
      BY <3>2, <3>3, <3>4, <3>5 DEF AheadRow
  <2>4. ASSUME NEW x \in Pair, batch'[x] # None
        PROVE  /\ batch'[x].next >= cursor'[x]
               /\ \A r \in batch'[x].todo :
                    AheadRow(history'[x[1]].rows[r.content], r, cursor'[x], batch'[x].next)
    <3>1. CASE x = dp
      BY <1>2, <1>4, <2>1, <2>2, <2>3, <2>s, <3>1
    <3>2. CASE x # dp
      BY <1>2, <1>4, <2>1, <2>4, <3>2 DEF AheadOK
    <3> QED
      BY <3>1, <3>2
  <2> QED
    BY <2>4 DEF AheadOK
<1> QED
  BY <1>1, <1>3, <1>4, <1>b DEF SentOn

LEMMA AheadStep ==
  ASSUME Meeting, Base, SecretsOK, Calm, AheadOK, [Next]_vars
  PROVE  AheadOK'
<1>1. Base' /\ GrowStep /\ Whole
  BY BaseStep, StepGrows, MeetingIs
<1>2. CASE UNCHANGED vars
  BY <1>2 DEF vars, AheadOK
<1>3. ASSUME NEW d \in Device, LocalStep(d) PROVE AheadOK'
  BY <1>1, <1>3, LocalQuiet, QuietAhead
<1>4. ASSUME NEW dp \in Pair, NEW r \in Todo(dp[1], dp[2]), JudgeStep(dp, r) PROVE AheadOK'
  BY <1>1, <1>4, JudgeQuiet, QuietAhead
<1>5. ASSUME NEW dp \in Pair, Push(dp[1], dp[2]) PROVE AheadOK'
  BY <1>5, PushAhead
<1>6. CASE IdleStep
  BY <1>6, IdleAhead
<1> QED
  BY <1>1, <1>2, <1>3, <1>4, <1>5, <1>6, ShapedSteps

LEMMA AheadInit ==
  Init => AheadOK
BY DEF Init, AheadOK

-----------------------------------------------------------------------------
(* Lagging.  A device that ignored a deletion of an entry it did not have, *)
(* and got an older state afterwards, lags behind what it has heard.  The  *)
(* feed does not repeat the deletion; but what it needs is still on its    *)
(* way: of any set of devices that lag, one has a source outside the set,  *)
(* a device with the same state or with a newer one that it has not been   *)
(* offered yet.                                                            *)
Lags(e, c) == Present(history[e], c) /\ lww_wins(heard[e][c], RS(e, c))

Unseen(z, e, c) ==
  /\ batch[<<z, e>>] = None => history[z].rows[c].change_seq > cursor[<<z, e>>]
  /\ batch[<<z, e>>] # None =>
       \/ history[z].rows[c].change_seq > batch[<<z, e>>].next
       \/ Pending(batch[<<z, e>>].todo, history[z].rows[c], c)

Newer(z, e, c) == lww_wins(RS(z, c), RS(e, c)) /\ Unseen(z, e, c)

Source(z, e, c) ==
  /\ z # e /\ Present(history[z], c) /\ Present(history[e], c)
  /\ RS(z, c) = RS(e, c) \/ Newer(z, e, c)

AllLag(S, c) == S # {} /\ \A e \in S : Lags(e, c)

HasSource(S, c) == \E e \in S : \E z \in Device \ S : Source(z, e, c)

Sources == \A c \in Content \ Secret : \A S \in SUBSET Device : AllLag(S, c) => HasSource(S, c)

(* A step that keeps the states of an entry, and their sources. *)
Steady(c) ==
  /\ \A e \in Device : Lags(e, c)' => Lags(e, c)
  /\ \A z, e \in Device : Source(z, e, c) => Source(z, e, c)'

LEMMA SteadySources ==
  ASSUME NEW c \in Content \ Secret, Steady(c), Sources, NEW S \in SUBSET Device, AllLag(S, c)'
  PROVE  HasSource(S, c)'
<1>1. AllLag(S, c)
  BY DEF AllLag, Steady
<1>2. HasSource(S, c)
  BY <1>1 DEF Sources
<1> QED
  BY <1>2 DEF HasSource, Steady

(* The same states, with the same numbers, as before the step. *)
SameRows(c) ==
  \A e \in Device : /\ Present(history'[e], c) <=> Present(history[e], c)
                    /\ Present(history[e], c) =>
                         /\ StampOf(history'[e].rows[c]) = StampOf(history[e].rows[c])
                         /\ history'[e].rows[c].change_seq = history[e].rows[c].change_seq

LEMMA SteadyFrom ==
  ASSUME NEW c, SameRows(c),
         \A e \in Device : Lags(e, c)' => Lags(e, c),
         \A z, e \in Device : z # e /\ Present(history[z], c) /\ Present(history[e], c) /\ Newer(z, e, c)
            => Unseen(z, e, c)'
  PROVE  Steady(c)
<1>1. ASSUME NEW z \in Device, NEW e \in Device, Source(z, e, c) PROVE Source(z, e, c)'
  <2>1. z # e /\ Present(history[z], c) /\ Present(history[e], c)
    BY <1>1 DEF Source
  <2>2. /\ Present(history'[z], c) /\ Present(history'[e], c)
        /\ RS(z, c)' = RS(z, c) /\ RS(e, c)' = RS(e, c)
    BY <2>1 DEF SameRows, RS
  <2>3. CASE RS(z, c) = RS(e, c)
    BY <2>1, <2>2, <2>3 DEF Source, Present
  <2>4. CASE Newer(z, e, c)
    <3>1. Unseen(z, e, c)'
      BY <2>1, <2>4
    <3>2. lww_wins(RS(z, c), RS(e, c))'
      BY <2>2, <2>4 DEF Newer, lww_wins
    <3> QED
      BY <2>1, <2>2, <3>1, <3>2 DEF Source, Newer, Present
  <2> QED
    BY <1>1, <2>3, <2>4 DEF Source
<1> QED
  BY <1>1 DEF Steady

(* Nothing changes but batches and cursors. *)
LEMMA IdleSteady ==
  ASSUME Meeting, Base, AheadOK, IdleStep, NEW c \in Content
  PROVE  Steady(c)
<1>1. history' = history /\ heard' = heard
  BY DEF IdleStep
<1>2. SameRows(c) /\ \A e \in Device : Lags(e, c)' => Lags(e, c)
  BY <1>1 DEF SameRows, Lags, RS
<1>3. ASSUME NEW z \in Device, NEW e \in Device, z # e, Present(history[z], c), Newer(z, e, c), <<z, e>> \in Pair
      PROVE  Unseen(z, e, c)'
  <2>dp. PICK dp : dp = <<z, e>>
    OBVIOUS
  <2>n. PICK n : n = history[z].rows[c].change_seq
    OBVIOUS
  <2>1. dp \in Pair /\ dp[1] = z /\ PairIdle(dp) /\ Sane(history[z])
    BY <1>3, <2>dp DEF IdleStep, Base, HistoriesOK
  <2>2. n \in Nat /\ n > 0
    BY <1>3, <2>1, <2>n, HistoryFacts DEF Sane
  <2>3. /\ batch[dp] = None => n > cursor[dp]
        /\ batch[dp] # None => n > batch[dp].next \/ Pending(batch[dp].todo, history[z].rows[c], c)
    BY <1>3, <2>dp, <2>n DEF Newer, Unseen
  <2>4. cursor[dp] \in Nat
    BY <2>1 DEF Base, CursorsOK
  <2>5. batch[dp] # None => batch[dp].next \in Nat /\ batch[dp].next >= cursor[dp]
    BY <2>1, BatchFacts DEF Base, AheadOK
  <2>6. n > cursor[dp]
    <3>1. ASSUME batch[dp] # None, Pending(batch[dp].todo, history[z].rows[c], c) PROVE n > cursor[dp]
      <4>1. PICK r \in batch[dp].todo : r.content = c
        BY <3>1 DEF Pending
      <4>2. AheadRow(history[z].rows[c], r, cursor[dp], batch[dp].next)
        BY <2>1, <3>1, <4>1 DEF AheadOK
      <4> QED
        BY <2>n, <4>2 DEF AheadRow
    <3> QED
      BY <2>2, <2>3, <2>4, <2>5, <3>1
  <2>7. CASE cursor'[dp] = cursor[dp] /\ batch'[dp] = None
    BY <1>1, <2>6, <2>7, <2>dp, <2>n DEF Unseen
  <2>8. CASE batch[dp] # None /\ batch'[dp] # None /\ batch'[dp].todo = batch[dp].todo /\ batch'[dp].next = batch[dp].next
    BY <1>1, <2>3, <2>8, <2>dp, <2>n DEF Unseen, Pending
  <2>9. CASE cursor'[dp] = 0 /\ batch'[dp] = None
    BY <1>1, <2>2, <2>9, <2>dp, <2>n DEF Unseen
  <2>10. CASE batch[dp] # None /\ batch[dp].todo = {} /\ cursor'[dp] = batch[dp].next /\ batch'[dp] = None
    <3>1. n > batch[dp].next
      BY <2>3, <2>10 DEF Pending
    <3> QED
      BY <1>1, <2>10, <2>dp, <2>n, <3>1 DEF Unseen
  <2> QED
    BY <2>1, <2>7, <2>8, <2>9, <2>10 DEF PairIdle
<1>4. \A z, e \in Device : z # e /\ Present(history[z], c) /\ Present(history[e], c) /\ Newer(z, e, c)
        => Unseen(z, e, c)'
  BY <1>3, MeetingIs
<1> QED
  BY <1>2, <1>4, SteadyFrom

(* A page holds every newer state it passes: the ones it leaves out are    *)
(* the peer's own.                                                         *)
LEMMA PageHolds ==
  ASSUME Base, SecretsOK, StampsOK, OwnOK, NEW dp \in Pair, NEW page, Paged(dp, page), NEW c \in Content \ Secret,
         Present(history[dp[1]], c), lww_wins(RS(dp[1], c), RS(dp[2], c)),
         history[dp[1]].rows[c].change_seq > cursor[dp]
  PROVE  \/ history[dp[1]].rows[c].change_seq > page.next
         \/ Pending(ForPeer(dp, page), history[dp[1]].rows[c], c)
<1>z. PICK z : z = dp[1]
  OBVIOUS
<1>e. PICK e : e = dp[2]
  OBVIOUS
<1>s. PICK s : s = history[z]
  OBVIOUS
<1>row. PICK row : row = s.rows[c]
  OBVIOUS
<1>1. z \in Device /\ e \in Device /\ c \in Content /\ Present(s, c)
  BY <1>z, <1>e, <1>s, PairFacts
<1>2. Sane(s) /\ s \in History /\ TidyAll(s)
  BY <1>1, <1>s DEF Base, HistoriesOK, SecretsOK, TidyDevices
<1>3. cursor[dp] \in Nat /\ cursor[dp] <= s.seq /\ page.next \in Nat
  BY <1>z, <1>s DEF Base, CursorsOK, Paged
<1>4. row \in Row /\ row.change_seq \in Nat /\ row # Absent
  BY <1>1, <1>2, <1>row, HistoryFacts DEF Sane, Present
<1>5. InFeed(row) /\ Sendable(row)
  <2>1. Tidy(c, row)
    BY <1>1, <1>2, <1>row DEF TidyAll
  <2> QED
    BY <1>4, <2>1 DEF Tidy, InFeed, Sendable
<1>6. CASE row.change_seq <= page.next
  <2>r. PICK r : r = RecordOf(c, row)
    OBVIOUS
  <2>0. PAGE \in Nat /\ page = sync_changes(s, cursor[dp], PAGE)
    BY <1>z, <1>s, BoundAssumption DEF Paged
  <2>1. r \in page.records
    BY <1>1, <1>2, <1>3, <1>5, <1>6, <1>z, <1>s, <1>row, <2>0, <2>r, PageWhole
  <2>2. r.content = c /\ StampOf(r) = StampOf(row) /\ r.device_id = row.device_id
    BY <2>r DEF RecordOf, StampOf
  <2>3. row.device_id # e
    <3>1. ASSUME row.device_id = e PROVE FALSE
      <4>k. PICK k : k = StampOf(row)
        OBVIOUS
      <4>1. RowBears(s, c, k, RowVisible(row))
        BY <1>1, <1>row, <4>k DEF RowBears
      <4>2. OwnHas(k, c)
        BY <1>1, <1>s, <4>1 DEF Bears, OwnOK
      <4>3. k[2] = e
        BY <3>1, <4>k DEF StampOf
      <4>4. k = RS(dp[1], c)
        BY <1>z, <1>s, <1>row, <4>k DEF RS
      <4> QED
        BY <1>e, <4>2, <4>3, <4>4 DEF OwnHas
    <3> QED
      BY <3>1
  <2>4. r \in ForPeer(dp, page)
    BY <1>e, <2>1, <2>2, <2>3 DEF ForPeer
  <2>5. Pending(ForPeer(dp, page), row, c)
    BY <2>2, <2>4 DEF Pending
  <2> QED
    BY <1>z, <1>s, <1>row, <2>5
<1>7. CASE row.change_seq > page.next
  BY <1>7, <1>z, <1>s, <1>row
<1> QED
  BY <1>3, <1>4, <1>6, <1>7

LEMMA PushSteady ==
  ASSUME Meeting, Base, SecretsOK, StampsOK, OwnOK, NEW dp \in Pair, Push(dp[1], dp[2]), NEW c \in Content \ Secret
  PROVE  Steady(c)
<1>1. PICK page : Paged(dp, page) /\ SentOn(dp, page)
  BY PushIs
<1>2. history' = history /\ heard' = heard /\ batch[dp] = None
  BY <1>1, PushIs DEF SentOn
<1>3. SameRows(c) /\ \A e \in Device : Lags(e, c)' => Lags(e, c)
  BY <1>2 DEF SameRows, Lags, RS
<1>4. ASSUME NEW z \in Device, NEW e \in Device, z # e, Present(history[z], c), Newer(z, e, c)
      PROVE  Unseen(z, e, c)'
  <2>x. PICK x : x = <<z, e>>
    OBVIOUS
  <2>n. PICK n : n = history[z].rows[c].change_seq
    OBVIOUS
  <2>1. x \in Pair /\ x[1] = z /\ x[2] = e
    BY <1>4, <2>x, MeetingIs
  <2>2. Unseen(z, e, c) /\ lww_wins(RS(z, c), RS(e, c))
    BY <1>4 DEF Newer
  <2>3. x = dp => n > page.next \/ Pending(ForPeer(dp, page), history[z].rows[c], c)
    <3>1. ASSUME x = dp PROVE history[dp[1]].rows[c].change_seq > cursor[dp]
      BY <1>2, <2>1, <2>2, <2>x, <3>1 DEF Unseen
    <3> QED
      BY <1>1, <1>4, <2>1, <2>2, <2>n, <3>1, PageHolds
  <2>4. CASE ForPeer(dp, page) = {} /\ cursor' = [cursor EXCEPT ![dp] = page.next] /\ UNCHANGED batch
    <3>1. cursor'[x] = IF x = dp THEN page.next ELSE cursor[x]
      BY <2>1, <2>4 DEF Base, CursorsOK
    <3>2. CASE x = dp
      <4>1. ~Pending({}, history[z].rows[c], c)
        BY DEF Pending
      <4>2. n > page.next
        BY <2>3, <2>4, <3>2, <4>1
      <4> QED
        BY <1>2, <2>4, <2>n, <2>x, <3>1, <3>2, <4>2 DEF Unseen
    <3>3. CASE x # dp
      BY <1>2, <2>2, <2>4, <2>x, <3>1, <3>3 DEF Unseen
    <3> QED
      BY <3>2, <3>3
  <2>b. PICK b : b = [todo |-> ForPeer(dp, page), next |-> page.next, state |-> "sent"]
    OBVIOUS
  <2>5. CASE batch' = [batch EXCEPT ![dp] = b] /\ UNCHANGED cursor
    <3>1. batch'[x] = IF x = dp THEN b ELSE batch[x]
      BY <2>1, <2>5 DEF Base, BatchesOK
    <3>2. b # None /\ b.todo = ForPeer(dp, page) /\ b.next = page.next
      BY <1>1, <2>b, SentBatch
    <3>3. CASE x = dp
      <4>1. batch'[x] = b /\ (n > b.next \/ Pending(b.todo, history[z].rows[c], c))
        BY <2>3, <3>1, <3>2, <3>3
      <4> QED
        BY <1>2, <2>n, <2>x, <3>2, <4>1 DEF Unseen, Pending
    <3>4. CASE x # dp
      BY <1>2, <2>2, <2>5, <2>x, <3>1, <3>4 DEF Unseen, Pending
    <3> QED
      BY <3>3, <3>4
  <2> QED
    BY <1>1, <2>4, <2>5, <2>b DEF SentOn
<1> QED
  BY <1>3, <1>4, SteadyFrom

-----------------------------------------------------------------------------
(* A device gets a newer state.                                            *)
Elsewhere(d, c) ==
  /\ \A e \in Device : e # d => history'[e] = history[e] /\ heard'[e][c] = heard[e][c]
  /\ \A x \in Pair : x[2] # d => batch'[x] = batch[x] /\ cursor'[x] = cursor[x]

Rises(d, c) ==
  /\ Present(history'[d], c)
  /\ Present(history[d], c) => lww_wins(StampOf(history'[d].rows[c]), StampOf(history[d].rows[c]))
  /\ history'[d].rows[c].change_seq > history[d].seq

LEMMA SourceStays ==
  ASSUME NEW c, NEW d, Elsewhere(d, c), NEW z \in Device, NEW e \in Device, z # d, e # d,
         <<z, e>> \in Pair, Source(z, e, c)
  PROVE  Source(z, e, c)'
<1>x. PICK x : x = <<z, e>>
  OBVIOUS
<1>1. x \in Pair /\ x[2] = e
  BY <1>x
<1>2. batch'[x] = batch[x] /\ cursor'[x] = cursor[x] /\ history'[z] = history[z] /\ history'[e] = history[e]
  BY <1>1 DEF Elsewhere
<1>3. RS(z, c)' = RS(z, c) /\ RS(e, c)' = RS(e, c)
  BY <1>2 DEF RS
<1>4. Unseen(z, e, c) => Unseen(z, e, c)'
  BY <1>2, <1>x DEF Unseen, Pending
<1>5. lww_wins(RS(z, c), RS(e, c)) => lww_wins(RS(z, c), RS(e, c))'
  BY <1>3 DEF lww_wins
<1> QED
  BY <1>2, <1>3, <1>4, <1>5 DEF Source, Newer, Present

LEMMA SourceRises ==
  ASSUME Base, Base', NEW c \in Content, NEW d \in Device, Elsewhere(d, c), Rises(d, c), NEW e \in Device, e # d,
         <<d, e>> \in Pair, Source(d, e, c)
  PROVE  Source(d, e, c)'
<1>x. PICK x : x = <<d, e>>
  OBVIOUS
<1>n. PICK n : n = history'[d].rows[c].change_seq
  OBVIOUS
<1>1. x \in Pair /\ x[1] = d /\ x[2] = e
  BY <1>x
<1>2. batch'[x] = batch[x] /\ cursor'[x] = cursor[x] /\ history'[e] = history[e]
  BY <1>1 DEF Elsewhere
<1>3. Present(history[d], c) /\ Present(history[e], c) /\ Present(history'[d], c)
  BY DEF Source, Rises
<1>4. /\ RS(d, c) \in Stamp /\ RS(e, c) \in Stamp
  BY <1>3, RowIsStamp
<1>5. StampOf(history'[d].rows[c]) \in Stamp /\ n \in Nat
  <2>1. Sane(history'[d]) /\ history'[d] \in History
    BY DEF Base, HistoriesOK
  <2>2. history'[d].rows[c] \in Row
    BY <1>3, <2>1, HistoryFacts
  <2> QED
    BY <2>2, <1>n, RowStamps DEF Row
<1>6. ~lww_wins(RS(e, c), RS(d, c))
  BY <1>4, StampOrder DEF Source, Newer
<1>7. lww_wins(StampOf(history'[d].rows[c]), RS(e, c))
  <2>1. lww_wins(StampOf(history'[d].rows[c]), RS(d, c))
    BY <1>3 DEF Rises, RS
  <2> QED
    BY <1>4, <1>5, <1>6, <2>1, WinsOver
<1>8. lww_wins(RS(d, c), RS(e, c))'
  BY <1>2, <1>7 DEF RS, lww_wins
<1>9. n > history[d].seq /\ history[d].seq \in Nat
  BY <1>n, HistoryFacts DEF Rises, Base, HistoriesOK
<1>10. cursor[x] \in Nat /\ cursor[x] <= history[d].seq
  BY <1>1 DEF Base, CursorsOK
<1>11. batch[x] # None => batch[x].next \in Nat /\ batch[x].next <= history[d].seq
  BY <1>1, BatchFacts DEF Base, BatchesOK
<1>12. n > cursor[x] /\ (batch[x] # None => n > batch[x].next)
  BY <1>5, <1>9, <1>10, <1>11
<1>13. Unseen(d, e, c)'
  BY <1>2, <1>12, <1>x, <1>n DEF Unseen
<1> QED
  BY <1>2, <1>3, <1>8, <1>13 DEF Source, Newer, Present

(* A set of laggards that the device is not in keeps a source. *)
LEMMA RisenOutside ==
  ASSUME Meeting, Base, Base', Sources, NEW c \in Content \ Secret, NEW d \in Device,
         Elsewhere(d, c), Rises(d, c), NEW S \in SUBSET Device, d \notin S, AllLag(S, c)'
  PROVE  HasSource(S, c)'
<1>1. AllLag(S, c)
  <2>1. \A e \in S : history'[e] = history[e] /\ heard'[e][c] = heard[e][c]
    BY DEF Elsewhere
  <2> QED
    BY <2>1 DEF AllLag, Lags, RS, lww_wins, Present
<1>2. PICK e \in S : \E z \in Device \ S : Source(z, e, c)
  BY <1>1 DEF Sources, HasSource
<1>3. PICK z \in Device \ S : Source(z, e, c)
  BY <1>2
<1>4. e \in Device /\ e # d /\ z \in Device /\ z # e
  OBVIOUS
<1>5. <<z, e>> \in Pair
  BY <1>4, MeetingIs
<1>6. CASE z = d
  <2>1. Source(d, e, c)'
    BY <1>3, <1>4, <1>5, <1>6, SourceRises
  <2> QED
    BY <1>6, <2>1 DEF HasSource
<1>7. CASE z # d
  <2>1. Source(z, e, c)'
    BY <1>3, <1>4, <1>5, <1>7, SourceStays
  <2> QED
    BY <2>1 DEF HasSource
<1> QED
  BY <1>6, <1>7

(* The row has a new number if it has a new stamp. *)
LEMMA NewIsFresh ==
  ASSUME NEW s, Sane(s), NEW t, Sane(t), Moves(s, t), NEW c \in Content, Present(t, c),
         Present(s, c) => lww_wins(StampOf(t.rows[c]), StampOf(s.rows[c]))
  PROVE  t.rows[c].change_seq > s.seq
<1>1. s \in History /\ t \in History /\ s.seq \in Nat /\ t.seq \in Nat
  BY HistoryFacts DEF Sane
<1>2. ~Held(s.rows[c], t.rows[c])
  <2>1. ASSUME Held(s.rows[c], t.rows[c]) PROVE FALSE
    <3>1. Present(s, c) /\ StampOf(t.rows[c]) = StampOf(s.rows[c])
      BY <2>1 DEF Held, Present
    <3>2. IsStamp(StampOf(s.rows[c]))
      BY <1>1, <3>1, KeptIsStamp
    <3> QED
      BY <3>1, <3>2, StampSelf
  <2> QED
    BY <2>1
<1>3. t.rows[c].change_seq \in (s.seq + 1)..t.seq
  BY <1>2 DEF Moves, RowMoves, Present
<1> QED
  BY <1>1, <1>3

LEMMA LocalSources ==
  ASSUME Meeting, Base, Base', SecretsOK, HeardOK, Sources, NEW d \in Device, LocalStep(d)
  PROVE  Sources'
<1>s. PICK s : s = history[d]
  OBVIOUS
<1>1. PICK t : Write(d, t) /\ LocalEnd(d, s, t)
  BY <1>s DEF LocalStep
<1>2. PICK c0 : \A e \in Content : LocalRow(d, s, t, c0, e)
  BY <1>1 DEF LocalEnd, LocalRows
<1>3. \A e \in Device : history'[e] = IF e = d THEN t ELSE history[e]
  BY <1>1 DEF Write, Base, HistoriesOK
<1>4. cursor' = cursor /\ batch' = batch /\ heard' = heard
  BY DEF LocalStep, LocalOnly
<1>5. Sane(s) /\ Sane(t) /\ Moves(s, t) /\ TidyAll(s) /\ Stays(s, t)
  BY <1>1, <1>s, MeetingIs DEF Base, HistoriesOK, LocalEnd, SecretsOK, TidyDevices
<1>6. ASSUME NEW c \in Content \ Secret, NEW S \in SUBSET Device, AllLag(S, c)' PROVE HasSource(S, c)'
  <2>1. CASE \/ Present(s, c) /\ Present(t, c) /\ SameEntry(s.rows[c], t.rows[c])
             \/ ~Present(s, c) /\ ~Present(t, c)
    <3>1. SameRows(c)
      <4>1. Present(s, c) => StampOf(t.rows[c]) = StampOf(s.rows[c]) /\ t.rows[c].change_seq = s.rows[c].change_seq
        BY <2>1 DEF SameEntry, StampOf
      <4> QED
        BY <1>3, <1>s, <2>1, <4>1 DEF SameRows
    <3>2. \A e \in Device : Lags(e, c)' => Lags(e, c)
      BY <1>4, <3>1 DEF SameRows, Lags, RS, Present
    <3>3. ASSUME NEW z \in Device, NEW e \in Device, Present(history[z], c), Newer(z, e, c)
          PROVE  Unseen(z, e, c)'
      <4>1. /\ StampOf(history'[z].rows[c]) = StampOf(history[z].rows[c])
            /\ history'[z].rows[c].change_seq = history[z].rows[c].change_seq
        BY <3>1, <3>3 DEF SameRows
      <4> QED
        BY <1>4, <3>3, <4>1 DEF Newer, Unseen, Pending
    <3>4. Steady(c)
      BY <3>1, <3>2, <3>3, SteadyFrom
    <3> QED
      BY <1>6, <3>4, SteadySources
  <2>2. CASE Present(t, c) /\ MadeHere(d, s, t, c)
    <3>1. /\ StampOf(t.rows[c]) = <<t.clock, d>> /\ t.clock \in Nat /\ t.clock > s.clock
          /\ Present(s, c) => lww_wins(StampOf(t.rows[c]), StampOf(s.rows[c]))
      BY <1>5, <2>2, MadeIsNewer
    <3>2. t.rows[c].change_seq > s.seq
      BY <1>5, <2>2, <3>1, NewIsFresh
    <3>3. Rises(d, c)
      BY <1>3, <1>s, <2>2, <3>1, <3>2 DEF Rises
    <3>4. Elsewhere(d, c)
      BY <1>3, <1>4 DEF Elsewhere
    <3>5. d \notin S
      <4>h. PICK h : h = heard[d][c]
        OBVIOUS
      <4>1. h \in Stamp /\ h[1] <= s.clock
        BY <1>s, <4>h DEF HeardOK, HeardFits, Base
      <4>2. s.clock \in Nat /\ h[1] \in Nat
        BY <1>5, <4>1, StampIs, HistoryFacts DEF Sane, IsStamp
      <4>3. ~lww_wins(h, StampOf(t.rows[c]))
        BY <3>1, <4>1, <4>2 DEF lww_wins
      <4>4. ~Lags(d, c)'
        BY <1>3, <1>4, <4>3, <4>h DEF Lags, RS, lww_wins
      <4> QED
        BY <1>6, <4>4 DEF AllLag
    <3> QED
      BY <1>6, <3>3, <3>4, <3>5, RisenOutside
  <2>3. Present(s, c) => Present(t, c)
    BY <1>5 DEF Stays
  <2>4. LocalRow(d, s, t, c0, c)
    BY <1>2
  <2>5. \/ Present(s, c) /\ Present(t, c) /\ SameEntry(s.rows[c], t.rows[c])
        \/ ~Present(s, c) /\ ~Present(t, c)
        \/ Present(t, c) /\ MadeHere(d, s, t, c)
    BY <2>3, <2>4 DEF LocalRow
  <2> QED
    BY <2>1, <2>2, <2>5
<1> QED
  BY <1>6 DEF Sources

(* A device that takes a record: its sender has it, or something newer     *)
(* that is still to come.  If the sender lags as well, the devices in the  *)
(* set that have nothing older than the record have a source, and it is    *)
(* outside the whole set.                                                  *)
LEMMA TakenInside ==
  ASSUME Meeting, Base, Base', Sources, AheadOK, NEW c \in Content \ Secret,
         NEW dp \in Pair, NEW r \in Todo(dp[1], dp[2]), r.content = c,
         Elsewhere(dp[2], c), Rises(dp[2], c), StampOf(history'[dp[2]].rows[c]) = StampOf(r),
         Wins(history[dp[2]], r),
         batch'[dp] # None, batch'[dp].next = batch[dp].next,
         NEW S \in SUBSET Device, dp[2] \in S, AllLag(S, c)'
  PROVE  HasSource(S, c)'
<1>q. PICK q : q = dp[1]
  OBVIOUS
<1>p. PICK p : p = dp[2]
  OBVIOUS
<1>k. PICK k : k = StampOf(r)
  OBVIOUS
<1>1. q \in Device /\ p \in Device /\ q # p /\ dp = <<q, p>> /\ c \in Content
  BY <1>q, <1>p, PairFacts
<1>2. batch[dp] # None /\ r \in batch[dp].todo /\ r \in Record /\ k \in Stamp
  BY <1>k, TodoFacts, RecordStamps
<1>3. history'[q] = history[q] /\ Present(history'[p], c)
  BY <1>1, <1>p DEF Elsewhere, Rises
<1>4. AheadRow(history[q].rows[c], r, cursor[dp], batch[dp].next)
  BY <1>2, <1>q DEF AheadOK
<1>5. Present(history[q], c) /\ ~lww_wins(k, RS(q, c)) /\ RS(q, c) \in Stamp
  <2>1. Present(history[q], c) /\ ~lww_wins(k, RS(q, c))
    BY <1>4, <1>k DEF AheadRow, Present, RS
  <2> QED
    BY <1>1, <2>1, RowIsStamp
<1>6. StampOf(history'[p].rows[c]) = k
  BY <1>k, <1>p
<1>7. CASE q \notin S
  <2>1. CASE RS(q, c) = k
    <3>1. Source(q, p, c)'
      BY <1>1, <1>3, <1>5, <1>6, <2>1 DEF Source, RS, Present
    <3> QED
      BY <1>1, <1>7, <1>p, <3>1 DEF HasSource
  <2>2. CASE RS(q, c) # k
    <3>1. history[q].rows[c].change_seq > batch[dp].next
      BY <1>4, <1>k, <2>2 DEF AheadRow, RS
    <3>2. lww_wins(RS(q, c), k)
      BY <1>2, <1>5, <2>2, Alike
    <3>3. lww_wins(RS(q, c), RS(p, c))'
      BY <1>3, <1>6, <3>2 DEF RS, lww_wins
    <3>4. Unseen(q, p, c)'
      BY <1>1, <1>3, <3>1 DEF Unseen
    <3>5. Source(q, p, c)'
      BY <1>1, <1>3, <1>5, <3>3, <3>4 DEF Source, Newer, Present
    <3> QED
      BY <1>1, <1>7, <1>p, <3>5 DEF HasSource
  <2> QED
    BY <2>1, <2>2
<1>8. CASE q \in S
  <2>T. PICK T : T = {x \in S : x # p /\ ~lww_wins(k, RS(x, c))}
    OBVIOUS
  <2>1. q \in T /\ T \in SUBSET Device /\ p \notin T /\ T \subseteq S
    BY <1>1, <1>5, <1>8, <2>T
  <2>2. \A e \in T : e # p /\ e \in Device /\ history'[e] = history[e] /\ heard'[e][c] = heard[e][c]
    BY <1>p, <2>1 DEF Elsewhere
  <2>3. \A e \in T : Lags(e, c)'
    BY <2>1 DEF AllLag
  <2>4. AllLag(T, c)
    BY <2>1, <2>2, <2>3 DEF AllLag, Lags, RS, lww_wins, Present
  <2>5. PICK e \in T : \E z \in Device \ T : Source(z, e, c)
    BY <2>1, <2>4 DEF Sources, HasSource
  <2>6. PICK z \in Device \ T : Source(z, e, c)
    BY <2>5
  <2>7. z \in Device /\ e \in Device /\ e # p /\ e \in S /\ ~lww_wins(k, RS(e, c))
    BY <2>1, <2>2, <2>T
  <2>8. z # e /\ Present(history[z], c) /\ Present(history[e], c)
    BY <2>6 DEF Source
  <2>9. RS(z, c) \in Stamp /\ RS(e, c) \in Stamp
    BY <1>1, <2>7, <2>8, RowIsStamp
  <2>10. ~lww_wins(RS(e, c), RS(z, c))
    BY <2>6, <2>9, StampOrder DEF Source, Newer
  <2>11. ~lww_wins(k, RS(z, c))
    BY <1>2, <2>7, <2>9, <2>10, NotOver
  <2>12. z # p
    <3>1. ASSUME z = p PROVE FALSE
      <4>1. lww_wins(k, RS(p, c))
        BY <1>k, <1>p, <2>8, <3>1 DEF Wins, RS
      <4> QED
        BY <2>11, <3>1, <4>1
    <3> QED
      BY <3>1
  <2>13. z \notin S
    BY <2>11, <2>12, <2>T
  <2>14. <<z, e>> \in Pair
    BY <2>7, <2>8, MeetingIs
  <2>15. Source(z, e, c)'
    BY <1>p, <2>6, <2>7, <2>12, <2>14, SourceStays
  <2> QED
    BY <2>7, <2>13, <2>15 DEF HasSource
<1> QED
  BY <1>7, <1>8

(* A record judged without a change. *)
LEMMA JudgeSteady ==
  ASSUME Meeting, Base, NEW dp \in Pair, NEW r \in Todo(dp[1], dp[2]), NEW c \in Content,
         Done(dp[1], dp[2], r), cursor' = cursor, SameRows(c),
         c = r.content => ~(Present(history[dp[2]], c) /\ lww_wins(StampOf(r), RS(dp[2], c))),
         \A e \in Device : Lags(e, c)' => Lags(e, c)
  PROVE  Steady(c)
<1>1. batch[dp] # None /\ r \in batch[dp].todo /\ dp = <<dp[1], dp[2]>> /\ BatchesOK
  BY TodoFacts, PairFacts DEF Base
<1>2. /\ OthersKeep(dp) /\ batch'[dp] # None
      /\ batch'[dp].todo = batch[dp].todo \ {r} /\ batch'[dp].next = batch[dp].next
  BY <1>1, DoneIs
<1>3. ASSUME NEW z \in Device, NEW e \in Device, z # e, Present(history[z], c), Present(history[e], c), Newer(z, e, c)
      PROVE  Unseen(z, e, c)'
  <2>x. PICK x : x = <<z, e>>
    OBVIOUS
  <2>n. PICK n : n = history[z].rows[c].change_seq
    OBVIOUS
  <2>k. PICK k : k = StampOf(history[z].rows[c])
    OBVIOUS
  <2>1. x \in Pair /\ x[1] = z /\ x[2] = e
    BY <1>3, <2>x, MeetingIs
  <2>2. history'[z].rows[c].change_seq = n /\ StampOf(history'[z].rows[c]) = k
    BY <1>3, <2>n, <2>k DEF SameRows
  <2>3. Unseen(z, e, c) /\ lww_wins(k, RS(e, c))
    BY <1>3, <2>k DEF Newer, RS
  <2>4. CASE x # dp
    <3>1. batch'[x] = batch[x]
      BY <1>2, <2>1, <2>4 DEF OthersKeep
    <3> QED
      BY <2>2, <2>3, <2>n, <2>k, <2>x, <3>1 DEF Unseen, Pending
  <2>5. CASE x = dp
    <3>1. n > batch[x].next \/ \E u \in batch[x].todo : u.content = c /\ StampOf(u) = k
      BY <1>1, <2>3, <2>5, <2>n, <2>k, <2>x DEF Unseen, Pending
    <3>2. ASSUME NEW u \in batch[x].todo, u.content = c, StampOf(u) = k PROVE u \in batch'[x].todo
      <4>1. u # r
        <5>1. ASSUME u = r PROVE FALSE
          BY <1>3, <2>1, <2>3, <2>5, <3>2, <5>1
        <5> QED
          BY <5>1
      <4> QED
        BY <1>2, <2>5, <3>2, <4>1
    <3>3. batch'[x] # None /\ (n > batch'[x].next \/ \E u \in batch'[x].todo : u.content = c /\ StampOf(u) = k)
      BY <1>2, <2>5, <3>1, <3>2
    <3> QED
      BY <2>2, <2>x, <3>3 DEF Unseen, Pending
  <2> QED
    BY <2>4, <2>5
<1> QED
  BY <1>3, SteadyFrom

LEMMA JudgeSources ==
  ASSUME Meeting, Base, Base', SecretsOK, FeedOK, AheadOK, Sources,
         NEW dp \in Pair, NEW r \in Todo(dp[1], dp[2]), JudgeStep(dp, r)
  PROVE  Sources'
<1>p. PICK p : p = dp[2]
  OBVIOUS
<1>s. PICK s : s = history[p]
  OBVIOUS
<1>1. /\ p \in Device /\ r \in Record /\ r.content \in Content
      /\ batch[dp] # None /\ r \in batch[dp].todo /\ dp = <<dp[1], p>>
  BY <1>p, TodoFacts, RecordFacts, PairFacts
<1>2. PICK t : Write(p, t) /\ Ends(dp, r, t)
  BY <1>p DEF JudgeStep
<1>3. \A e \in Device : history'[e] = IF e = p THEN t ELSE history[e]
  BY <1>2 DEF Write, Base, HistoriesOK
<1>4. private[p] = FALSE
  BY <1>1, OpenIs DEF FeedOK
<1>5. Sane(s) /\ Sane(t) /\ Moves(s, t) /\ TidyAll(s) /\ Stays(s, t)
  BY <1>1, <1>2, <1>p, <1>s, MeetingIs DEF Base, HistoriesOK, Ends, RecordEnd, SecretsOK, TidyDevices
<1>6. Done(dp[1], dp[2], r) /\ Heard(p, r) /\ cursor' = cursor
  BY <1>4, <1>5, <1>p, <1>s, MeetingIs DEF JudgeStep, Outcome
<1>7. /\ OthersKeep(dp) /\ batch'[dp] # None
      /\ batch'[dp].todo = batch[dp].todo \ {r} /\ batch'[dp].next = batch[dp].next
  BY <1>1, <1>6, <1>p, DoneIs DEF Base
<1>8. HeardElsewhere(p, r.content) /\ heard'[p][r.content] \in {StampOf(r), heard[p][r.content]}
  BY <1>1, <1>6, HeardIs DEF Base
<1>9. Arrives(s, t, r)
  <2>1. ~GateRefuses(dp[2], r)
    BY <1>4, <1>p DEF GateRefuses, Meeting
  <2> QED
    BY <1>2, <1>p, <1>s, <2>1, MeetingIs DEF Ends
<1>10. ASSUME NEW c \in Content \ Secret, NEW S \in SUBSET Device, AllLag(S, c)' PROVE HasSource(S, c)'
  <2>1. CASE \/ Present(s, c) /\ Present(t, c) /\ SameEntry(s.rows[c], t.rows[c])
             \/ ~Present(s, c) /\ ~Present(t, c)
    <3>1. SameRows(c)
      <4>1. Present(s, c) => StampOf(t.rows[c]) = StampOf(s.rows[c]) /\ t.rows[c].change_seq = s.rows[c].change_seq
        BY <2>1 DEF SameEntry, StampOf
      <4> QED
        BY <1>3, <1>s, <2>1, <4>1 DEF SameRows
    <3>2. ASSUME c = r.content, Present(s, c), lww_wins(StampOf(r), StampOf(s.rows[c])) PROVE FALSE
      <4>1. Wins(s, r)
        BY <3>2 DEF Wins
      <4>2. Shows(t.rows[c], r)
        BY <1>5, <1>9, <3>2, <4>1 DEF Arrives
      <4>3. StampOf(t.rows[c]) = StampOf(r)
        BY <1>1, <4>2, ShowsVisible
      <4>4. StampOf(t.rows[c]) = StampOf(s.rows[c])
        BY <2>1, <3>2 DEF SameEntry, StampOf
      <4>5. ~lww_wins(StampOf(r), StampOf(r))
        BY <1>1, RecordIsStamp, StampSelf
      <4> QED
        BY <3>2, <4>3, <4>4, <4>5
    <3>3. ASSUME NEW e \in Device, Lags(e, c)' PROVE Lags(e, c)
      <4>1. Present(history[e], c) /\ RS(e, c)' = RS(e, c) /\ lww_wins(heard'[e][c], RS(e, c))
        BY <3>1, <3>3 DEF SameRows, Lags, RS, Present, lww_wins
      <4>2. CASE heard'[e][c] = heard[e][c]
        BY <4>1, <4>2 DEF Lags
      <4>3. CASE heard'[e][c] # heard[e][c]
        <5>1. e = p /\ c = r.content /\ heard'[e][c] = StampOf(r)
          BY <1>8, <4>3 DEF HeardElsewhere
        <5> QED
          BY <1>s, <3>2, <4>1, <5>1 DEF RS
      <4> QED
        BY <4>2, <4>3
    <3>4. c = r.content => ~(Present(history[dp[2]], c) /\ lww_wins(StampOf(r), RS(dp[2], c)))
      BY <1>p, <1>s, <3>2 DEF RS
    <3>5. Steady(c)
      BY <1>6, <3>1, <3>3, <3>4, JudgeSteady
    <3> QED
      BY <1>10, <3>5, SteadySources
  <2>2. CASE Present(t, c) /\ c = r.content /\ TakenHere(s, t, r)
    <3>1. StampOf(t.rows[c]) = StampOf(r) /\ Wins(s, r)
      BY <1>1, <2>2, ShowsVisible DEF TakenHere
    <3>2. Present(s, c) => lww_wins(StampOf(t.rows[c]), StampOf(s.rows[c]))
      BY <2>2, <3>1 DEF Wins
    <3>3. t.rows[c].change_seq > s.seq
      BY <1>5, <2>2, <3>2, NewIsFresh
    <3>4. Rises(p, c)
      BY <1>1, <1>3, <1>s, <2>2, <3>2, <3>3 DEF Rises
    <3>5. Elsewhere(p, c)
      <4>1. \A e \in Device : e # p => history'[e] = history[e] /\ heard'[e][c] = heard[e][c]
        BY <1>3, <1>8 DEF HeardElsewhere
      <4>2. \A x \in Pair : x[2] # p => batch'[x] = batch[x] /\ cursor'[x] = cursor[x]
        BY <1>6, <1>7, <1>p DEF OthersKeep
      <4> QED
        BY <4>1, <4>2 DEF Elsewhere
    <3>6. CASE p \notin S
      BY <1>1, <1>10, <3>4, <3>5, <3>6, RisenOutside
    <3>7. CASE p \in S
      <4>1. StampOf(history'[dp[2]].rows[c]) = StampOf(r) /\ Wins(history[dp[2]], r)
        BY <1>1, <1>3, <1>p, <1>s, <3>1
      <4> QED
        BY <1>7, <1>10, <1>p, <2>2, <3>4, <3>5, <3>7, <4>1, TakenInside
    <3> QED
      BY <3>6, <3>7
  <2>3. Present(s, c) => Present(t, c)
    BY <1>5 DEF Stays
  <2>4. TakenRow(s, t, r, c)
    BY <1>2, <1>p, <1>s DEF Ends, RecordEnd
  <2>5. \/ Present(s, c) /\ Present(t, c) /\ SameEntry(s.rows[c], t.rows[c])
        \/ ~Present(s, c) /\ ~Present(t, c)
        \/ Present(t, c) /\ c = r.content /\ TakenHere(s, t, r)
    BY <2>3, <2>4 DEF TakenRow
  <2> QED
    BY <2>1, <2>2, <2>5
<1> QED
  BY <1>10 DEF Sources

LEMMA SourcesStep ==
  ASSUME Meeting, Base, SecretsOK, StampsOK, OwnOK, FeedOK, HeardOK, AheadOK, Sources, [Next]_vars
  PROVE  Sources'
<1>1. Base' /\ Whole /\ Calm
  BY BaseStep, MeetingIs DEF StampsOK
<1>2. ASSUME \A c \in Content \ Secret : Steady(c) PROVE Sources'
  BY <1>2, SteadySources DEF Sources
<1>3. CASE UNCHANGED vars
  <2>1. ASSUME NEW c \in Content \ Secret PROVE Steady(c)
    BY <1>3 DEF vars, Steady, Lags, Source, Newer, Unseen, Pending, RS
  <2> QED
    BY <1>2, <2>1
<1>4. ASSUME NEW d \in Device, LocalStep(d) PROVE Sources'
  BY <1>1, <1>4, LocalSources
<1>5. ASSUME NEW dp \in Pair, NEW r \in Todo(dp[1], dp[2]), JudgeStep(dp, r) PROVE Sources'
  BY <1>1, <1>5, JudgeSources
<1>6. ASSUME NEW dp \in Pair, Push(dp[1], dp[2]) PROVE Sources'
  BY <1>2, <1>6, PushSteady
<1>7. CASE IdleStep
  BY <1>2, <1>7, IdleSteady
<1> QED
  BY <1>1, <1>3, <1>4, <1>5, <1>6, <1>7, ShapedSteps

LEMMA SourcesInit ==
  Init => Sources
<1> SUFFICES ASSUME Init PROVE Sources
  OBVIOUS
<1>1. \A e \in Device : \A c \in Content : ~Present(history[e], c)
  BY DEF Init, EmptyHistory, Present
<1> QED
  BY <1>1 DEF Sources, AllLag, Lags

-----------------------------------------------------------------------------
(* All of it.                                                              *)
MeetingOK == SecretsOK /\ StampsOK /\ OwnOK /\ FeedOK /\ HeardOK /\ AheadOK /\ Sources

LEMMA MeetingHolds ==
  ASSUME Meeting
  PROVE  Spec => [](Base /\ MeetingOK)
<1>1. Lasting /\ Image = {} /\ Whole /\ "crash" \notin Happens /\ "private" \notin Happens
  BY MeetingIs
<1>2. Init => HeardOK /\ AheadOK /\ Sources
  BY HeardInit, AheadInit, SourcesInit
<1>3. Init => FeedOK
  BY FeedInit
<1>4. Base /\ SecretsOK /\ StampsOK /\ OwnOK /\ FeedOK /\ HeardOK /\ AheadOK /\ Sources /\ [Next]_vars
        => FeedOK' /\ HeardOK' /\ AheadOK' /\ Sources'
  BY <1>1, FeedStep, HeardStep, AheadStep, SourcesStep DEF StampsOK
<1> QED
  BY <1>1, <1>2, <1>3, <1>4, BaseHolds, SecretsHolds, StampsHold, OwnHolds, PTL DEF Spec, MeetingOK

(* Every feed has been read to its end: what a device has, every other has *)
(* heard, unless it made it.                                               *)
LEMMA QuietJudged ==
  ASSUME Meeting, Base, MeetingOK, Quiet, NEW c \in Content \ Secret,
         NEW z \in Device, NEW e \in Device, z # e, Present(history[z], c)
  PROVE  /\ Judged(history[z].rows[c], e, c) /\ ~Unseen(z, e, c)
         /\ InFeed(history[z].rows[c]) /\ Sendable(history[z].rows[c])
<1>x. PICK x : x = <<z, e>>
  OBVIOUS
<1>row. PICK row : row = history[z].rows[c]
  OBVIOUS
<1>1. x \in Pair /\ x[1] = z /\ x[2] = e
  BY <1>x, MeetingIs
<1>2. batch[x] = None /\ changes_since(history[z], cursor[x]) = {}
  BY <1>1, <1>x DEF Quiet, CaughtUp
<1>3. row # Absent /\ Tidy(c, row) /\ row.change_seq \in Nat
  <2>1. Sane(history[z]) /\ TidyAll(history[z]) /\ history[z] \in History
    BY DEF Base, HistoriesOK, MeetingOK, SecretsOK, TidyDevices
  <2>2. history[z].seq \in Nat /\ row.change_seq \in 1..history[z].seq
    BY <1>row, <2>1, HistoryFacts DEF Sane
  <2> QED
    BY <1>row, <2>1, <2>2 DEF TidyAll, Present
<1>4. InFeed(row) /\ Sendable(row)
  BY <1>3 DEF Tidy, InFeed, Sendable
<1>5. cursor[x] \in Nat
  BY <1>1 DEF Base, CursorsOK
<1>6. ~(row.change_seq > cursor[x])
  BY <1>2, <1>4, <1>row DEF changes_since
<1>7. Offered(row, cursor[x])
  BY <1>3, <1>4, <1>5, <1>6 DEF Offered
<1>8. Judged(row, e, c)
  BY <1>1, <1>7, <1>row DEF MeetingOK, FeedOK, CursorFeed
<1>9. ~Unseen(z, e, c)
  BY <1>2, <1>6, <1>x, <1>row DEF Unseen
<1> QED
  BY <1>4, <1>8, <1>9, <1>row

(* A state that a device made itself it has, or a newer one. *)
LEMMA OwnRow ==
  ASSUME Base, MeetingOK, NEW c \in Content, NEW z \in Device, NEW e, Present(history[z], c),
         history[z].rows[c].device_id = e
  PROVE  Present(history[e], c) /\ ~lww_wins(RS(z, c), RS(e, c))
<1>k. PICK k : k = RS(z, c)
  OBVIOUS
<1>1. RowBears(history[z], c, k, RowVisible(history[z].rows[c]))
  BY <1>k DEF RowBears, RS
<1>2. OwnHas(k, c)
  BY <1>1 DEF Bears, MeetingOK, OwnOK
<1>3. k[2] = e
  BY <1>k DEF RS, StampOf
<1> QED
  BY <1>2, <1>3, <1>k DEF OwnHas

(* A device that does not lag has what every other has, or something newer.*)
LEMMA QuietFollows ==
  ASSUME Meeting, Base, MeetingOK, Quiet, NEW c \in Content \ Secret,
         NEW z \in Device, NEW e \in Device, z # e, Present(history[z], c), Present(history[e], c), ~Lags(e, c)
  PROVE  ~lww_wins(RS(z, c), RS(e, c))
<1>1. Judged(history[z].rows[c], e, c)
  BY QuietJudged
<1>2. RS(z, c) \in Stamp /\ RS(e, c) \in Stamp /\ heard[e][c] \in Stamp
  BY RowIsStamp DEF Base
<1>3. CASE history[z].rows[c].device_id = e
  BY <1>3, OwnRow
<1>4. CASE ~lww_wins(StampOf(history[z].rows[c]), heard[e][c])
  <2>1. ~lww_wins(RS(z, c), heard[e][c]) /\ ~lww_wins(heard[e][c], RS(e, c))
    BY <1>4 DEF RS, Lags
  <2> QED
    BY <1>2, <2>1, NotOver
<1> QED
  BY <1>1, <1>3, <1>4 DEF Judged

LEMMA NobodyLags ==
  ASSUME Meeting, Base, MeetingOK, Quiet, NEW c \in Content \ Secret, NEW e0 \in Device
  PROVE  ~Lags(e0, c)
<1> SUFFICES ASSUME Lags(e0, c) PROVE FALSE
  OBVIOUS
<1>k. PICK k : k = RS(e0, c)
  OBVIOUS
<1>S. PICK S : S = {x \in Device : Lags(x, c) /\ RS(x, c) = k}
  OBVIOUS
<1>1. e0 \in S /\ S \in SUBSET Device /\ AllLag(S, c)
  BY <1>k, <1>S DEF AllLag
<1>2. PICK e \in S : \E z \in Device \ S : Source(z, e, c)
  BY <1>1 DEF MeetingOK, Sources, HasSource
<1>3. PICK z \in Device \ S : Source(z, e, c)
  BY <1>2
<1>4. z \in Device /\ e \in Device /\ z # e /\ Present(history[z], c) /\ Present(history[e], c)
      /\ Lags(e, c) /\ RS(e, c) = k
  BY <1>3, <1>S DEF Source
<1>5. RS(z, c) = k
  <2>1. ~Unseen(z, e, c)
    BY <1>4, QuietJudged
  <2> QED
    BY <1>3, <1>4, <2>1 DEF Source, Newer
<1>6. ~Lags(z, c)
  BY <1>4, <1>5, <1>S
<1>h. PICK h : h = heard[e][c]
  OBVIOUS
<1>7. h \in Stamp /\ k \in Stamp /\ lww_wins(h, k)
  BY <1>4, <1>h, RowIsStamp DEF Base, Lags
<1>8. h # NoStamp
  <2>1. IsStamp(k)
    BY <1>7, StampIs
  <2> QED
    BY <1>7, <2>1 DEF NoStamp, lww_wins, IsStamp
<1>a. PICK a : a = h[2]
  OBVIOUS
<1>9. a \in Device /\ Present(history[a], c) /\ ~lww_wins(h, RS(a, c))
  BY <1>4, <1>8, <1>h, <1>a DEF MeetingOK, HeardOK, HeardFits, OwnHas
<1>10. RS(a, c) \in Stamp
  BY <1>9, RowIsStamp
<1>11. lww_wins(RS(a, c), k)
  BY <1>7, <1>9, <1>10, WinsFrom
<1>12. a # z
  BY <1>5, <1>7, <1>11, StampOrder
<1>13. ~lww_wins(RS(a, c), RS(z, c))
  BY <1>4, <1>6, <1>9, <1>12, QuietFollows
<1> QED
  BY <1>5, <1>11, <1>13

LEMMA SameWhenQuiet ==
  ASSUME Meeting, Base, MeetingOK, Quiet, NEW c \in Content \ Secret, NEW d \in Device, NEW e \in Device,
         Present(history[d], c), Present(history[e], c)
  PROVE  /\ RS(d, c) = RS(e, c)
         /\ RowVisible(history[d].rows[c]) = RowVisible(history[e].rows[c])
<1>1. RS(d, c) = RS(e, c)
  <2>1. CASE d # e
    <3>1. ~Lags(d, c) /\ ~Lags(e, c)
      BY NobodyLags
    <3>2. ~lww_wins(RS(d, c), RS(e, c)) /\ ~lww_wins(RS(e, c), RS(d, c))
      BY <2>1, <3>1, QuietFollows
    <3> QED
      BY <3>2, RowIsStamp, Alike
  <2> QED
    BY <2>1
<1>k. PICK k : k = RS(d, c)
  OBVIOUS
<1>2. Bears(c, k, RowVisible(history[d].rows[c])) /\ Bears(c, k, RowVisible(history[e].rows[c]))
  BY <1>1, <1>k DEF Bears, RowBears, RS
<1>3. RowVisible(history[d].rows[c]) = RowVisible(history[e].rows[c])
  BY <1>2 DEF MeetingOK, StampsOK, Unique
<1> QED
  BY <1>1, <1>3

(* Records and rows show the same. *)
LEMMA RecordAt ==
  ASSUME Base, NEW d \in Device, NEW r \in RecordsAt(d)
  PROVE  /\ r.content \in Content /\ Present(history[d], r.content) /\ InFeed(history[d].rows[r.content])
         /\ Visible(r) = RowVisible(history[d].rows[r.content])
<1>1. PICK c \in Content : InFeed(history[d].rows[c]) /\ r = RecordOf(c, history[d].rows[c])
  BY DEF RecordsAt
<1>row. PICK row : row = history[d].rows[c]
  OBVIOUS
<1>2. /\ r.content = c /\ r.pinned = row.pinned /\ r.deleted = (row.deleted # "no")
  BY <1>1, <1>row DEF RecordOf
<1>3. (r.deleted => row.deleted # "no") /\ (row.deleted # "no" => r.deleted)
  BY <1>2
<1>4. CASE r.deleted
  BY <1>1, <1>2, <1>3, <1>4, <1>row DEF Visible, RowVisible, InFeed, Present
<1>5. CASE ~r.deleted
  <2>1. Visible(r) = IF r.pinned THEN "pinned" ELSE "live"
    BY <1>5 DEF Visible
  <2>2. RowVisible(row) = IF row.pinned THEN "pinned" ELSE "live"
    BY <1>3, <1>5 DEF RowVisible
  <2> QED
    BY <1>1, <1>2, <1>row, <2>1, <2>2 DEF InFeed, Present
<1> QED
  BY <1>4, <1>5

(* Once every feed has been read to its end, the devices that have an      *)
(* entry show it in the same state: what lww_wins decided one by one, on   *)
(* each device, in whatever order the records came, has one outcome.       *)
THEOREM DevicesAgree ==
  ASSUME Meeting
  PROVE  Spec => []AgreeWhenQuiet
<1>1. Base /\ MeetingOK => AgreeWhenQuiet
  <2> SUFFICES ASSUME Base, MeetingOK, Quiet, NEW d \in Device, NEW e \in Device,
                      NEW r1 \in RecordsAt(d), NEW r2 \in RecordsAt(e), r1.content = r2.content
               PROVE  Visible(r1) = Visible(r2)
    BY DEF AgreeWhenQuiet, Agree
  <2>c. PICK c : c = r1.content
    OBVIOUS
  <2>1. /\ c \in Content /\ Present(history[d], c) /\ InFeed(history[d].rows[c])
        /\ Visible(r1) = RowVisible(history[d].rows[c])
    BY <2>c, RecordAt
  <2>2. Present(history[e], c) /\ Visible(r2) = RowVisible(history[e].rows[c])
    BY <2>c, RecordAt
  <2>3. c \notin Secret
    <3>1. Tidy(c, history[d].rows[c])
      BY <2>1 DEF MeetingOK, SecretsOK, TidyDevices, TidyAll
    <3> QED
      BY <2>1, <3>1 DEF Tidy, InFeed
  <2>4. RowVisible(history[d].rows[c]) = RowVisible(history[e].rows[c])
    BY <2>1, <2>2, <2>3, SameWhenQuiet
  <2> QED
    BY <2>1, <2>2, <2>4
<1> QED
  BY <1>1, MeetingHolds, PTL

(* And an entry that is live on one device is on every device: a peer that *)
(* does not have it would have ignored only a deletion, and the author of  *)
(* the deletion has it too (apply_record, push).                           *)
THEOREM EntriesGetEverywhere ==
  ASSUME Meeting
  PROVE  Spec => []Everywhere
<1>1. Base /\ MeetingOK => Everywhere
  <2> SUFFICES ASSUME Base, MeetingOK, Quiet, NEW d \in Device, NEW e \in Device, NEW c \in Content,
                      Live(history[d], c), InFeed(history[d].rows[c]), Sendable(history[d].rows[c])
               PROVE  Live(history[e], c)
    BY DEF Everywhere
  <2>1. Present(history[d], c) /\ history[d].rows[c].deleted = "no"
    BY DEF Live
  <2>2. c \in Content \ Secret
    <3>1. Tidy(c, history[d].rows[c])
      BY <2>1 DEF MeetingOK, SecretsOK, TidyDevices, TidyAll
    <3> QED
      BY <3>1 DEF Tidy, InFeed
  <2>3. RowVisible(history[d].rows[c]) # "deleted"
    BY <2>1 DEF RowVisible
  <2>4. CASE Present(history[e], c)
    <3>1. RowVisible(history[e].rows[c]) # "deleted"
      BY <2>1, <2>2, <2>3, <2>4, SameWhenQuiet
    <3> QED
      BY <2>4, <3>1 DEF RowVisible, Live
  <2>5. CASE ~Present(history[e], c)
    <3>k. PICK k : k = RS(d, c)
      OBVIOUS
    <3>h. PICK h : h = heard[e][c]
      OBVIOUS
    <3>1. d # e /\ Judged(history[d].rows[c], e, c)
      BY <2>1, <2>2, <2>5, QuietJudged
    <3>2. history[d].rows[c].device_id # e
      BY <2>1, <2>5, OwnRow
    <3>3. ~lww_wins(k, h) /\ k \in Stamp /\ h \in Stamp
      BY <2>1, <3>1, <3>2, <3>k, <3>h, RowIsStamp DEF Judged, RS, Base
    <3>4. h # NoStamp
      <4>1. history[d].rows[c].lamport \in 1..Top
        BY <2>1 DEF Base, HistoriesOK, Sane
      <4>2. k[1] > 0 /\ k[1] \in Nat
        BY <3>k, <4>1, TopFacts DEF RS, StampOf
      <4> QED
        BY <3>3, <4>2 DEF NoStamp, lww_wins
    <3>a. PICK a : a = h[2]
      OBVIOUS
    <3>5. HeardFits(e, c, h)
      BY <3>h DEF MeetingOK, HeardOK
    <3>6. a \in Device /\ Present(history[a], c) /\ ~lww_wins(h, RS(a, c))
      BY <3>4, <3>5, <3>a DEF HeardFits, OwnHas
    <3>7. RS(a, c) = k
      BY <2>1, <2>2, <3>6, <3>k, SameWhenQuiet
    <3>8. h = k
      BY <3>3, <3>6, <3>7, Alike
    <3>9. RowBears(history[d], c, h, RowVisible(history[d].rows[c]))
      BY <2>1, <3>8, <3>k DEF RowBears, RS
    <3>10. RowVisible(history[d].rows[c]) = "deleted"
      BY <2>5, <3>4, <3>5, <3>9 DEF HeardFits, Bears
    <3> QED
      BY <2>3, <3>10
  <2> QED
    BY <2>4, <2>5
<1> QED
  BY <1>1, MeetingHolds, PTL
=============================================================================
