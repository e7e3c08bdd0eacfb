------------------------------ MODULE Entries -------------------------------
(***************************************************************************)
(* One device's history as synchronisation sees it: the entries table with *)
(* its tombstones, the change counter kept by triggers, and the Lamport    *)
(* clock (crates/panora-core/src/storage/db.rs, crates/panora-core/src/    *)
(* sync.rs), and the daemon's operations on them as the sequence of states *)
(* the database goes through, one per committed statement                  *)
(* (crates/panod/src/daemon.rs).  An operation that runs to its end leaves *)
(* the last of them, a crash any earlier one.                              *)
(*                                                                         *)
(* Abstractions.  A content stands for a content hash and a selection.     *)
(* Times are left out: a user's tombstone is in its undo window as long as *)
(* its payloads are still attached.  Preview, kind and the search index    *)
(* follow the row.                                                         *)
(***************************************************************************)
EXTENDS Integers, Sequences, FiniteSets, FiniteSetsExt

CONSTANTS
  Device,                  \* device ids, in their order as strings
  Content,                 \* what can be copied
  Secret,                  \* the contents panora_core::sensitive::detect finds
  LAMPORT_CEILING,
  LAMPORT_OBSERVE_LIMIT

ASSUME DeviceAssumption == Device \subseteq Nat
ASSUME ContentAssumption == IsFiniteSet(Content)
ASSUME SecretAssumption == Secret \subseteq Content
ASSUME LamportAssumption ==
  /\ LAMPORT_CEILING \in Nat
  /\ LAMPORT_OBSERVE_LIMIT \in 1..LAMPORT_CEILING

Absent == [absent |-> TRUE]

(* deleted: "user" for deleted_at > 0, "evicted" for a tombstone without   *)
(* undo window (deleted_at = 0).                                           *)
Row == [id         : Nat,
        lamport    : Nat,
        device_id  : Device,
        deleted    : {"no", "user", "evicted"},
        pinned     : BOOLEAN,
        sensitive  : BOOLEAN,
        blobs      : BOOLEAN,
        change_seq : Nat]

History == [rows  : [Content -> Row \cup {Absent}],
            clock : Nat,      \* meta.lamport_clock
            seq   : Nat]      \* meta.change_seq

EmptyHistory == [rows |-> [c \in Content |-> Absent], clock |-> 0, seq |-> 0]

Present(s, c) == s.rows[c] # Absent
Live(s, c) == Present(s, c) /\ s.rows[c].deleted = "no"

-----------------------------------------------------------------------------
(* Last writer wins. *)
StampOf(r) == <<r.lamport, r.device_id>>

(* Mutant: equal Lamport values are not told apart. *)
lww_wins_NoTieBreak(remote, local) == remote[1] > local[1]

lww_wins(remote, local) ==
  \/ remote[1] > local[1]
  \/ remote[1] = local[1] /\ remote[2] > local[2]

-----------------------------------------------------------------------------
(* Statements. *)

(* Mutant: the trigger fires for new rows only. *)
Written_InsertOnly(s, c, row) ==
  [rows  |-> [s.rows EXCEPT ![c] = [row EXCEPT !.change_seq =
                IF Present(s, c) THEN @ ELSE s.seq + 1]],
   clock |-> s.clock,
   seq   |-> s.seq + 1]

(* A row inserted, or updated in a column the triggers watch. *)
Written(s, c, row) ==
  [rows  |-> [s.rows EXCEPT ![c] = [row EXCEPT !.change_seq = s.seq + 1]],
   clock |-> s.clock,
   seq   |-> s.seq + 1]

(* A column the triggers do not watch. *)
Quietly(s, c, row) == [s EXCEPT !.rows = [@ EXCEPT ![c] = row]]

ObservedRows(s) ==
  {s.rows[c].lamport : c \in {e \in Content :
     Present(s, e) /\ s.rows[e].lamport < LAMPORT_OBSERVE_LIMIT}}

(* Mutant: the clock is read off the rows. *)
tick_lamport_RowsOnly(s) == [s EXCEPT !.clock = Max(ObservedRows(s) \cup {0}) + 1]

tick_lamport(s) == [s EXCEPT !.clock = Max(ObservedRows(s) \cup {@}) + 1]

observe_lamport(s, seen) ==
  IF seen < LAMPORT_OBSERVE_LIMIT /\ seen > s.clock
  THEN [s EXCEPT !.clock = seen] ELSE s

stamp(s, c, lamport, d) ==
  Written(s, c, [s.rows[c] EXCEPT !.lamport = lamport, !.device_id = d])

(* Insert, leave a live row where it is, or revive a tombstone. *)
upsert_entry(s, c, lamport, d) ==
  IF Live(s, c) THEN s
  ELSE Written(s, c,
    [id         |-> IF Present(s, c) THEN s.rows[c].id ELSE s.seq + 1,
     lamport    |-> lamport,
     device_id  |-> d,
     deleted    |-> "no",
     pinned     |-> FALSE,
     sensitive  |-> FALSE,
     blobs      |-> Present(s, c) /\ s.rows[c].blobs,
     change_seq |-> 0])

mark_sensitive(s, c) == Quietly(s, c, [s.rows[c] EXCEPT !.sensitive = TRUE])
attach_blobs(s, c) == Quietly(s, c, [s.rows[c] EXCEPT !.blobs = TRUE])
set_pinned(s, c, pinned) == Written(s, c, [s.rows[c] EXCEPT !.pinned = pinned])
tombstone(s, c, why) == Written(s, c, [s.rows[c] EXCEPT !.deleted = why])
undelete(s, c) == Written(s, c, [s.rows[c] EXCEPT !.deleted = "no"])
purged(s, cs) ==
  [s EXCEPT !.rows = [c \in Content |-> IF c \in cs THEN Absent ELSE s.rows[c]]]

apply_remote_state(s, c, record) ==
  Written(s, c, [s.rows[c] EXCEPT !.pinned    = record.pinned,
                                  !.lamport   = record.lamport,
                                  !.device_id = record.device_id])

-----------------------------------------------------------------------------
(* The daemon's operations. *)

stamp_local(s, c, d) ==
  LET t == tick_lamport(s) IN <<t, stamp(t, c, t.clock, d)>>

(* A capture, up to the payloads. *)
store(s, c, d) ==
  LET s1 == tick_lamport(s)
      s2 == upsert_entry(s1, c, s1.clock, d)
      s3 == stamp(s2, c, s1.clock, d)
      s4 == IF c \in Secret THEN mark_sensitive(s3, c) ELSE s3
  IN  <<s1, s2, s3, s4, attach_blobs(s4, c)>>

import_entry(s, c, pinned, d) ==
  LET steps == store(s, c, d)
  IN  IF pinned THEN Append(steps, set_pinned(steps[Len(steps)], c, TRUE)) ELSE steps

pin(s, c, pinned, d) ==
  LET s1 == set_pinned(s, c, pinned) IN <<s1>> \o stamp_local(s1, c, d)

delete(s, c, d) ==
  LET s1 == tombstone(s, c, "user") IN <<s1>> \o stamp_local(s1, c, d)

restore(s, c, d) ==
  LET s1 == IF Live(s, c) THEN s ELSE undelete(s, c)
  IN  <<s1>> \o stamp_local(s1, c, d)

(* clear_all, or the evictions of a retention pass: tombstones without an  *)
(* undo window, purged in the same pass.  No reader of the feed sees them, *)
(* so the counter values they use up are left out.                         *)
evict(s, cs) ==
  << [s EXCEPT !.rows = [c \in Content |->
        IF c \in cs THEN [s.rows[c] EXCEPT !.deleted = "evicted"] ELSE s.rows[c]]],
     purged(s, cs) >>

-----------------------------------------------------------------------------
(* The change feed. *)
Record == [content   : Content,
           pinned    : BOOLEAN,
           deleted   : BOOLEAN,
           device_id : Device,
           lamport   : Nat]

RecordOf(c, row) ==
  [content |-> c, pinned |-> row.pinned, deleted |-> row.deleted # "no",
   device_id |-> row.device_id, lamport |-> row.lamport]

(* Mutant: sensitive entries are in the feed. *)
InFeed_Secrets(row) == row # Absent /\ row.deleted # "evicted"

InFeed(row) == row # Absent /\ ~row.sensitive /\ row.deleted # "evicted"

(* A live row without its payloads does not match its hash. *)
Sendable(row) == row.deleted # "no" \/ row.blobs

changes_since(s, since) ==
  {c \in Content : InFeed(s.rows[c]) /\ s.rows[c].change_seq > since}

(* The rows one page consumes: those with fewer than limit records before  *)
(* them.                                                                   *)
Consumed(s, since, limit) ==
  {c \in changes_since(s, since) :
     Cardinality({e \in changes_since(s, since) :
        /\ Sendable(s.rows[e])
        /\ s.rows[e].change_seq < s.rows[c].change_seq}) < limit}

sync_changes(s, since, limit) ==
  LET rows == Consumed(s, since, limit)
  IN  [records |-> {RecordOf(c, s.rows[c]) : c \in {e \in rows : Sendable(s.rows[e])}},
       next    |-> Max({since} \cup {s.rows[c].change_seq : c \in rows})]
=============================================================================
