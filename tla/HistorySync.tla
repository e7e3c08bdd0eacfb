---------------------------- MODULE HistorySync -----------------------------
(***************************************************************************)
(* The devices of one group keeping their histories in step: the users'    *)
(* operations on each daemon (crates/panod/src/daemon.rs), the push of the *)
(* change feed with its cursors, confirmations and retries                 *)
(* (crates/panora-sync/src/session.rs), and applying a peer's records.     *)
(*                                                                         *)
(* The daemon runs on one thread, so an operation is one step, except that *)
(* storing an image waits for its thumbnail: a record that brings a new    *)
(* image is applied in two steps, with anything in between.  Membership    *)
(* and keys are SyncGroup's: all devices here are members and have the     *)
(* key, and a session that lacks it looks like one that is down.           *)
(***************************************************************************)
EXTENDS Entries

CONSTANTS
  Image,        \* the contents that get a thumbnail
  Refused,      \* <<device, content>>: its privacy rules or limits refuse it
  Oversized,    \* <<device, content>>: larger than its max_total_bytes
  Apart,        \* pairs of devices that never find each other
  PAGE,         \* records asked of panod per push
  MAX_BATCHES,  \* bound on the batches in flight at the same time
  MAX_CLOCK,    \* bound on the Lamport values of the users' changes
  MAX_STORES,   \* how far beyond it storing a peer's entries may tick
  MAX_SEQ,      \* no crash once a change counter is here
  Happens       \* what the environment does, of Events

Events == {"copy", "pin", "delete", "import", "clear", "wipe", "evict",
           "forget", "private", "drop", "rejoin", "crash"}

ASSUME ImageAssumption == Image \subseteq Content
ASSUME PolicyAssumption ==
  Refused \subseteq Device \X Content /\ Oversized \subseteq Device \X Content
ASSUME ApartAssumption == Apart \subseteq SUBSET Device
ASSUME BoundAssumption ==
  /\ PAGE \in Nat \ {0}
  /\ MAX_BATCHES \in Nat
  /\ MAX_CLOCK \in Nat
  /\ MAX_STORES \in Nat
  /\ MAX_CLOCK + MAX_STORES < LAMPORT_CEILING
  /\ MAX_SEQ \in Nat
ASSUME EventAssumption == Happens \subseteq Events

VARIABLES
  history,     \* [Device -> History]: the daemon's database
  private,     \* [Device -> BOOLEAN]: private mode
  suspended,   \* applies waiting for a thumbnail
  cursor,      \* [Device -> [Device -> Nat]]: what the peer has confirmed
  batch,       \* the batch in flight from the one to the other, or None
  heard        \* history variable: the newest stamp a device has judged

vars == <<history, private, suspended, cursor, batch, heard>>

None == [none |-> TRUE]
NoStamp == <<0, 0>>

Pair == {dp \in Device \X Device : dp[1] # dp[2] /\ {dp[1], dp[2]} \notin Apart}
Batch == [todo : SUBSET Record, next : Nat, state : {"sent", "checked", "waiting"}]
Task == [from : Device, record : Record, id : Nat, own : Nat \X Device]

TypeOK ==
  /\ history \in [Device -> History]
  /\ private \in [Device -> BOOLEAN]
  /\ \A d \in Device : suspended[d] \subseteq Task
  /\ cursor \in [Pair -> Nat]
  /\ batch \in [Pair -> Batch \cup {None}]
  /\ \A dp \in Pair : cursor[dp] <= history[dp[1]].seq
  /\ heard \in [Device -> [Content -> Nat \X (Device \cup {0})]]

Init ==
  /\ history = [d \in Device |-> EmptyHistory]
  /\ private = [d \in Device |-> FALSE]
  /\ suspended = [d \in Device |-> {}]
  /\ cursor = [dp \in Pair |-> 0]
  /\ batch = [dp \in Pair |-> None]
  /\ heard = [d \in Device |-> [c \in Content |-> NoStamp]]

-----------------------------------------------------------------------------
Last(steps) == steps[Len(steps)]

(* What collect_garbage may make of a row: entries beyond a limit go at    *)
(* once, a deletion past its undo window loses its payloads and, after     *)
(* tombstone_days, its row.  Limits and time are the environment's, but a  *)
(* row just touched stays: a tombstone is in its window, an entry is the   *)
(* newest (duplicate_policy "bump") and only goes if it does not fit.      *)
Kept(d, c, row) ==
  IF row = Absent THEN {Absent}
  ELSE CASE row.deleted = "evicted" -> {Absent}
         [] row.deleted = "user" ->
              {row, [row EXCEPT !.blobs = FALSE]}
                \cup {r \in {Absent} : "forget" \in Happens /\ ~row.blobs}
         [] row.deleted = "no" /\ ~row.pinned ->
              {r \in {row} : <<d, c>> \notin Oversized}
                \cup {r \in {Absent} : "evict" \in Happens \/ <<d, c>> \in Oversized}
         [] OTHER -> {row}

collect_garbage(d, s, fresh) ==
  {g \in [rows : [Content -> {Absent} \cup UNION {Kept(d, c, s.rows[c]) : c \in Content}],
          clock : {s.clock}, seq : {s.seq}] :
     \A c \in Content :
       IF c \in fresh /\ s.rows[c] \in Kept(d, c, s.rows[c])
       THEN g.rows[c] = s.rows[c]
       ELSE g.rows[c] \in Kept(d, c, s.rows[c])}

(* A finished operation, with the retention pass that ends it. *)
Finish(d, s, fresh) ==
  \E g \in collect_garbage(d, s, fresh) : history' = [history EXCEPT ![d] = g]

(* One without. *)
Write(d, s) == history' = [history EXCEPT ![d] = s]

LocalOnly == UNCHANGED <<private, suspended, cursor, batch, heard>>

MayTick(d) == tick_lamport(history[d]).clock <= MAX_CLOCK

-----------------------------------------------------------------------------
(* The user's operations.  What is copied, or handed over by a client,     *)
(* passes the privacy gate.                                                *)
Admits(d, c) == ~private[d] /\ <<d, c>> \notin Refused

(* A captured image also waits for its thumbnail, but only a retention     *)
(* pass follows, which Maintain is as well.                                *)
Capture(d, c) ==
  /\ "copy" \in Happens
  /\ MayTick(d)
  /\ Admits(d, c)
  /\ Finish(d, Last(store(history[d], c, d)), {c})
  /\ LocalOnly

SetPinned(d, c, pinned) ==
  /\ "pin" \in Happens
  /\ MayTick(d)
  /\ Present(history[d], c)
  /\ Write(d, Last(pin(history[d], c, pinned, d)))
  /\ LocalOnly

Delete(d, c) ==
  /\ "delete" \in Happens
  /\ MayTick(d)
  /\ Live(history[d], c)
  /\ Finish(d, Last(delete(history[d], c, d)), {c})
  /\ LocalOnly

(* Undo, while the payloads are still there; a live row is only stamped. *)
Restorable(s, c) ==
  /\ Present(s, c)
  /\ CASE s.rows[c].deleted = "no"      -> TRUE
       [] s.rows[c].deleted = "user"    -> s.rows[c].blobs
       [] s.rows[c].deleted = "evicted" -> FALSE

Restore(d, c) ==
  /\ "delete" \in Happens
  /\ MayTick(d)
  /\ Restorable(history[d], c)
  /\ Write(d, Last(restore(history[d], c, d)))
  /\ LocalOnly

(* Entries of an archive come in whatever the privacy rules say. *)
Import(d, c, pinned) ==
  /\ "import" \in Happens
  /\ MayTick(d)
  /\ Write(d, Last(import_entry(history[d], c, pinned, d)))
  /\ LocalOnly

Unpinned(s) == {c \in Content : Live(s, c) /\ ~s.rows[c].pinned}

Clear(d) ==
  /\ "clear" \in Happens
  /\ Finish(d, Last(evict(history[d], Unpinned(history[d]))), {})
  /\ LocalOnly

(* Everything goes, pinned or not; clock and counter stay. *)
Wipe(d) ==
  /\ "wipe" \in Happens
  /\ Write(d, purged(history[d], Content))
  /\ LocalOnly

(* The hourly upkeep. *)
Maintain(d) ==
  /\ Finish(d, history[d], {})
  /\ LocalOnly

TogglePrivate(d) ==
  /\ "private" \in Happens
  /\ private' = [private EXCEPT ![d] = ~@]
  /\ UNCHANGED <<history, suspended, cursor, batch, heard>>

-----------------------------------------------------------------------------
(* Pushing the feed. *)
MayPush(d, p) ==
  /\ batch[<<d, p>>] = None
  /\ Cardinality({dp \in Pair : batch[dp] # None}) < MAX_BATCHES

(* Mutant: a page with nothing for the peer leaves the cursor. *)
Push_Stuck(d, p) ==
  LET page    == sync_changes(history[d], cursor[<<d, p>>], PAGE)
      records == {r \in page.records : r.device_id # p}
  IN  /\ MayPush(d, p)
      /\ records # {}
      /\ batch' = [batch EXCEPT ![<<d, p>>] =
           [todo |-> records, next |-> page.next, state |-> "sent"]]
      /\ UNCHANGED <<history, private, suspended, cursor, heard>>

(* Mutant: the cursor moves when the batch is sent. *)
Push_Eager(d, p) ==
  LET page    == sync_changes(history[d], cursor[<<d, p>>], PAGE)
      records == {r \in page.records : r.device_id # p}
  IN  /\ MayPush(d, p)
      /\ page.next # cursor[<<d, p>>]
      /\ cursor' = [cursor EXCEPT ![<<d, p>>] = page.next]
      /\ batch' = [batch EXCEPT ![<<d, p>>] =
           IF records = {} THEN None
           ELSE [todo |-> records, next |-> page.next, state |-> "sent"]]
      /\ UNCHANGED <<history, private, suspended, heard>>

(* One page after what the peer confirmed, without the states it made      *)
(* itself; nothing to send moves the cursor right away.                    *)
Push(d, p) ==
  LET page    == sync_changes(history[d], cursor[<<d, p>>], PAGE)
      records == {r \in page.records : r.device_id # p}
  IN  /\ MayPush(d, p)
      /\ page.next # cursor[<<d, p>>]
      /\ IF records = {}
         THEN /\ cursor' = [cursor EXCEPT ![<<d, p>>] = page.next]
              /\ UNCHANGED batch
         ELSE /\ batch' = [batch EXCEPT ![<<d, p>>] =
                   [todo |-> records, next |-> page.next, state |-> "sent"]]
              /\ UNCHANGED cursor
      /\ UNCHANGED <<history, private, suspended, heard>>

InFlight(d, p, state) == batch[<<d, p>>] # None /\ batch[<<d, p>>].state = state

SetState(d, p, state) ==
  batch' = [batch EXCEPT ![<<d, p>>] = [@ EXCEPT !.state = state]]

(* receive_records asks whether the daemon takes entries now. *)
CheckPaused(d, p) ==
  /\ InFlight(d, p, "sent")
  /\ IF private[p] THEN batch' = [batch EXCEPT ![<<d, p>>] = None]
                   ELSE SetState(d, p, "checked")
  /\ UNCHANGED <<history, private, suspended, cursor, heard>>

(* apply_record *)

(* Mutant: only deletions are compared with the local state. *)
Wins_Deletions(s, r) ==
  r.deleted /\ Present(s, r.content) => lww_wins(StampOf(r), StampOf(s.rows[r.content]))

Wins(s, r) ==
  Present(s, r.content) => lww_wins(StampOf(r), StampOf(s.rows[r.content]))

(* New here, or deleted here: it has to be stored. *)
ToStore(s, r) == Wins(s, r) /\ ~r.deleted /\ ~Live(s, r.content)

GateRefuses(p, r) == private[p] \/ <<p, r.content>> \in Refused

Rejected(r) == r.lamport \notin 1..(LAMPORT_CEILING - 1)

(* Everything but storing: the states of the database, oldest first. *)
Applied(s, r) ==
  LET o == observe_lamport(s, r.lamport)
      c == r.content
      deleted == IF Live(o, c) THEN <<o, tombstone(o, c, "user")>> ELSE <<o>>
  IN  IF ~Wins(s, r) THEN <<o>>
      ELSE IF r.deleted /\ ~Present(s, c) THEN <<o>>
      ELSE IF r.deleted
           THEN Append(deleted, stamp(Last(deleted), c, r.lamport, r.device_id))
      ELSE IF Live(s, c) THEN <<o, apply_remote_state(o, c, r)>>
      ELSE <<o>>

Stored(p, s, r) == store(observe_lamport(s, r.lamport), r.content, p)

MayStore(p, r) == Stored(p, history[p], r)[1].clock <= MAX_CLOCK + MAX_STORES

Heard(p, r) ==
  heard' = [heard EXCEPT ![p][r.content] =
              IF lww_wins(StampOf(r), @) THEN StampOf(r) ELSE @]

Done(d, p, r) ==
  batch' = [batch EXCEPT ![<<d, p>>] =
              [batch[<<d, p>>] EXCEPT !.todo = @ \ {r}, !.state = "checked"]]

(* Retry: the batch comes again from the same cursor. *)
GiveUp(d, p) == batch' = [batch EXCEPT ![<<d, p>>] = None]

(* Rejected, ignored, or applied to the row that is there. *)
Apply(d, p, r) ==
  /\ InFlight(d, p, "checked")
  /\ r \in batch[<<d, p>>].todo
  /\ ToStore(history[p], r) /\ ~Rejected(r) => GateRefuses(p, r)
  /\ Done(d, p, r)
  /\ IF Rejected(r)
     THEN UNCHANGED <<history, heard>>
     ELSE /\ IF r.deleted /\ Wins(history[p], r) /\ Live(history[p], r.content)
             THEN Finish(p, Last(Applied(history[p], r)), {r.content})
             ELSE Write(p, Last(Applied(history[p], r)))
          /\ IF ToStore(history[p], r) /\ private[p]
             THEN UNCHANGED heard ELSE Heard(p, r)
  /\ UNCHANGED <<private, suspended, cursor>>

(* Stored through the capture path and then given the state it has there;  *)
(* if the retention pass takes the row at once the call fails.             *)
ApplyNew(d, p, r) ==
  /\ InFlight(d, p, "checked")
  /\ r \in batch[<<d, p>>].todo
  /\ ToStore(history[p], r) /\ ~Rejected(r) /\ ~GateRefuses(p, r)
  /\ r.content \notin Image
  /\ MayStore(p, r)
  /\ \E g \in collect_garbage(p, Last(Stored(p, history[p], r)), {r.content}) :
       IF Present(g, r.content)
       THEN /\ Write(p, apply_remote_state(g, r.content, r))
            /\ Done(d, p, r)
            /\ Heard(p, r)
       ELSE /\ Write(p, g)
            /\ GiveUp(d, p)
            /\ UNCHANGED heard
  /\ UNCHANGED <<private, suspended, cursor>>

(* The same for an image, up to the thumbnail. *)
ApplyImage(d, p, r) ==
  /\ InFlight(d, p, "checked")
  /\ r \in batch[<<d, p>>].todo
  /\ ToStore(history[p], r) /\ ~Rejected(r) /\ ~GateRefuses(p, r)
  /\ r.content \in Image
  /\ MayStore(p, r)
  /\ LET s == Last(Stored(p, history[p], r))
     IN  /\ Write(p, s)
         /\ suspended' = [suspended EXCEPT ![p] = @ \cup
              {[from |-> d, record |-> r, id |-> s.rows[r.content].id,
                own |-> StampOf(s.rows[r.content])]}]
  /\ SetState(d, p, "waiting")
  /\ UNCHANGED <<private, cursor, heard>>

(* Whether the session that handed the record over still waits for it. *)
Awaited(p, t) ==
  InFlight(t.from, p, "waiting") /\ t.record \in batch[<<t.from, p>>].todo

(* The thumbnail is done: the rest of store, then the record's state.      *)
Resume(p, t) ==
  /\ t \in suspended[p]
  /\ suspended' = [suspended EXCEPT ![p] = @ \ {t}]
  /\ LET c == t.record.content
         There(s) == Present(s, c) /\ s.rows[c].id = t.id
     IN  \E g \in collect_garbage(p, history[p], {}) :
           IF There(history[p]) /\ There(g)
           THEN /\ Write(p, apply_remote_state(g, c, t.record))
                /\ Heard(p, t.record)
                /\ IF Awaited(p, t) THEN Done(t.from, p, t.record) ELSE UNCHANGED batch
           ELSE /\ IF There(history[p]) THEN Write(p, g) ELSE UNCHANGED history
                /\ UNCHANGED heard
                /\ IF Awaited(p, t) THEN GiveUp(t.from, p) ELSE UNCHANGED batch
  /\ UNCHANGED <<private, cursor>>

(* Every record was taken: the peer's Applied moves the cursor. *)
Confirm(d, p) ==
  /\ InFlight(d, p, "checked")
  /\ batch[<<d, p>>].todo = {}
  /\ cursor' = [cursor EXCEPT ![<<d, p>>] = batch[<<d, p>>].next]
  /\ GiveUp(d, p)
  /\ UNCHANGED <<history, private, suspended, heard>>

(* The session ends, or answers Retry for want of a key or a daemon. *)
Drop(d, p) ==
  /\ "drop" \in Happens
  /\ batch[<<d, p>>] # None
  /\ GiveUp(d, p)
  /\ UNCHANGED <<history, private, suspended, cursor, heard>>

(* Leaving or joining a group starts from the beginning with everyone. *)
Rejoin(d) ==
  /\ "rejoin" \in Happens
  /\ cursor' = [dp \in Pair |-> IF dp[1] = d THEN 0 ELSE cursor[dp]]
  /\ batch' = [dp \in Pair |-> IF dp[1] = d THEN None ELSE batch[dp]]
  /\ UNCHANGED <<history, private, suspended, heard>>

-----------------------------------------------------------------------------
(* The daemon dies inside one of its operations, or between two. *)
Todo(d, p) == IF batch[<<d, p>>] = None THEN {} ELSE batch[<<d, p>>].todo

(* An import is a store but for its last statement. *)
LocalCuts(d) ==
  LET s     == history[d]
      On(e) == {c \in Content : e \in Happens /\ MayTick(d) /\ Present(s, c)}
      New   == {c \in Content : /\ MayTick(d)
                                /\ \/ "import" \in Happens
                                   \/ "copy" \in Happens /\ Admits(d, c)}
  IN  {<<s>>}
      \cup {store(s, c, d) : c \in New}
      \cup {pin(s, c, b, d) : c \in On("pin"), b \in BOOLEAN}
      \cup {delete(s, c, d) : c \in {e \in On("delete") : Live(s, e)}}
      \cup {restore(s, c, d) : c \in {e \in On("delete") : Restorable(s, e)}}
      \cup {evict(s, cs) : cs \in {e \in {Unpinned(s)} : "clear" \in Happens}}

ApplyCuts(p) ==
  UNION {{IF ToStore(history[p], r) /\ ~GateRefuses(p, r)
          THEN Stored(p, history[p], r) ELSE Applied(history[p], r) :
            r \in {x \in Todo(d, p) : InFlight(d, p, "checked") /\ MayStore(p, x)}} :
          d \in {e \in Device : <<e, p>> \in Pair}}

Crash(d) ==
  /\ "crash" \in Happens
  /\ history[d].seq < MAX_SEQ
  /\ \E steps \in LocalCuts(d) \cup ApplyCuts(d) :
       \E i \in 1..Len(steps) : Write(d, steps[i])
  /\ suspended' = [suspended EXCEPT ![d] = {}]
  /\ batch' = [dp \in Pair |->
                 IF dp[2] = d /\ batch[dp] # None /\ batch[dp].state # "sent"
                 THEN None ELSE batch[dp]]
  /\ UNCHANGED <<private, cursor, heard>>

UserNext(d) ==
  \/ \E c \in Content : Capture(d, c)
  \/ \E c \in Content, pinned \in BOOLEAN : SetPinned(d, c, pinned)
  \/ \E c \in Content : Delete(d, c)
  \/ \E c \in Content : Restore(d, c)
  \/ \E c \in Content, pinned \in BOOLEAN : Import(d, c, pinned)
  \/ Clear(d)
  \/ Wipe(d)
  \/ Maintain(d)
  \/ TogglePrivate(d)
  \/ Rejoin(d)
  \/ Crash(d)

SyncNext(d, p) ==
  \/ Push(d, p)
  \/ CheckPaused(d, p)
  \/ \E r \in Todo(d, p) : Apply(d, p, r)
  \/ \E r \in Todo(d, p) : ApplyNew(d, p, r)
  \/ \E r \in Todo(d, p) : ApplyImage(d, p, r)
  \/ Confirm(d, p)

ResumeNext(p) == \E t \in suspended[p] : Resume(p, t)

Next ==
  \/ \E d \in Device : UserNext(d)
  \/ \E dp \in Pair : SyncNext(dp[1], dp[2])
  \/ \E dp \in Pair : Drop(dp[1], dp[2])
  \/ \E p \in Device : ResumeNext(p)

Spec == Init /\ [][Next]_vars

(* A session pushes on every tick, on every nudge and after every answer,  *)
(* a daemon answers, and a thumbnail is done at some time.                 *)
Fairness ==
  /\ \A dp \in Pair : WF_vars(SyncNext(dp[1], dp[2]))
  /\ \A p \in Device : WF_vars(ResumeNext(p))

FairSpec == Spec /\ Fairness

-----------------------------------------------------------------------------
(* A stamp names one state: two devices, or a device and a batch on its    *)
(* way, that hold the same (lamport, device_id) for an entry hold the same *)
(* state of it.  Last-writer-wins compares stamps only, so what is equal   *)
(* by stamp is never reconciled again (stamp, stamp_local, tick_lamport).  *)
Visible(r) == IF r.deleted THEN "deleted" ELSE IF r.pinned THEN "pinned" ELSE "live"

RecordsAt(d) ==
  {RecordOf(c, history[d].rows[c]) :
     c \in {e \in Content : InFeed(history[d].rows[e])}}

RecordsAnywhere ==
  (UNION {RecordsAt(d) : d \in Device}) \cup (UNION {Todo(dp[1], dp[2]) : dp \in Pair})

SameStampSameState ==
  \A r1, r2 \in RecordsAnywhere :
    r1.content = r2.content /\ StampOf(r1) = StampOf(r2) => Visible(r1) = Visible(r2)

(* The feed misses nothing: once a device has confirmed a peer's change    *)
(* counter up to some value, it has judged every state the peer has up to  *)
(* there, or made it itself, whatever arrived from third devices, and      *)
(* however often batches were lost, refused or sent again (changes_since,  *)
(* push, Applied, Retry).                                                  *)
FeedMissesNothing ==
  \A dp \in Pair : \A c \in Content :
    LET row == history[dp[1]].rows[c]
    IN  InFeed(row) /\ Sendable(row) /\ row.change_seq <= cursor[dp]
          => row.device_id = dp[2] \/ ~lww_wins(StampOf(row), heard[dp[2]][c])

(* Once every feed has been read to its end, the devices that have an      *)
(* entry show it in the same state.                                        *)
CaughtUp(d, p) ==
  /\ batch[<<d, p>>] = None
  /\ changes_since(history[d], cursor[<<d, p>>]) = {}

Quiet ==
  /\ \A dp \in Pair : CaughtUp(dp[1], dp[2])
  /\ \A d \in Device : suspended[d] = {}

Agree ==
  \A d, e \in Device : \A r1 \in RecordsAt(d), r2 \in RecordsAt(e) :
    r1.content = r2.content => Visible(r1) = Visible(r2)

AgreeWhenQuiet == Quiet => Agree

(* And an entry that is live on one device is on every device whose rules  *)
(* do not refuse it.                                                       *)
Everywhere ==
  Quiet => \A d, e \in Device : \A c \in Content :
    /\ Live(history[d], c)
    /\ InFeed(history[d].rows[c]) /\ Sendable(history[d].rows[c])
    /\ <<e, c>> \notin Refused
    => Live(history[e], c)

(* When the users stop, the feeds come to rest: nothing is sent back and   *)
(* forth for ever, and nothing waits for an answer that does not come.     *)
Settles == <>[]Quiet

(* A state a device made itself it still has, or something newer, or it    *)
(* has dropped the entry: what push counts on when it does not send a      *)
(* device its own states.                                                  *)
PeerHasItsOwn ==
  \A d \in Device : \A r \in RecordsAt(d) :
    LET own == history[r.device_id].rows[r.content]
    IN  own # Absent => ~lww_wins(StampOf(r), StampOf(own))

(* The payloads of a sensitive entry never leave the device it was copied  *)
(* on.                                                                     *)
SecretsStay ==
  \A dp \in Pair : \A r \in Todo(dp[1], dp[2]) : r.content \in Secret => r.deleted
=============================================================================
