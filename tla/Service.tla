------------------------------ MODULE Service ------------------------------
(* What panod answers its clients: the socket server                       *)
(* (crates/panod/src/server.rs) over the history as a client sees it, the  *)
(* second-layer lock, the revision every open popup polls, and the event   *)
(* stream of the clients that subscribe (panora-cli watch, the D-Bus API,  *)
(* panora-sync).                                                           *)
(*                                                                         *)
(* panod runs its tasks on one thread: between two awaits a request is     *)
(* atomic.  An entry is known here by its content; its id is as good.      *)
EXTENDS Integers, Sequences, SequencesExt

CONSTANTS
  Content,       \* what can be in the history
  Texts,         \* what can be in a search box; "" is nothing
  Matches,       \* Matches[t]: the contents a search for t finds
  Subscribers,
  PAGE_LIMIT,    \* rows in an answer
  MaxRevision    \* bounds what other clients change

VARIABLES
  panod,  \* the daemon: its history, flags and counters
  sub     \* the Subscribe connections

ASSUME ServiceAssumption ==
  IsFiniteSet(Content) /\ "" \in Texts /\ PAGE_LIMIT \in Nat \ {0}

svcVars == <<panod, sub>>

Filters == {"all", "pinned"}

(* A row is "evicted" when retention drops it, "deleted" when a user does, *)
(* who may still undo that, and "absent" when it was cleared or never was. *)
Row == [state : {"absent", "live", "deleted", "evicted"}, pinned : BOOLEAN,
        seen : Nat]

NoRow == [state |-> "absent", pinned |-> FALSE, seen |-> 0]

Panod == [hist : [Content -> Row], private : BOOLEAN, app_locked : BOOLEAN,
          revision : Nat \ {0}, watched : Nat \ {0}]

Off == [at |-> "off", revision |-> 0, told |-> 0, since |-> 0]

Gone == [Off EXCEPT !.at = "gone"]

Subscription ==
  [at : {"off", "write", "wait", "gone"}, revision : Nat, told : Nat,
   since : Nat]

SvcTypeOK == panod \in Panod /\ sub \in [Subscribers -> Subscription]

SvcInit ==
  /\ panod \in {[hist |-> h, private |-> FALSE, app_locked |-> FALSE,
                 revision |-> 1, watched |-> 1] :
                  h \in {[c \in Content |-> NoRow],
                         [c \in Content |-> [NoRow EXCEPT !.state = "live"]]}}
  /\ sub = [s \in Subscribers |-> Off]

-----------------------------------------------------------------------------
(* The revision.  A watch channel drops what is sent while nobody holds a  *)
(* receiver: a later subscriber then borrows the value of an earlier time. *)
Receivers == {s \in Subscribers : sub[s].at \in {"write", "wait"}}

bump(d) ==
  [d EXCEPT !.revision = @ + 1,
            !.watched = IF Receivers = {} THEN @ ELSE d.revision + 1]

MayBump == panod.revision < MaxRevision

-----------------------------------------------------------------------------
(* List: the pinned entries first, then the most recently seen.            *)
Live(d, c) == d.hist[c].state = "live"

Found(d, q) ==
  {c \in Content : /\ Live(d, c)
                   /\ c \in Matches[q.text]
                   /\ q.filter = "pinned" => d.hist[c].pinned}

\* What a card shows of an entry.
EntryOf(d, c) == [content |-> c, pinned |-> d.hist[c].pinned, seen |-> d.hist[c].seen]

Precedes(a, b) ==
  \/ a.pinned /\ ~b.pinned
  \/ a.pinned = b.pinned /\ a.seen > b.seen

\* Rows seen at the same time come in some order of their own (their ids).
InOrder(S) ==
  CHOOSE s \in SetToSeqs(S) : \A i, j \in DOMAIN s : i < j => ~Precedes(s[j], s[i])

query(d, q) == InOrder({EntryOf(d, c) : c \in Found(d, q)})

PageOf(rows, offset) ==
  SubSeq(rows, offset + 1, IF offset + PAGE_LIMIT < Len(rows) THEN offset + PAGE_LIMIT ELSE Len(rows))

Failure == [is |-> "failure", rows |-> <<>>]

list_Unlocked(d, q) == [is |-> "entries", rows |-> PageOf(query(d, q), q.offset)]

list(d, q) ==
  IF d.app_locked THEN [is |-> "count", rows |-> <<>>]
  ELSE [is |-> "entries", rows |-> PageOf(query(d, q), q.offset)]

-----------------------------------------------------------------------------
(* The requests that change something: what the daemon may be after one,   *)
(* nothing when the answer is an error.                                    *)
SetState(d, cs, state) ==
  [d EXCEPT !.hist = [c \in Content |-> IF c \in cs THEN [@[c] EXCEPT !.state = state] ELSE @[c]]]

In(d, state) == {c \in Content : d.hist[c].state = state}

\* Retention drops what it finds too old or too much, and what was deleted
\* goes when its undo window ends.
collect_garbage(d) ==
  {SetState(SetState(d, old, "evicted"), gone, "absent") :
     old \in SUBSET {c \in In(d, "live") : ~d.hist[c].pinned}, gone \in SUBSET In(d, "deleted")}

Bumped(ds) == {bump(d) : d \in ds}

set_pinned(d, c, b) ==
  {bump([d EXCEPT !.hist[c].pinned = b]) : x \in {c} \cap (In(d, "live") \cup In(d, "deleted"))}

delete(d, c) ==
  UNION {Bumped(collect_garbage(SetState(d, {x}, "deleted"))) : x \in {c} \cap In(d, "live")}

restore(d, c) ==
  {bump(SetState(d, {x}, "live")) : x \in {c} \cap (In(d, "live") \cup In(d, "deleted"))}

clear(d) ==
  Bumped(collect_garbage(SetState(d, {c \in In(d, "live") : ~d.hist[c].pinned}, "absent")))

set_private_mode(d, b) == {bump([d EXCEPT !.private = b])}

\* A recalled entry moves to the top.
recall(d, c) ==
  {bump([d EXCEPT !.hist[x].seen = d.revision + 1]) :
     x \in {e \in {c} \cap In(d, "live") : ~d.app_locked}}

store(d, c) ==
  Bumped(collect_garbage(
    [d EXCEPT !.hist[c] = [state |-> "live", pinned |-> @.pinned, seen |-> d.revision + 1]]))

engage_lock(d) == {bump([d EXCEPT !.app_locked = TRUE])}

unlock(d) == {bump([d EXCEPT !.app_locked = FALSE])}

(* Somebody other than the popup: the capture loop, the extension, the     *)
(* command line, the idle timer.                                           *)
Others(d) ==
  (UNION {store(d, c) : c \in {e \in Content : ~d.private}})
    \cup set_private_mode(d, ~d.private)
    \cup IF d.app_locked THEN unlock(d) ELSE engage_lock(d)

OtherClient ==
  /\ MayBump
  /\ panod' \in Others(panod)
  /\ UNCHANGED sub

(* The hourly upkeep.  Nobody is told.                                     *)
maintain ==
  /\ panod' \in collect_garbage(panod)
  /\ UNCHANGED sub

-----------------------------------------------------------------------------
(* Subscribe.                                                              *)
Subscribe(s) ==
  /\ sub[s].at = "off"
  /\ sub' = [sub EXCEPT ![s] = [at |-> "write", revision |-> panod.watched, told |-> 0,
                                since |-> panod.revision]]
  /\ UNCHANGED panod

\* The frame is written when the socket takes it.
WriteEvent(s) ==
  /\ sub[s].at = "write"
  /\ sub' = [sub EXCEPT ![s].at = "wait", ![s].told = sub[s].revision]
  /\ UNCHANGED panod

Changed_Next(s) ==
  /\ sub[s].at = "wait"
  /\ panod.watched = sub[s].revision + 1
  /\ sub' = [sub EXCEPT ![s].at = "write", ![s].revision = panod.watched]
  /\ UNCHANGED panod

Changed(s) ==
  /\ sub[s].at = "wait"
  /\ panod.watched # sub[s].revision
  /\ sub' = [sub EXCEPT ![s].at = "write", ![s].revision = panod.watched]
  /\ UNCHANGED panod

Disconnect(s) ==
  /\ sub[s].at = "wait"
  /\ sub' = [sub EXCEPT ![s] = Gone]
  /\ UNCHANGED panod

SubscribeLoop(s) == WriteEvent(s) \/ Changed(s)

SvcNext ==
  \/ OtherClient
  \/ maintain
  \/ \E s \in Subscribers : Subscribe(s) \/ SubscribeLoop(s) \/ Disconnect(s)

SvcFairness == \A s \in Subscribers : WF_svcVars(SubscribeLoop(s))

(* A subscriber hears of what happens after it subscribed, however many    *)
(* changes fall together while its socket is full (watch_revision,         *)
(* subscribe_loop): when the changes end, it knows the last revision.      *)
Hears(s) == s \in Receivers /\ panod.revision > sub[s].since => sub[s].told = panod.revision

SubscriberHears == \A s \in Subscribers : <>[]Hears(s)

(* What subscribe_loop says of the first event: it carries the revision    *)
(* that was current when the client subscribed.                            *)
FirstEventIsCurrent ==
  \A s \in Subscribers : sub[s].told # 0 => sub[s].told >= sub[s].since

(* What the revision is for: it moves whenever what a client would be      *)
(* shown changes.                                                          *)
RevisionTells ==
  [][panod'.revision = panod.revision =>
       \A c \in Content : Live(panod', c) = Live(panod, c)]_panod
=============================================================================
