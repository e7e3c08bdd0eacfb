----------------------------- MODULE Clipboard -----------------------------
(***************************************************************************)
(* The live clipboard and the daemon that records it.                      *)
(*                                                                         *)
(* Applications take, replace and drop the selections of a display server. *)
(* A watcher thread of the backend (X11 or Wayland) turns those changes    *)
(* into events, the capture loop of panod judges each event by its MIME    *)
(* list, reads the payloads one await at a time, reads the MIME list once  *)
(* more and stores an entry.  The same loop puts the last entry back when  *)
(* its owner exits.  Beside the loop run the recalls of the clients and    *)
(* the delayed tasks that clear the clipboard after a recall.  On GNOME    *)
(* without a data-control protocol a Shell extension pushes what it reads  *)
(* instead, our own recalls included.                                      *)
(*                                                                         *)
(* A payload is a part <<format, copy>>: the copy is the user action the   *)
(* bytes come from.  A selection and an entry are sets of parts, so a      *)
(* capture whose owner changed half way is an entry with parts of two      *)
(* copies, and equal contents are one entry, as with the content hash.     *)
(***************************************************************************)
EXTENDS Naturals, Sequences, FiniteSets

CONSTANTS
    Copies,       \* the things a user can copy
    TargetsOf,    \* [Copies -> SUBSET Formats]: the MIME list a copy offers
    Excluded,     \* copies made in an excluded application or window
    Refused,      \* copies whose text the content filters refuse
    Wanted,       \* the formats panod reads, in its order (WANTED_MIMES)
    Preferred,    \* the same formats as best_payload ranks them: images first
    Images,       \* the formats that are images
    Hints,        \* the formats that mark a secret (SECRET_FLAG_MIMES)
    Desktops,     \* the backends select_backend may end up with
    Selections,   \* the selections watched: PRIMARY only where it is recorded
    ClearsAfter,  \* whether `clear_clipboard_after_seconds` is set
    MaxTurns,     \* bound: changes of one selection
    MaxRecalls,   \* bound: recalls
    MaxWhims      \* bound: times a user deletes an entry or whims recording

VARIABLES
    backend,      \* the backend in use
    sel,          \* the live selections: who holds each, what, and its turn
    focus,        \* the copy whose application has the focus
    notices,      \* what the display server reported to the watcher threads
    queue,        \* the events of the watchers (or pushes), not handled yet
    loop,         \* the capture loop: idle, or in the middle of an event
    history,      \* the entries stored
    lastStored,   \* Daemon::last_stored
    generation,   \* Daemon::capture_generation
    clearing,     \* Daemon::clearing_deliberately
    lastRecall,   \* Daemon::last_recall, while within RECALL_ECHO_WINDOW
    client,       \* the recall in progress
    clears,       \* the delayed clears: sleeping, or past the comparison
    paused,       \* the session is locked, or private mode is on
    heard,        \* per selection, the turn of the last event handled
    shell,        \* the captures the Shell extension is in the middle of
    gones,        \* how many emptied selections the daemon has handled
    recalls, whims

vars == <<backend, sel, focus, notices, queue, loop, history, lastStored,
          generation, clearing, lastRecall, client, clears, paused, heard, shell,
          gones, recalls, whims>>

Formats == UNION {TargetsOf[c] : c \in Copies}

None == {}              \* no entry: an entry has at least one part

\* An entry in a slot of last_stored, with the turn of the event it is from.
Slot(e, n) == [entry |-> e, turn |-> n]
Free == Slot(None, 0)

ASSUME CopiesAssumption ==
    /\ IsFiniteSet(Copies) /\ Copies \cap {"nobody", "panod", "cut"} = {}
    /\ Selections \subseteq {"clipboard", "primary"} /\ "clipboard" \in Selections
    /\ TargetsOf \in [Copies -> SUBSET (Hints \cup {Wanted[i] : i \in DOMAIN Wanted})]
    /\ Excluded \subseteq Copies /\ Copies # Excluded /\ Refused \subseteq Copies
    /\ Desktops \subseteq {"x11", "wayland", "keeper", "bridge"}

-----------------------------------------------------------------------------
(* The backends.  "keeper" is the Wayland backend on a compositor that     *)
(* keeps a selection after its client exits (Mutter, KWin).                *)

Wayland == backend \in {"wayland", "keeper"}

\* wayland::compositor_keeps_selection, and Daemon::persistence_enabled with
\* the default `persist_on_wayland`.
keeps_selection == backend = "keeper"

persistence_enabled == ~keeps_selection

Empty(n) == [by |-> "nobody", parts |-> {}, turn |-> n]

PartsOf(c) == {<<f, c>> : f \in TargetsOf[c] \ Hints}

FormatsOf(parts) == {p[1] : p \in parts}

\* The MIME list of a selection.  Our own offers carry a marker on Wayland;
\* an application's hint is part of its list and never a payload we read.
Targets(x) ==
    CASE x.by = "nobody" -> {}
      [] x.by = "panod"  -> FormatsOf(x.parts) \cup IF Wayland THEN {"recall"} ELSE {}
      [] OTHER           -> TargetsOf[x.by]

wanted_order(targets) == SelectSeq(Wanted, LAMBDA f : f \in targets)

\* PrivacyEngine::evaluate, the title gate and the session lock: all that is
\* known is the MIME list and the application in the foreground.
Allowed(targets, shut) == ~paused /\ ~shut /\ targets \cap Hints = {}

\* PrivacyEngine::evaluate_content, once the payloads are in hand.
content_allowed(parts) == {p[2] : p \in parts} \cap Refused = {}

\* What the owner of a selection answers for one format: bytes of its copy.
convert(s, f) == {p \in sel[s].parts : p[1] = f}

\* The window in the foreground belongs to an excluded application.
FocusShut == focus \in Excluded

-----------------------------------------------------------------------------
(* What applications do to a selection.  Every change is a turn of it and  *)
(* is reported to the watcher.                                             *)

ChangeSince(s, x, kind, n) ==
    LET y == [x EXCEPT !.turn = sel[s].turn + 1]
    IN  /\ sel' = [sel EXCEPT ![s] = y]
        /\ notices' = [notices EXCEPT ![s] = Append(@, [kind |-> kind, of |-> y, since |-> n])]

Change(s, x, kind) == ChangeSince(s, x, kind, 0)

Held(s) == sel[s].by \notin {"nobody", "panod"}

Copy(s, c) ==
    /\ sel[s].turn < MaxTurns
    /\ Change(s, [by |-> c, parts |-> PartsOf(c), turn |-> 0], "set")
    /\ focus' = c
    /\ UNCHANGED <<backend, shell, gones, queue, loop, history, lastStored, generation,
                   clearing, lastRecall, client, clears, paused, heard, recalls, whims>>

\* The application exits and its selection goes with it, except where the
\* compositor keeps the content.
Exit(s) ==
    /\ Held(s) /\ backend \in {"x11", "wayland"} /\ sel[s].turn < MaxTurns
    /\ Change(s, Empty(0), "gone")
    /\ UNCHANGED <<backend, shell, gones, focus, queue, loop, history, lastStored,
                   generation, clearing, lastRecall, client, clears, paused, heard,
                   recalls, whims>>

\* Some client empties the selection on purpose.
Empties(s) ==
    /\ sel[s].by # "nobody" /\ sel[s].turn < MaxTurns
    /\ Change(s, Empty(0), "null")
    /\ UNCHANGED <<backend, shell, gones, focus, queue, loop, history, lastStored,
                   generation, clearing, lastRecall, client, clears, paused, heard,
                   recalls, whims>>

Pause ==
    /\ whims < MaxWhims
    /\ paused' = ~paused /\ whims' = whims + 1
    /\ UNCHANGED <<backend, shell, gones, sel, focus, notices, queue, loop, history,
                   lastStored, generation, clearing, lastRecall, client, clears, heard,
                   recalls>>

-----------------------------------------------------------------------------
(* The watcher threads.                                                    *)

Changed(x) == [kind |-> "changed", targets |-> Targets(x), shut |-> FocusShut,
               turn |-> x.turn, parts |-> {}]

\* `why` records what emptied the selection and `since`, for a delayed clear,
\* when it set its mark; the daemon sees neither.
OwnerGone(n) == [kind |-> "gone", turn |-> n.of.turn, why |-> n.kind, since |-> n.since]

Offers(x) == IF Targets(x) = {} THEN <<>> ELSE <<Changed(x)>>

\* X11: setting the owner to None is not reported, the exit of the owner is.
\* An owner window of ours is known by a property, while it exists.  The
\* TARGETS are read from whoever owns the selection by now, and an owner
\* that does not answer in time gives no event.
X11Event(s, n) ==
    CASE n.kind \in {"null", "cleared"} -> {<<>>}
      [] n.kind = "gone" -> {<<OwnerGone(n)>>}
      [] n.of.by = "panod" /\ n.of = sel[s] -> {<<>>}
      [] OTHER -> {<<>>, Offers(sel[s])}

\* Wayland: the compositor sends the MIME list with the change, our own
\* offers are known by their marker, and an empty selection is an exit or a
\* deliberate clear, nobody can tell which.
WaylandEvent(n) ==
    CASE n.kind # "set"      -> {<<OwnerGone(n)>>}
      [] n.of.by = "panod"   -> {<<>>}
      [] OTHER               -> {Offers(n.of)}

\* The payload the Shell extension would set, of all an entry has.
best_payload(parts) ==
    LET fs == SelectSeq(Preferred, LAMBDA f : f \in FormatsOf(parts))
    IN  {p \in parts : fs # <<>> /\ p[1] = Head(fs)}

\* The watcher threads.
Watch(s) ==
    /\ backend # "bridge" /\ notices[s] # <<>>
    /\ notices' = [notices EXCEPT ![s] = Tail(@)]
    /\ LET n == Head(notices[s])
       IN  \E es \in IF backend = "x11" THEN X11Event(s, n) ELSE WaylandEvent(n) :
              queue' = [queue EXCEPT ![s] = @ \o es]
    /\ UNCHANGED <<backend, shell, gones, sel, focus, loop, history, lastStored,
                   generation, clearing, lastRecall, client, clears, paused, heard,
                   recalls, whims>>

-----------------------------------------------------------------------------
(* The Shell extension, in place of a watcher on GNOME.                    *)

\* An image alone, or the text and what comes with it (the flavours of plain
\* text are one format).
bridge_wanted(targets) ==
    LET images == SelectSeq(Preferred, LAMBDA f : f \in targets \cap Images)
    IN  IF images = <<>> THEN wanted_order(targets) ELSE <<Head(images)>>

\* _scheduleCapture and _capture: the extension reads the MIME list of the
\* clipboard as it is when the debounce is over, our own offers included,
\* and drops a marked secret by it.  A change may start no capture: another
\* one follows within the debounce, our own offer was just set, or the daemon
\* has not asked for the bridge.
BridgeCapture(s) ==
    /\ backend = "bridge" /\ notices[s] # <<>>
    /\ notices' = [notices EXCEPT ![s] = Tail(@)]
    /\ LET list == Targets(sel[s])
       IN  \/ UNCHANGED shell
          \/ /\ s = "clipboard" /\ list \cap Hints = {} /\ bridge_wanted(list) # <<>>
             /\ shell' = shell \cup {[targets |-> list, todo |-> bridge_wanted(list),
                                      got |-> {}, turn |-> sel[s].turn]}
    /\ UNCHANGED <<backend, gones, sel, focus, queue, loop, history, lastStored,
                   generation, clearing, lastRecall, client, clears, paused, heard,
                   recalls, whims>>

\* PushManyFrom: the list that was read at the beginning, and the window that
\* has the focus by now.
Pushed(r, got) == [kind |-> "changed", targets |-> r.targets, shut |-> FocusShut,
                   turn |-> r.turn, parts |-> got]

\* readNext: one format in a callback of its own, from whoever owns the
\* clipboard by then, or nothing.  The last one pushes what there is; nobody
\* looks at the list again.
BridgeRead(r) ==
    /\ \E part \in {convert("clipboard", Head(r.todo)), {}} :
          LET got  == r.got \cup part
              rest == Tail(r.todo)
          IN  /\ shell' = (shell \ {r}) \cup
                          {x \in {[r EXCEPT !.todo = rest, !.got = got]} : rest # <<>>}
              /\ queue' = IF rest # <<>> \/ got = {} THEN queue
                          ELSE [queue EXCEPT !["clipboard"] = Append(@, Pushed(r, got))]
    /\ UNCHANGED <<backend, gones, sel, focus, notices, loop, history, lastStored,
                   generation, clearing, lastRecall, client, clears, paused, heard,
                   recalls, whims>>

-----------------------------------------------------------------------------
(* The capture loop.  Each read is an await: anything may happen between   *)
(* the event, the reads and the second look at the MIME list.              *)

Idle == [at |-> "idle"]

\* The beginning of handle_event (and of handle_gnome_data past its gates):
\* the event is out of the channel and counts as a change.
Take(s) ==
    /\ loop = Idle /\ queue[s] # <<>>
    /\ queue' = [queue EXCEPT ![s] = Tail(@)]
    /\ heard' = [heard EXCEPT ![s] = Head(queue[s]).turn]

forget_last_stored_Not(s) == lastStored
forget_last_stored(s) == [lastStored EXCEPT ![s] = Free]

HandleChanged(s) ==
    /\ Take(s) /\ backend # "bridge"
    /\ LET e  == Head(queue[s])
           fs == wanted_order(e.targets)
       IN  /\ e.kind = "changed"
           /\ loop' = IF Allowed(e.targets, e.shut) /\ fs # <<>>
                      THEN [at |-> "reading", of |-> s, event |-> e, todo |-> fs, got |-> {},
                            fresh |-> {}]
                      ELSE Idle
    /\ generation' = generation + 1
    /\ lastStored' = forget_last_stored(s)
    /\ UNCHANGED <<backend, shell, gones, sel, focus, notices, history, clearing,
                   lastRecall, client, clears, paused, recalls, whims>>

\* A capture with nothing in it ends.
After(l) == IF l.todo = <<>> /\ l.got = {} THEN Idle ELSE l

\* One payload: what the present owner answers for this format, or nothing
\* (it refuses, times out, or the payload is empty or too large).
Read ==
    /\ loop.at = "reading" /\ loop.todo # <<>>
    /\ LET f    == Head(loop.todo)
           rest == [loop EXCEPT !.todo = Tail(@)]
           part == convert(loop.of, f)
       IN  \/ loop' = After(rest)
           \/ loop' = After([rest EXCEPT !.got = @ \cup part,
                                         !.fresh = @ \cup IF Held(loop.of) THEN part ELSE {}])
    /\ UNCHANGED <<backend, shell, gones, sel, focus, notices, queue, history,
                   lastStored, generation, clearing, lastRecall, client, clears, paused,
                   heard, recalls, whims>>

\* Wayland: the source exits in the middle of a transfer.  The end of the
\* pipe is all the daemon sees, so the cut payload counts as read.
ReadCut ==
    /\ loop.at = "reading" /\ loop.todo # <<>>
    /\ backend = "wayland" /\ Held(loop.of) /\ sel[loop.of].turn < MaxTurns
    /\ Head(loop.todo) \in FormatsOf(sel[loop.of].parts)
    /\ LET torso == {<<Head(loop.todo), "cut">>}
       IN  loop' = [loop EXCEPT !.todo = Tail(@), !.got = @ \cup torso, !.fresh = @ \cup torso]
    /\ Change(loop.of, Empty(0), "gone")
    /\ UNCHANGED <<backend, shell, gones, focus, queue, history, lastStored, generation,
                   clearing, lastRecall, client, clears, paused, heard, recalls, whims>>

same_targets_Any(a, b) == TRUE
same_targets(a, b) == a = b

\* The second look: the capture is dropped when the list is not the one that
\* was judged, kept when the list cannot be read, and then judged by its
\* content.  `fresh` is what was read from applications and
\* not from an offer of ours; `turns` and `looked` record how the look went.
Recheck ==
    /\ loop.at = "reading" /\ loop.todo = <<>>
    /\ \E answers \in BOOLEAN :
          loop' = IF /\ answers => same_targets(Targets(sel[loop.of]), loop.event.targets)
                     /\ content_allowed(loop.got)
                  THEN [at |-> "storing", of |-> loop.of, got |-> loop.got, looked |-> answers,
                        fresh |-> loop.fresh, turns |-> sel[loop.of].turn - loop.event.turn]
                  ELSE Idle
    /\ UNCHANGED <<backend, shell, gones, sel, focus, notices, queue, history,
                   lastStored, generation, clearing, lastRecall, client, clears, paused,
                   heard, recalls, whims>>

Store ==
    /\ loop.at = "storing"
    /\ history' = history \cup {loop.got}
    /\ lastStored' = [lastStored EXCEPT ![loop.of] = Slot(loop.got, heard[loop.of])]
    /\ loop' = Idle
    /\ UNCHANGED <<backend, shell, gones, sel, focus, notices, queue, generation,
                   clearing, lastRecall, client, clears, paused, heard, recalls, whims>>

Restores_Always == persistence_enabled
Restores == ~clearing /\ persistence_enabled

\* The owner is gone: our own clear is not undone, otherwise the last entry
\* of the clipboard is taken out of its slot and offered again.
HandleOwnerGone(s) ==
    /\ Take(s) /\ Head(queue[s]).kind = "gone"
    /\ generation' = generation + 1
    /\ clearing' = FALSE /\ gones' = gones + 1
    /\ lastStored' = IF Restores /\ s = "primary" THEN lastStored ELSE forget_last_stored(s)
    /\ loop' = IF Restores /\ s = "clipboard" /\ lastStored[s].entry \in history
               THEN [at |-> "refilling", entry |-> lastStored[s].entry,
                     why |-> Head(queue[s]).why, since |-> Head(queue[s]).since]
               ELSE Idle
    /\ UNCHANGED <<backend, shell, sel, focus, notices, history, lastRecall,
                   client, clears, paused, recalls, whims>>

\* backend.offer: we become the owner, with every format of the entry, or
\* with the one format the extension can set.
Offer(s, e) ==
    /\ sel[s].turn < MaxTurns
    /\ Change(s, [by |-> "panod", turn |-> 0,
                  parts |-> IF backend = "bridge" THEN best_payload(e) ELSE e], "set")

\* persist_after_owner_gone: nothing is compared with the selection as it is
\* by now.
Refill ==
    /\ loop.at = "refilling"
    /\ loop' = Idle
    /\ \/ Offer("clipboard", loop.entry)
       \/ UNCHANGED <<sel, notices>>
    /\ UNCHANGED <<backend, shell, gones, focus, queue, history, lastStored, generation,
                   clearing, lastRecall, client, clears, paused, heard, recalls, whims>>

\* handle_gnome_data: the gates, the echo of our own recall, then the store,
\* with no second look.
HandleGnomeData ==
    /\ backend = "bridge" /\ Take("clipboard")
    /\ LET e == Head(queue["clipboard"])
           allowed == Allowed(e.targets, e.shut)
           echo    == e.parts \subseteq lastRecall
           new     == allowed /\ ~echo
       IN  /\ generation' = generation + IF new THEN 1 ELSE 0
           /\ loop' = IF new /\ content_allowed(e.parts)
                      THEN [at |-> "storing", of |-> "clipboard", got |-> e.parts,
                            looked |-> FALSE, fresh |-> e.parts,
                            turns |-> sel["clipboard"].turn - e.turn]
                      ELSE Idle
    /\ UNCHANGED <<backend, shell, gones, sel, focus, notices, history, lastStored,
                   clearing, lastRecall, client, clears, paused, recalls, whims>>

-----------------------------------------------------------------------------
(* The clients: recall, its paste and its delayed clear; deletion.         *)

Recall(e, s) ==
    /\ client.at = "idle" /\ recalls < MaxRecalls
    /\ s = "primary" => backend # "bridge"
    /\ recalls' = recalls + 1
    /\ client' = [at |-> "offering", entry |-> e, to |-> s, turn |-> 0]
    /\ UNCHANGED <<backend, shell, gones, sel, focus, notices, queue, loop, history,
                   lastStored, generation, clearing, lastRecall, clears, paused, heard,
                   whims>>

RecallOffer ==
    /\ client.at = "offering"
    /\ \/ Offer(client.to, client.entry) /\ client' = [client EXCEPT !.at = "offered", !.turn = sel'[client.to].turn]
       \/ client' = [at |-> "idle"] /\ UNCHANGED <<sel, notices>>
    /\ UNCHANGED <<backend, shell, gones, focus, queue, loop, history, lastStored,
                   generation, clearing, lastRecall, clears, paused, heard, recalls,
                   whims>>

Baseline_Early == generation
Baseline == generation + 1

\* The rest of `recall` up to the paste: our own change is counted, the echo
\* is remembered and the clear is scheduled against the count.
RecallCounted ==
    /\ client.at = "offered"
    /\ generation' = generation + 1
    /\ lastRecall' = client.entry
    /\ clears' = IF ~ClearsAfter THEN clears
                 ELSE clears \cup {[at |-> "sleeping", to |-> client.to, base |-> Baseline,
                                    counted |-> generation', turn |-> client.turn,
                                    armed |-> heard[client.to], fired |-> 0, seen |-> 0]}
    /\ client' = [at |-> IF client.to = "clipboard" THEN "pasting" ELSE "idle"]
    /\ UNCHANGED <<backend, shell, gones, sel, focus, notices, queue, loop, history,
                   lastStored, clearing, paused, heard, recalls, whims>>

\* PASTE_DELAY later the keystroke goes to the window in the foreground; its
\* failure is only reported.
Paste ==
    /\ client.at = "pasting" /\ client' = [at |-> "idle"]
    /\ UNCHANGED <<backend, shell, gones, sel, focus, notices, queue, loop, history,
                   lastStored, generation, clearing, lastRecall, clears, paused, heard,
                   recalls, whims>>

\* RECALL_ECHO_WINDOW has passed since the recall.
EchoWindowEnds ==
    /\ backend = "bridge" /\ lastRecall # None /\ lastRecall' = None
    /\ UNCHANGED <<backend, shell, gones, sel, focus, notices, queue, loop, history,
                   lastStored, generation, clearing, client, clears, paused, heard,
                   recalls, whims>>

Untouched_Any(t) == TRUE
Untouched(t) == generation = t.base

\* The delayed clear wakes up and compares the count.  A task that is over
\* stays in `clears` when it did not clear, to say so.
ClearWakes(t) ==
    /\ t.at = "sleeping"
    /\ clears' = (clears \ {t}) \cup
                 {IF Untouched(t) THEN [t EXCEPT !.at = "clearing", !.fired = heard[t.to],
                                                 !.seen = gones]
                  ELSE [t EXCEPT !.at = "lapsed"]}
    /\ clearing' = (clearing \/ Untouched(t))
    /\ UNCHANGED <<backend, shell, gones, sel, focus, notices, queue, loop, history,
                   lastStored, generation, lastRecall, client, paused, heard, recalls,
                   whims>>

\* backend.clear: whoever holds the selection loses it, and an empty one
\* stays as it is.  The bridge cannot clear.
Clear(t) ==
    /\ t.at = "clearing" /\ backend # "bridge"
    /\ clears' = clears \ {t}
    /\ IF sel[t.to].by = "nobody" THEN UNCHANGED <<sel, notices>>
       ELSE ChangeSince(t.to, Empty(0), IF sel[t.to].by = "panod" THEN "cleared" ELSE "null",
                        t.seen)
    /\ UNCHANGED <<backend, shell, gones, focus, queue, loop, history, lastStored,
                   generation, clearing, lastRecall, client, paused, heard, recalls,
                   whims>>

ClearFails(t) ==
    /\ t.at = "clearing"
    /\ clears' = (clears \ {t}) \cup {[t EXCEPT !.at = "failed"]}
    /\ clearing' = FALSE
    /\ UNCHANGED <<backend, shell, gones, sel, focus, notices, queue, loop, history,
                   lastStored, generation, lastRecall, client, paused, heard, recalls,
                   whims>>

\* store_external: a client hands in a content of its own; the gates are
\* those of a capture.  With `copy` it is offered, too, and remembered as if
\* it had been captured.
StoreExternal(c, copy) ==
    /\ client.at = "idle" /\ recalls < MaxRecalls
    /\ PartsOf(c) # {} /\ Allowed(TargetsOf[c], FALSE) /\ content_allowed(PartsOf(c))
    /\ recalls' = recalls + 1
    /\ history' = history \cup {PartsOf(c)}
    /\ client' = IF copy THEN [at |-> "putting", entry |-> PartsOf(c)] ELSE client
    /\ UNCHANGED <<backend, shell, gones, sel, focus, notices, queue, loop, lastStored,
                   generation, clearing, lastRecall, clears, paused, heard, whims>>

PutExternal ==
    /\ client.at = "putting" /\ client' = [at |-> "idle"]
    /\ \/ /\ Offer("clipboard", client.entry)
          /\ lastStored' = [lastStored EXCEPT !["clipboard"] = Slot(client.entry, heard["clipboard"])]
       \/ UNCHANGED <<sel, notices, lastStored>>
    /\ UNCHANGED <<backend, shell, gones, focus, queue, loop, history, generation,
                   clearing, lastRecall, clears, paused, heard, recalls, whims>>

Delete(e) ==
    /\ whims < MaxWhims /\ whims' = whims + 1
    /\ history' = history \ {e}
    /\ UNCHANGED <<backend, shell, gones, sel, focus, notices, queue, loop, lastStored,
                   generation, clearing, lastRecall, client, clears, paused, heard,
                   recalls>>

-----------------------------------------------------------------------------
\* `h` is the history from before; `r` and `w` of the bounds are used up.
InitWith(h, r, w) ==
    /\ backend \in Desktops
    /\ sel = [s \in Selections |-> Empty(0)]
    /\ focus = CHOOSE c \in Copies : c \notin Excluded
    /\ notices = [s \in Selections |-> <<>>] /\ queue = notices
    /\ loop = Idle
    /\ history = h
    /\ lastStored = [s \in Selections |-> Free]
    /\ generation = 0 /\ clearing = FALSE /\ lastRecall = None
    /\ client = [at |-> "idle"] /\ clears = {}
    /\ paused = FALSE
    /\ heard = [s \in Selections |-> 0]
    /\ shell = {} /\ gones = 0
    /\ recalls = r /\ whims = w

Init == InitWith({}, 0, 0)

Next ==
    \/ \E s \in Selections : \/ \E c \in Copies : Copy(s, c)
                             \/ Exit(s) \/ Empties(s) \/ Watch(s) \/ BridgeCapture(s)
                             \/ HandleChanged(s) \/ HandleOwnerGone(s)
                             \/ \E e \in history : Recall(e, s)
    \/ \E r \in shell : BridgeRead(r)
    \/ Read \/ ReadCut \/ Recheck \/ Store \/ Refill \/ HandleGnomeData
    \/ RecallOffer \/ RecallCounted \/ Paste \/ EchoWindowEnds \/ Pause
    \/ PutExternal \/ \E c \in Copies, copy \in BOOLEAN : StoreExternal(c, copy)
    \/ \E t \in clears : ClearWakes(t) \/ Clear(t) \/ ClearFails(t)
    \/ \E e \in history : Delete(e)

\* The threads and tasks of panod go on; applications and clients need not.
Fairness ==
    /\ \A s \in Selections : WF_vars(Watch(s)) /\ WF_vars(HandleChanged(s))
                             /\ WF_vars(HandleOwnerGone(s))
    /\ WF_vars(Read \/ Recheck \/ Store \/ Refill \/ HandleGnomeData)
    /\ WF_vars(RecallOffer \/ RecallCounted \/ Paste \/ PutExternal)
    /\ WF_vars(\E t \in clears : ClearWakes(t) \/ Clear(t) \/ ClearFails(t))

Spec == Init /\ [][Next]_vars /\ Fairness

-----------------------------------------------------------------------------
(* Properties.                                                             *)

Parts == Formats \X (Copies \cup {"cut"})

\* Types of the state: a selection in nobody's hands is empty, an entry is
\* never empty, and only a capture that is still being read may be.
TypeOK ==
    /\ backend \in Desktops /\ focus \in Copies
    /\ \A s \in Selections :
          /\ sel[s].by \in Copies \cup {"nobody", "panod"} /\ sel[s].parts \subseteq Parts
          /\ (sel[s].by = "nobody") => (sel[s].parts = {})
          /\ sel[s].turn \in Nat /\ heard[s] \in 0 .. sel[s].turn
          /\ lastStored[s].entry \subseteq Parts
    /\ history \subseteq (SUBSET Parts) \ {None}
    /\ loop.at \in {"idle", "reading", "storing", "refilling"}
    /\ loop.at = "storing" => loop.got # {}
    /\ generation \in Nat /\ clearing \in BOOLEAN /\ paused \in BOOLEAN
    /\ client.at \in {"idle", "offering", "offered", "pasting", "putting"}
    /\ \A t \in clears : t.at \in {"sleeping", "clearing", "lapsed", "failed"}
    /\ gones \in Nat /\ \A r \in shell : r.todo # <<>> /\ r.got \subseteq Parts

\* A payload the privacy engine would have refused, or half a payload.
Unfit(p) == p[2] = "cut" \/ TargetsOf[p[2]] \cap Hints # {}

\* The privacy engine judges a MIME list and the bytes are read later, from
\* whoever owns the selection then.  What the second look guarantees on X11
\* and Wayland: bytes of a marked secret, or the torso of a payload whose
\* source died, reach the store only when the owner changed at least twice
\* during the capture (away and back to an equal list), or the list could not
\* be read again.  The captures of the Shell extension have no such look.
SecondLook ==
    backend # "bridge" /\ loop.at = "storing" /\ (\E p \in loop.fresh : Unfit(p))
        => loop.turns >= 2 \/ ~loop.looked

\* The comment in the extension: "Content a password manager flagged as secret
\* is dropped here, before any payload is read."  It is not so for a secret
\* copied between the list and a format.
BridgeSparesSecrets ==
    backend = "bridge" /\ loop.at = "storing" => \A p \in loop.fresh : ~Unfit(p)

\* "A change that is not stored must not be restored later": what the slot
\* holds is from the very last change the daemon was told of.  A password
\* manager that empties the clipboard is never answered with older content.
\* (The slot of PRIMARY outlives its owner; nothing restores it.)
RestoresOnlyTheLast ==
    backend # "bridge" /\ lastStored["clipboard"] # Free
        => lastStored["clipboard"].turn = heard["clipboard"]

\* A delayed clear that took away what a recall had put there is not undone
\* by the persistence of the daemon, which sees an empty clipboard as after
\* an exit.  The mark that says so is one flag, set before the clear: it is
\* gone when the daemon handled another emptied selection since it was set,
\* or when another delayed clear failed; nothing else uses it up.
ClearIsFinal ==
    loop.at = "refilling" /\ loop.why = "cleared"
        => gones > loop.since + 1 \/ \E t \in clears : t.at = "failed"

\* A delayed clear never takes away what an application copied if the daemon
\* handled the event of that copy between the recall and the comparison.
ClearSparesHeard ==
    [][\A s \in Selections :
          Held(s) /\ (\E t \in clears : t.at = "clearing" /\ t.to = s /\ Clear(t))
              => \E t \in clears : /\ t.at = "clearing" /\ t.to = s /\ Clear(t)
                                   /\ \/ sel[s].turn <= t.armed
                                      \/ sel[s].turn > t.fired]_vars

\* A recall that is to be cleared, is still there and was followed by no
\* other change is cleared in the end, unless the backend fails.
Cleared ==
    <>[]~(\E t \in clears : /\ t.at # "failed" /\ sel[t.to].turn = t.turn
                            /\ generation = t.counted)

\* The comment on the mark: it stands for the event the clear itself causes,
\* "without also missing a later, genuine owner-exit persistence should still
\* handle".
ExitPersists ==
    \A s \in Selections :
        (/\ loop = Idle /\ queue[s] # <<>> /\ Head(queue[s]).kind = "gone"
         /\ Head(queue[s]).why = "gone" /\ Head(queue[s]).turn = sel[s].turn
         /\ lastStored[s].entry \in history /\ lastStored[s].turn + 1 = sel[s].turn)
            => ~clearing \/ \E t \in clears : t.at = "clearing"
=============================================================================
