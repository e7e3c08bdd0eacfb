------------------------------- MODULE Popup -------------------------------
(* The popup (crates/panora-gui/src/window.rs), a client of panod.         *)
(*                                                                         *)
(* GTK runs one callback at a time: a callback, with the short requests it *)
(* makes on the way, is one step.  A request that carries a page or a      *)
(* recall runs on a worker thread and comes back in a callback of its own, *)
(* so that requests overlap: panod answers them in any order, and anything *)
(* happens in between.  Any request may fail, and then panod may or may    *)
(* not have acted on it.                                                   *)
EXTENDS Service, FiniteSets

CONSTANTS
  MaxActs,    \* bounds what the user does
  MaxFaults   \* bounds the failing requests

VARIABLES
  ui,         \* the window and what its callbacks share
  calls,      \* the pages on their way
  recalling,  \* the recall on its way
  undo,       \* the entries that a toast offers to restore
  acts, faults

vars == <<panod, sub, ui, calls, recalling, undo, acts, faults>>

Entry == [content : Content, pinned : BOOLEAN, seen : Nat]

EntriesOK(es) == Len(es) <= Cardinality(Content) + 1 /\ \A i \in DOMAIN es : es[i] \in Entry

Ui ==
  [window : {"closed", "shown", "hidden"}, text : Texts, filter : Filters,
   generation : BOOLEAN,  \* the timer of the last keystroke is running
   rendered_query : Texts, entries : Seq(Entry), stack : {"list", "empty", "error"},
   exhausted : BOOLEAN, loading_more : BOOLEAN, revision : Nat,
   private : BOOLEAN, pollers : 0..(MaxActs + 1)]

NewUi ==
  [window |-> "shown", text |-> "", filter |-> "all", generation |-> FALSE,
   rendered_query |-> "", entries |-> <<>>, stack |-> "list", exhausted |-> TRUE,
   loading_more |-> FALSE, revision |-> 0, private |-> FALSE, pollers |-> 0]

Closed == [NewUi EXCEPT !.window = "closed"]

Idle == [at |-> "no"]

Pending == [is |-> "pending", rows |-> <<>>]

TypeOK ==
  /\ SvcTypeOK
  /\ ui \in Ui
  /\ \A r \in calls : r.newest \in BOOLEAN /\ r.more \in BOOLEAN
  /\ Cardinality({r \in calls : r.more}) <= 1 /\ ui.loading_more = (\E r \in calls : r.more)
  /\ recalling.at \in {"no", "timer", "sent", "done", "failed"}
  /\ undo \subseteq Content

Init ==
  /\ SvcInit
  /\ ui = Closed /\ calls = {} /\ recalling = Idle /\ undo = {}
  /\ acts = 0 /\ faults = 0

-----------------------------------------------------------------------------
(* A request that changes something, made on the GTK thread: the answer,   *)
(* and the daemon after it.  A lost answer is an error too.                *)
MayFail == faults < MaxFaults

\* Requests that only read.
Ask(ok) == IF ok THEN UNCHANGED faults ELSE MayFail /\ faults' = faults + 1

\* "read": the answer to what is read after a request that worked.
Call(ok, read, ds) ==
  \/ ok /\ panod' \in ds /\ Ask(read)
  \/ ~ok /\ ds = {} /\ UNCHANGED <<panod, faults>>
  \/ ~ok /\ MayFail /\ panod' \in ds \cup {panod} /\ faults' = faults + 1

sync_status(u, d, ok) ==
  IF ok THEN [u EXCEPT !.private = d.private, !.revision = d.revision] ELSE u

current_query(u, offset) == [text |-> u.text, filter |-> u.filter, offset |-> offset]

(* A page on its way.  "newest": query_generation is still what it was     *)
(* when the page was asked for.                                            *)
Page(u, offset, more) ==
  [q |-> current_query(u, offset), more |-> more, newest |-> TRUE, answer |-> Pending]

(* refresh, after its sync_status: whatever is on its way is superseded.   *)
(* The callback of a superseded first page does nothing, so that page is   *)
(* forgotten at once.                                                      *)
Superseded_Not(cs) == cs

Superseded(cs) == {[r EXCEPT !.newest = FALSE] : r \in {x \in cs : x.more}}

Refresh(u) == calls' = Superseded(calls) \cup {Page(u, 0, FALSE)}

refresh(u, ok) ==
  /\ ui' = sync_status(u, panod', ok)
  /\ Refresh(u)

same_rows(es, rows) == es = rows

append_entries(u, rows) ==
  [u EXCEPT !.entries = @ \o rows, !.exhausted = Len(rows) < PAGE_LIMIT]

show_page(u, a) ==
  LET same    == a.is = "entries" /\ u.rendered_query = u.text /\ same_rows(u.entries, a.rows)
      cleared == [u EXCEPT !.rendered_query = u.text, !.entries = <<>>, !.exhausted = TRUE]
  IN  CASE same -> u
        [] a.is = "failure" -> [cleared EXCEPT !.stack = "error"]
        [] ~same /\ a.is # "failure" /\ a.rows = <<>> -> [cleared EXCEPT !.stack = "empty"]
        [] OTHER -> [append_entries(cleared, a.rows) EXCEPT !.stack = "list"]

next_page(u, a) ==
  IF a.rows # <<>> THEN append_entries(u, a.rows) ELSE [u EXCEPT !.exhausted = TRUE]

-----------------------------------------------------------------------------
(* The worker thread of a page: panod answers, or nobody does.             *)
Answer(r) ==
  /\ r.answer = Pending
  /\ \E ok \in BOOLEAN :
       /\ Ask(ok)
       /\ calls' = (calls \ {r})
                     \cup {[r EXCEPT !.answer = IF ok THEN list(panod, r.q) ELSE Failure]}
  /\ UNCHANGED <<panod, sub, ui, recalling, undo, acts>>

(* Its callback.                                                           *)
PageArrives(r) ==
  /\ r.answer # Pending
  /\ calls' = calls \ {r}
  /\ LET u == [ui EXCEPT !.loading_more = @ /\ ~r.more]
     IN  ui' = IF ~r.newest THEN u
               ELSE IF r.more THEN next_page(u, r.answer) ELSE show_page(u, r.answer)
  /\ UNCHANGED <<panod, sub, recalling, undo, acts, faults>>

-----------------------------------------------------------------------------
(* Timers.                                                                 *)
KeystrokeTimer ==
  /\ ui.generation
  /\ \E ok \in BOOLEAN :
       /\ Ask(ok)
       /\ UNCHANGED panod
       /\ refresh([ui EXCEPT !.generation = FALSE], ok)
  /\ UNCHANGED <<sub, recalling, undo, acts>>

\* The poller ends when it finds the window hidden; otherwise it refreshes
\* when the revision has moved.
Poll ==
  /\ ui.pollers > 0
  /\ \E ok, again \in BOOLEAN :
       LET changed == ui.window = "shown" /\ ok /\ panod.revision # ui.revision
       IN  /\ changed \/ ~again
           /\ IF ui.window = "shown" THEN Ask(ok /\ (changed => again)) ELSE ok /\ UNCHANGED faults
           /\ UNCHANGED panod
           /\ IF changed THEN refresh(sync_status(ui, panod, TRUE), again)
              ELSE /\ ui' = IF ui.window = "shown" THEN sync_status(ui, panod, ok)
                            ELSE [ui EXCEPT !.pollers = @ - 1]
                   /\ UNCHANGED calls
  /\ UNCHANGED <<sub, recalling, undo, acts>>

-----------------------------------------------------------------------------
(* The user.                                                               *)
Acts == ui.window = "shown" /\ acts < MaxActs /\ acts' = acts + 1

build ==
  /\ ui.window = "closed" /\ recalling = Idle
  /\ \E ok \in BOOLEAN :
       /\ Ask(ok)
       /\ UNCHANGED panod
       /\ ui' = sync_status([NewUi EXCEPT !.pollers = 1], panod, ok)
       /\ calls' = {Page(NewUi, 0, FALSE)}
  /\ undo' = {}
  /\ UNCHANGED <<sub, recalling, acts>>

Type(t) ==
  /\ Acts
  /\ t # ui.text
  /\ ui' = [ui EXCEPT !.text = t, !.generation = TRUE]
  /\ UNCHANGED <<panod, sub, calls, recalling, undo, faults>>

ChooseChip(f) ==
  /\ Acts
  /\ f # ui.filter
  /\ \E ok \in BOOLEAN :
       /\ Ask(ok) /\ UNCHANGED panod
       /\ refresh([ui EXCEPT !.filter = f], ok)
  /\ UNCHANGED <<sub, recalling, undo>>

Retry ==
  /\ Acts
  /\ ui.stack = "error"
  /\ \E ok \in BOOLEAN : Ask(ok) /\ UNCHANGED panod /\ refresh(ui, ok)
  /\ UNCHANGED <<sub, recalling, undo>>

load_next_page ==
  /\ Acts
  /\ ~ui.exhausted /\ ~ui.loading_more
  /\ ui' = [ui EXCEPT !.loading_more = TRUE]
  /\ calls' = calls \cup {Page(ui, Len(ui.entries), TRUE)}
  /\ UNCHANGED <<panod, sub, recalling, undo, faults>>

\* After a request that worked the grid is asked for again, after one that
\* did not it stays as it is.
Then(ok, read) == IF ok THEN refresh(ui, read) ELSE UNCHANGED <<ui, calls>>

Shown == {ui.entries[i] : i \in DOMAIN ui.entries}

toggle_pin(e) ==
  /\ Acts
  /\ \E ok, read \in BOOLEAN : Call(ok, read, set_pinned(panod, e.content, ~e.pinned)) /\ Then(ok, read)
  /\ UNCHANGED <<sub, recalling, undo>>

delete_entry(e) ==
  /\ Acts
  /\ \E ok, read \in BOOLEAN :
       /\ Call(ok, read, delete(panod, e.content)) /\ Then(ok, read)
       /\ undo' = IF ok THEN undo \cup {e.content} ELSE undo
  /\ UNCHANGED <<sub, recalling>>

Undo(c) ==
  /\ Acts
  /\ \E ok, read \in BOOLEAN : Call(ok, read, restore(panod, c)) /\ Then(ok, read)
  /\ undo' = undo \ {c}
  /\ UNCHANGED <<sub, recalling>>

confirm_clear ==
  /\ Acts
  /\ \E ok, read \in BOOLEAN : Call(ok, read, clear(panod)) /\ Then(ok, read)
  /\ UNCHANGED <<sub, recalling, undo>>

TogglePrivate ==
  /\ Acts
  /\ \E ok \in BOOLEAN :
       /\ Call(ok, TRUE, set_private_mode(panod, ~ui.private))
       /\ ui' = IF ok THEN [ui EXCEPT !.private = ~@] ELSE ui
  /\ UNCHANGED <<sub, calls, recalling, undo>>

Close ==
  /\ Acts
  /\ ui' = Closed /\ calls' = {} /\ undo' = {}
  /\ UNCHANGED <<panod, sub, recalling, faults>>

(* A recall hides the window first, waits for the focus to be elsewhere,   *)
(* and talks to panod on a worker thread.                                  *)
Recall(e) ==
  /\ Acts
  /\ recalling = Idle
  /\ ui' = [ui EXCEPT !.window = "hidden"]
  /\ recalling' = [at |-> "timer", of |-> e.content]
  /\ UNCHANGED <<panod, sub, calls, undo, faults>>

RecallTimer ==
  /\ recalling.at = "timer"
  /\ recalling' = [recalling EXCEPT !.at = "sent"]
  /\ UNCHANGED <<panod, sub, ui, calls, undo, acts, faults>>

RecallAnswer ==
  /\ recalling.at = "sent"
  /\ \E ok \in BOOLEAN :
       /\ Call(ok, TRUE, recall(panod, recalling.of))
       /\ recalling' = [recalling EXCEPT !.at = IF ok THEN "done" ELSE "failed"]
  /\ UNCHANGED <<sub, ui, calls, undo, acts>>

recall_with ==
  \/ /\ recalling.at = "done"
     /\ ui' = Closed /\ calls' = {} /\ undo' = {}
  \/ /\ recalling.at = "failed"
     /\ ui' = [ui EXCEPT !.window = "shown", !.pollers = @ + 1]
     /\ UNCHANGED <<calls, undo>>

RecallReturns ==
  /\ recall_with
  /\ recalling' = Idle
  /\ UNCHANGED <<panod, sub, acts, faults>>

-----------------------------------------------------------------------------
UserNext ==
  \/ build
  \/ \E t \in Texts : Type(t)
  \/ \E f \in Filters : ChooseChip(f)
  \/ Retry
  \/ load_next_page
  \/ \E e \in Shown : toggle_pin(e) \/ delete_entry(e) \/ Recall(e)
  \/ \E c \in undo : Undo(c)
  \/ confirm_clear
  \/ TogglePrivate
  \/ Close

GtkNext ==
  \/ KeystrokeTimer
  \/ Poll
  \/ RecallTimer
  \/ RecallAnswer
  \/ RecallReturns

WorkerNext == \E r \in calls : Answer(r) \/ PageArrives(r)

ServiceNext == SvcNext /\ UNCHANGED <<ui, calls, recalling, undo, acts, faults>>

Next == UserNext \/ GtkNext \/ WorkerNext \/ ServiceNext

(* GLib runs the timers, panod answers or the client's timeout does, and   *)
(* the main loop takes every callback.                                     *)
Fairness ==
  /\ WF_vars(KeystrokeTimer) /\ WF_vars(Poll)
  /\ WF_vars(RecallTimer) /\ WF_vars(RecallAnswer) /\ WF_vars(RecallReturns)
  /\ WF_vars(WorkerNext)
  /\ \A s \in Subscribers : WF_vars(SubscribeLoop(s) /\ UNCHANGED <<ui, calls, recalling, undo, acts, faults>>)

Spec == Init /\ [][Next]_vars /\ Fairness

-----------------------------------------------------------------------------
(* When nothing is on its way, every row in the grid is one the search and *)
(* the chip ask for, in whatever order the answers to earlier queries came *)
(* back (query_generation, the generation of the keystrokes).              *)
AtRest == ~ui.generation /\ ~\E r \in calls : r.newest /\ ~r.more

OnlyMatches ==
  ui.window = "shown" /\ AtRest =>
    \A e \in Shown : e.content \in Matches[ui.text] /\ (ui.filter = "pinned" => e.pinned)

(* A window that can be seen is kept up to date: hiding it for a recall    *)
(* may end the poller, a recall that fails brings one back                 *)
(* (start_live_refresh, recall_with).                                      *)
ShownIsPolled == ui.window = "shown" => ui.pollers > 0

(* When the history comes to rest, so does the popup: it shows an error,   *)
(* or the first page of what panod would answer now and nothing else on it *)
(* but rows that the upkeep has dropped without telling, and the toggle    *)
(* says whether panod records.  No locked history stays in sight, and a    *)
(* window that a recall has hidden is closed or back.                      *)
Now == query(panod, current_query(ui, 0))

StillThere(es) == SelectSeq(es, LAMBDA e : panod.hist[e.content].state # "evicted")

Current(es) ==
  /\ IsPrefix(StillThere(PageOf(es, 0)), Now)
  /\ Len(es) < PAGE_LIMIT => Len(StillThere(es)) = Len(Now)

UpToDate ==
  /\ ui.window # "hidden"
  /\ ui.window = "shown" /\ ui.stack # "error" =>
       /\ IF panod.app_locked THEN ui.entries = <<>> ELSE Current(ui.entries)
       /\ ui.private = panod.private

ComesUpToDate == <>[]UpToDate

(* What load_next_page says: a further page continues the one before it.   *)
NoGaps ==
  /\ ui.window = "shown" /\ calls = {} /\ AtRest
  /\ ui.revision = panod.revision /\ ~panod.app_locked
  /\ \A c \in Content : panod.hist[c].state # "evicted"
  => IsPrefix(ui.entries, Now)

(* What refresh says it rebuilds: the grid, the empty state or the error   *)
(* state, whichever the last answer asks for.                              *)
PageTells ==
  ui.window = "shown" /\ calls = {} /\ faults = 0 =>
    ui.stack = IF ui.entries = <<>> THEN "empty" ELSE "list"
=============================================================================
