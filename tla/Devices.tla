------------------------------ MODULE Devices ------------------------------
(* The Devices page of the GUI and the sync service behind it              *)
(* (crates/panora-gui/src/devices.rs, the control socket of panora-sync).  *)
(*                                                                         *)
(* The page probes the service on a worker thread every few seconds, after *)
(* every change it made and while the user's switch is taking effect.  A   *)
(* pairing is a subpage with a connection of its own: a reader thread      *)
(* connects, sends the request and hands what it reads to the main loop,   *)
(* the service runs the request beside the others and asks the user, and   *)
(* leaving the subpage or the dialog cancels it.  What the pairing window  *)
(* does with its mutex and its epoch is in Pairing; here an attempt to     *)
(* pair asks, succeeds or fails.                                           *)
EXTENDS Naturals, Sequences

CONSTANTS
  Flow,          \* the subpages a user opens
  Setups,        \* bounds (subpages and their kinds, attempts, flips of the
                 \* switch, requests, reports that take too long, whether the
                 \* page's timer ticks), whether the page is open, and the
                 \* service to begin with
  SERVICE_POLLS, \* how often the switch looks for the service
  MAX_ATTEMPTS   \* attempts a window allows

VARIABLES
  service,  \* panora-sync: its state, its group, its pairing window
  page,     \* Devices: what the page shows and remembers
  probes,   \* worker threads that look for the service
  unit,     \* the worker thread of the switch
  worker,   \* the worker thread of a removal or of leaving
  flow,     \* the subpages
  wire,     \* per subpage: its reader thread, its channel, its connection
  ctl,      \* per subpage: the service's task for its request
  said,     \* history: the questions the user said yes to
  joined,   \* history: the attempts that made a device a member
  left      \* what is left of the bounds

guiVars == <<page, probes, unit, worker>>
pageVars == <<service, guiVars, flow, wire, ctl, said, joined, left>>

None == 0

Kind == {"pair", "invite", "joincode", "join"}

PageSetup ==
  [flows : Nat, attempts : Nat, toggles : Nat, requests : Nat, kinds : SUBSET Kind, ticks : BOOLEAN,
   slow : Nat, open : BOOLEAN, at : {"down", "up"}, group : {"none", "member", "removed"}]

(* Subpages are numbered in the order in which they are opened.            *)
ASSUME DevicesAssumption ==
  /\ Flow \subseteq Nat \ {None} /\ Setups \subseteq PageSetup
  /\ SERVICE_POLLS \in Nat /\ MAX_ATTEMPTS \in Nat \ {0}

Spend(b) == left[b] > 0 /\ left' = [left EXCEPT ![b] = @ - 1]

-----------------------------------------------------------------------------
(* The service.                                                            *)
Status == [up |-> service.at = "up", v |-> service.v, group |-> service.group]

Stopped == [up |-> FALSE, v |-> 0, group |-> "none"]

can_invite(st) == st.up /\ st.group # "removed"
can_join(st) == st.up /\ st.group # "member"

Shut(f) == wire[f].shut

\* A line to the client; it is lost when the client has closed.
Write(f, e) == [wire EXCEPT ![f].down = IF Shut(f) THEN @ ELSE Append(@, e)]

\* The task's last line, after which its end of the connection closes.
LastLine(f, e) == [wire EXCEPT ![f].down = IF Shut(f) THEN @ ELSE Append(@, e), ![f].served = FALSE]

Event(kind, n) == [is |-> kind, of |-> n, v |-> 0]
Done(v) == [is |-> "done", of |-> None, v |-> v]
Error == Event("error", None)

NoTask == [at |-> "none", inbox |-> <<>>, asked |-> None]
Ended == [NoTask EXCEPT !.at = "ended"]

NoAttempt == [n |-> None, at |-> "idle"]

\* Node::close_window for the window of f: a newer one stays open.
close_window(s, f) ==
  IF s.window # f THEN s ELSE [s EXCEPT !.window = None, !.attempt = NoAttempt]

\* handle, run: what the request does before it first waits.  A window
\* replaces the one before it.  A first line that cannot be written ends
\* the task, and the window stays.
Handle(f) ==
  /\ ctl[f].at = "request"
  /\ LET windowed == flow[f].kind \in {"pair", "invite"}
         refused  == IF windowed THEN service.group = "removed" ELSE service.group = "member"
         hello    == CASE flow[f].kind = "pair" -> "listening"
                       [] flow[f].kind = "invite" -> "link"
                       [] OTHER -> "joining"
     IN  CASE refused ->
                /\ ctl' = [ctl EXCEPT ![f] = Ended] /\ wire' = LastLine(f, Error)
                /\ UNCHANGED service
           [] ~refused /\ windowed ->
                /\ service' = [service EXCEPT !.group = "member", !.window = f, !.tries = 0,
                                              !.v = IF service.group = "member" THEN @ ELSE @ + 1,
                                              !.attempt = NoAttempt]
                /\ ctl' = [ctl EXCEPT ![f] = IF Shut(f) THEN Ended ELSE [ctl[f] EXCEPT !.at = "loop"]]
                /\ wire' = IF Shut(f) THEN LastLine(f, Error) ELSE Write(f, Event(hello, None))
           [] OTHER ->
                /\ ctl' = [ctl EXCEPT ![f] = IF Shut(f) /\ flow[f].kind = "join" THEN Ended
                                             ELSE [ctl[f] EXCEPT !.at = "joining"]]
                /\ wire' = IF flow[f].kind = "join" THEN Write(f, Event(hello, None)) ELSE wire
                /\ UNCHANGED service
  /\ UNCHANGED <<guiVars, flow, said, joined, left>>

\* The task ends for a reason of its own or because the client is gone.
Ends(f, e) ==
  /\ ctl' = [ctl EXCEPT ![f] = Ended]
  /\ wire' = LastLine(f, e)
  /\ service' = close_window(service, f)

client_gone(f) ==
  /\ ctl[f].at \in {"loop", "joining", "joinasking", "finishing"} /\ Shut(f)
  /\ Ends(f, Error)
  /\ UNCHANGED <<guiVars, flow, said, joined, left>>

\* The window's time is up, or another window took its place.
Expires(f) ==
  /\ ctl[f].at = "loop"
  /\ Ends(f, Error)
  /\ UNCHANGED <<guiVars, flow, said, joined, left>>

\* The loop over the events of the window.  A line that cannot be written
\* ends it; a question stops it until there is an answer.
TakeEvent(f) ==
  /\ ctl[f].at = "loop" /\ ctl[f].inbox # <<>>
  /\ LET e    == Head(ctl[f].inbox)
         rest == [ctl[f] EXCEPT !.inbox = Tail(@)]
     IN  IF e.is = "done" \/ Shut(f)
         THEN /\ ctl' = [ctl EXCEPT ![f] = Ended] /\ wire' = LastLine(f, e)
              /\ service' = IF e.is = "done" THEN service ELSE close_window(service, f)
         ELSE /\ ctl' = [ctl EXCEPT ![f] = IF e.is = "ask"
                                           THEN [rest EXCEPT !.at = "asking", !.asked = e.of]
                                           ELSE rest]
              /\ wire' = Write(f, e)
              /\ UNCHANGED service
  /\ UNCHANGED <<guiVars, flow, said, joined, left>>

\* No answer is a no, and an answer to a question nobody asks any more is
\* dropped.
Accepts(f) == IF wire[f].up = <<>> THEN FALSE ELSE Head(wire[f].up)

HasAnswer(f) == wire[f].up # <<>> \/ Shut(f)

TakeAnswer(f) ==
  /\ ctl[f].at = "asking" /\ HasAnswer(f)
  /\ ctl' = [ctl EXCEPT ![f].at = "loop", ![f].asked = None]
  /\ wire' = [wire EXCEPT ![f].up = IF @ = <<>> THEN @ ELSE Tail(@)]
  /\ service' = IF service.attempt # [n |-> ctl[f].asked, at |-> "asked"] THEN service
                ELSE [service EXCEPT !.attempt.at = IF Accepts(f) THEN "accepted" ELSE "refused"]
  /\ UNCHANGED <<guiVars, flow, said, joined, left>>

-----------------------------------------------------------------------------
(* Attempts of other devices to pair with this one.                        *)
Tell(f, e) == [ctl EXCEPT ![f].inbox = IF ctl[f].at \in {"loop", "asking"} THEN Append(@, e) ELSE @]

Next_n == 1 + Len(joined.all)

\* The code it shows and the question about it come together.
AttemptBegins ==
  /\ service.at = "up" /\ service.window # None /\ service.attempt = NoAttempt
  /\ Spend("attempts")
  /\ LET f == service.window
         n == Next_n
     IN  IF flow[f].kind = "pair"
         THEN /\ service' = [service EXCEPT !.attempt = [n |-> n, at |-> "asked"]]
              /\ ctl' = Tell(f, Event("ask", n))
         ELSE /\ service' = [service EXCEPT !.attempt = [n |-> n, at |-> "accepted"]]
              /\ UNCHANGED ctl
  /\ joined' = [joined EXCEPT !.all = Append(@, flow[service.window].kind)]
  /\ UNCHANGED <<guiVars, flow, wire, said>>

AttemptJoins ==
  /\ service.attempt.at = "accepted"
  /\ service' = [service EXCEPT !.window = None, !.attempt = NoAttempt, !.v = @ + 1]
  /\ ctl' = Tell(service.window, Done(service.v + 1))
  /\ joined' = [joined EXCEPT !.in = @ \cup {service.attempt.n}]
  /\ UNCHANGED <<guiVars, flow, wire, said, left>>

\* It takes too long, its connection breaks, a message is wrong, the user
\* says no.  A window that has no attempts left goes.
AttemptFails ==
  /\ service.attempt.at # "idle"
  /\ ctl' = Tell(service.window, Event("failed", service.attempt.n))
  /\ service' = [service EXCEPT !.attempt = NoAttempt, !.tries = @ + 1,
                                !.window = IF service.tries + 1 = MAX_ATTEMPTS THEN None ELSE @]
  /\ UNCHANGED <<guiVars, flow, wire, said, joined, left>>

-----------------------------------------------------------------------------
(* This device joins another one's group (Request::Join, JoinCode).        *)
JoinAsks(f) ==
  /\ ctl[f].at = "joining" /\ flow[f].kind = "joincode"
  /\ Spend("attempts")
  /\ joined' = [joined EXCEPT !.all = Append(@, "joincode")]
  /\ ctl' = [ctl EXCEPT ![f] = [ctl[f] EXCEPT !.at = "joinasking", !.asked = Next_n]]
  /\ wire' = Write(f, Event("ask", Next_n))
  /\ UNCHANGED <<service, guiVars, flow, said>>

JoinAnswered(f) ==
  /\ ctl[f].at = "joinasking" /\ HasAnswer(f)
  /\ wire' = [wire EXCEPT ![f].up = IF @ = <<>> THEN @ ELSE Tail(@)]
  /\ ctl' = [ctl EXCEPT ![f].at = IF Accepts(f) THEN "finishing" ELSE "failing"]
  /\ UNCHANGED <<service, guiVars, flow, said, joined, left>>

JoinEnds(f, ok) ==
  /\ ctl[f].at \in IF ok THEN {"finishing"} \cup IF flow[f].kind = "join" THEN {"joining"} ELSE {}
                   ELSE {"joining", "joinasking", "finishing", "failing"}
  /\ ctl' = [ctl EXCEPT ![f] = Ended]
  /\ service' = IF ok THEN [service EXCEPT !.group = "member", !.v = @ + 1] ELSE service
  /\ wire' = LastLine(f, IF ok THEN Done(service.v + 1) ELSE Error)
  /\ joined' = IF ok /\ flow[f].kind = "joincode" THEN [joined EXCEPT !.in = @ \cup {ctl[f].asked}]
               ELSE joined
  /\ UNCHANGED <<guiVars, flow, said, left>>

-----------------------------------------------------------------------------
(* The page.                                                               *)
Probe(by, on, polls) == [by |-> by, at |-> "asks", saw |-> Stopped, on |-> on, polls |-> polls]

\* Devices::refresh: one probe at a time; a second wish is remembered.
refresh_page_Once(p) == [p EXCEPT !.probing = TRUE]
refresh_page(p) == IF p.probing THEN [p EXCEPT !.again = TRUE] ELSE [p EXCEPT !.probing = TRUE]

Refreshed(ps) == IF page.probing THEN ps ELSE ps \cup {Probe("refresh", FALSE, 0)}

\* Devices::show.
show(p, st, by) ==
  [p EXCEPT !.switch = IF p.toggling THEN @ ELSE st.up,
            !.shown = IF st.up THEN st ELSE Stopped, !.by = by]

\* Every REFRESH_SECS seconds, also while a probe is under way.
RefreshTimer ==
  /\ page.open /\ left.ticks
  /\ page' = refresh_page(page) /\ probes' = Refreshed(probes)
  /\ UNCHANGED <<service, unit, worker, flow, wire, ctl, said, joined, left>>

\* The worker thread: connect, ask for the status, or find nobody there.
AskStatus(p) ==
  /\ p \in probes /\ p.at = "asks"
  /\ probes' = (probes \ {p}) \cup {[p EXCEPT !.at = "back", !.saw = Status]}
  /\ UNCHANGED <<service, page, unit, worker, flow, wire, ctl, said, joined, left>>

\* status_now gives up after REQUEST_TIMEOUT: the service counts as stopped.
StatusTimeout(p) ==
  /\ p \in probes /\ p.at = "asks" /\ service.at = "up" /\ Spend("slow")
  /\ probes' = (probes \ {p}) \cup {[p EXCEPT !.at = "back", !.saw = Stopped]}
  /\ UNCHANGED <<service, page, unit, worker, flow, wire, ctl, said, joined>>

Answered_Early(p) ==
  /\ p \in probes /\ p.at = "back" /\ p.by = "refresh"
  /\ IF page.again
     THEN /\ page' = page /\ probes' = probes \ {p}
     ELSE /\ page' = IF page.open THEN show([page EXCEPT !.probing = FALSE], p.saw, "refresh")
                     ELSE [page EXCEPT !.probing = FALSE]
          /\ probes' = probes \ {p}
  /\ UNCHANGED <<service, unit, worker, flow, wire, ctl, said, joined, left>>

Answered(p) ==
  /\ p \in probes /\ p.at = "back" /\ p.by = "refresh"
  /\ IF page.again
     THEN /\ page' = [page EXCEPT !.again = FALSE]
          /\ probes' = (probes \ {p}) \cup {Probe("refresh", FALSE, 0)}
     ELSE /\ page' = IF page.open THEN show([page EXCEPT !.probing = FALSE], p.saw, "refresh")
                     ELSE [page EXCEPT !.probing = FALSE]
          /\ probes' = probes \ {p}
  /\ UNCHANGED <<service, unit, worker, flow, wire, ctl, said, joined, left>>

\* Devices::await_service: the probe of the switch shows what it found when
\* the service got there, or when it has looked often enough.
AwaitService(p) ==
  /\ p \in probes /\ p.at = "back" /\ p.by = "switch"
  /\ IF page.open /\ p.saw.up # p.on /\ p.polls > 0
     THEN /\ probes' = (probes \ {p}) \cup {Probe("switch", p.on, p.polls - 1)}
          /\ UNCHANGED page
     ELSE /\ probes' = probes \ {p}
          /\ page' = IF page.open THEN show([page EXCEPT !.toggling = FALSE], p.saw, "switch")
                     ELSE page
  /\ UNCHANGED <<service, unit, worker, flow, wire, ctl, said, joined, left>>

Free == [at |-> "free", of |-> "none", ok |-> FALSE, v |-> 0]

\* The user flips the switch.
service_switched ==
  /\ page.open /\ ~page.toggling /\ Spend("toggles")
  /\ page' = [page EXCEPT !.switch = ~@, !.toggling = TRUE]
  /\ unit' = [Free EXCEPT !.at = "unit", !.of = IF page.switch THEN "stop" ELSE "start"]
  /\ UNCHANGED <<service, probes, worker, flow, wire, ctl, said, joined>>

\* systemctl: a stop ends every task of the service, a start is not yet a
\* service that answers.
set_unit(ok) ==
  /\ unit.at = "unit"
  /\ unit' = [unit EXCEPT !.at = "unitback", !.ok = ok]
  /\ IF ok /\ unit.of = "stop"
     THEN /\ service' = [service EXCEPT !.at = "down", !.window = None, !.attempt = NoAttempt]
          /\ ctl' = [f \in Flow |-> IF ctl[f].at = "none" THEN NoTask ELSE Ended]
          /\ wire' = [f \in Flow |-> [wire[f] EXCEPT !.served = FALSE]]
     ELSE /\ service' = IF ok /\ service.at = "down" THEN [service EXCEPT !.at = "starting"] ELSE service
          /\ UNCHANGED <<ctl, wire>>
  /\ UNCHANGED <<page, probes, worker, flow, said, joined, left>>

ServiceReady ==
  /\ service.at = "starting"
  /\ service' = [service EXCEPT !.at = "up"]
  /\ UNCHANGED <<guiVars, flow, wire, ctl, said, joined, left>>

UnitBack ==
  /\ unit.at = "unitback" /\ unit' = Free
  /\ IF unit.ok
     THEN /\ probes' = probes \cup {Probe("switch", unit.of = "start", SERVICE_POLLS)}
          /\ UNCHANGED page
     ELSE /\ page' = [page EXCEPT !.toggling = FALSE, !.switch = unit.of = "stop"]
          /\ UNCHANGED probes
  /\ UNCHANGED <<service, worker, flow, wire, ctl, said, joined, left>>

\* Remove a device or leave: one request, one answer, then a fresh report.
\* A bound: one request at a time.
RequestOnce(what) ==
  /\ page.open /\ page.shown.up /\ page.shown.group # "none" /\ worker = Free
  /\ page.top = None /\ Spend("requests")
  /\ worker' = [Free EXCEPT !.at = "request", !.of = what]
  /\ UNCHANGED <<service, page, probes, unit, flow, wire, ctl, said, joined>>

RequestRuns(ok) ==
  /\ worker.at = "request"
  /\ ok => service.at = "up" /\ service.group \in (IF worker.of = "leave" THEN {"member", "removed"} ELSE {"member"})
  /\ service' = IF ok THEN [service EXCEPT !.v = @ + 1,
                                           !.group = IF worker.of = "leave" THEN "none" ELSE @]
                ELSE service
  /\ worker' = [worker EXCEPT !.at = "requestback", !.ok = ok, !.v = service'.v]
  /\ UNCHANGED <<page, probes, unit, flow, wire, ctl, said, joined, left>>

\* What the page showed is forgotten, so that the report is shown again.
Forget(p) == [p EXCEPT !.shown = Stopped, !.by = "refresh"]

RequestBack ==
  /\ worker.at = "requestback" /\ worker' = Free
  /\ page' = [refresh_page(Forget(page)) EXCEPT !.told = IF worker.ok THEN worker.v ELSE @]
  /\ probes' = Refreshed(probes)
  /\ UNCHANGED <<service, unit, flow, wire, ctl, said, joined, left>>

\* Another member removes this device.
RemovedElsewhere ==
  /\ service.group = "member" /\ Spend("requests")
  /\ service' = [service EXCEPT !.group = "removed", !.v = @ + 1]
  /\ UNCHANGED <<guiVars, flow, wire, ctl, said, joined>>

-----------------------------------------------------------------------------
(* A pairing subpage.                                                      *)
Blank == [kind |-> "none", screen |-> "none", about |-> None, over |-> FALSE, started |-> FALSE,
          handle |-> FALSE, leaving |-> FALSE]

NoWire == [thread |-> "none", shut |-> FALSE, served |-> FALSE, up |-> <<>>, down |-> <<>>]

\* Flow::start, once.
Start(f) ==
  wire' = [wire EXCEPT ![f].thread = "connecting"]

Open(f, kind) ==
  /\ page.open /\ page.top = None /\ flow[f] = Blank /\ (\A g \in Flow : g < f => flow[g] # Blank)
  /\ Spend("flows") /\ kind \in left.kinds
  /\ IF kind \in {"pair", "invite"} THEN can_invite(page.shown) ELSE can_join(page.shown)
  /\ page' = [page EXCEPT !.top = f, !.slot = f]
  /\ LET starts == kind \in {"pair", "invite"}
     IN  /\ flow' = [flow EXCEPT ![f] = [Blank EXCEPT !.kind = kind, !.started = starts,
                                                      !.screen = IF starts THEN "busy" ELSE "form"]]
         /\ IF starts THEN Start(f) ELSE UNCHANGED wire
  /\ UNCHANGED <<service, probes, unit, worker, ctl, said, joined>>

\* The button of a form, or Enter in it: the request goes out once.
Go(f) ==
  /\ page.top = f /\ flow[f].screen = "form"
  /\ flow' = [flow EXCEPT ![f] = [flow[f] EXCEPT !.started = TRUE, !.screen = "busy"]]
  /\ Start(f)
  /\ UNCHANGED <<service, guiVars, ctl, said, joined, left>>

\* The reader thread connects, sends the request and hands over the handle.
Connect(f) ==
  /\ wire[f].thread = "connecting"
  /\ IF service.at = "up"
     THEN /\ wire' = [wire EXCEPT ![f] = [wire[f] EXCEPT !.thread = "connected", !.served = TRUE]]
          /\ ctl' = [ctl EXCEPT ![f] = [NoTask EXCEPT !.at = "request"]]
     ELSE /\ wire' = [wire EXCEPT ![f].thread = "reading"]
          /\ UNCHANGED ctl
  /\ UNCHANGED <<service, guiVars, flow, said, joined, left>>

\* Flow::finish: the last screen, and a fresh report behind it.
Finish(f, told) ==
  /\ flow' = [flow EXCEPT ![f] = [flow[f] EXCEPT !.over = TRUE, !.handle = FALSE, !.screen = "end"]]
  /\ page' = [refresh_page(Forget(page)) EXCEPT !.told = IF told > @ THEN told ELSE @]
  /\ probes' = Refreshed(probes)

\* What an event puts on the screen.  A failed attempt goes back to waiting.
Screen(f, e) ==
  CASE e.is = "failed" -> IF flow[f].kind = "pair" THEN "listening" ELSE flow[f].screen
    [] e.is = "joining" -> "busy"
    [] OTHER -> e.is

\* Cancelled while connecting: the request is out, and the handle cancels it.
Connected(f) ==
  /\ wire[f].thread = "connected"
  /\ wire' = [wire EXCEPT ![f] = [wire[f] EXCEPT !.thread = "reading", !.shut = flow[f].over]]
  /\ flow' = [flow EXCEPT ![f].handle = ~flow[f].over]
  /\ UNCHANGED <<service, guiVars, ctl, said, joined, left>>

\* The next event, or the end of the stream, read by the thread and taken by
\* the main loop.  After the last one, or when the subpage is over, the
\* thread ends and closes its side.
Taken(w, last) ==
  [w EXCEPT !.down = IF last THEN <<>> ELSE Tail(@), !.thread = IF last THEN "done" ELSE @,
            !.shut = @ \/ last]

TakeMsg_NoEnd(f) ==
  /\ wire[f].thread = "reading"
  /\ wire[f].down # <<>> \/ Shut(f)
  /\ LET e     == IF wire[f].down = <<>> THEN Error ELSE Head(wire[f].down)
         drops == flow[f].over
         last  == drops \/ e.is \in {"done", "error"}
     IN  /\ wire' = [wire EXCEPT ![f] = Taken(wire[f], last)]
         /\ CASE drops -> UNCHANGED <<flow, page, probes>>
              [] ~drops /\ last -> Finish(f, e.v)
              [] OTHER -> /\ flow' = [flow EXCEPT ![f] = [flow[f] EXCEPT !.screen = Screen(f, e),
                                                                        !.about = e.of]]
                          /\ UNCHANGED <<page, probes>>
  /\ UNCHANGED <<service, unit, worker, ctl, said, joined, left>>

TakeMsg(f) ==
  /\ wire[f].thread = "reading"
  /\ wire[f].down # <<>> \/ ~wire[f].served \/ Shut(f)
  /\ LET e     == IF wire[f].down = <<>> THEN Error ELSE Head(wire[f].down)
         drops == flow[f].over
         last  == drops \/ e.is \in {"done", "error"}
     IN  /\ wire' = [wire EXCEPT ![f] = Taken(wire[f], last)]
         /\ CASE drops -> UNCHANGED <<flow, page, probes>>
              [] ~drops /\ last -> Finish(f, e.v)
              [] OTHER -> /\ flow' = [flow EXCEPT ![f] = [flow[f] EXCEPT !.screen = Screen(f, e),
                                                                        !.about = e.of]]
                          /\ UNCHANGED <<page, probes>>
  /\ UNCHANGED <<service, unit, worker, ctl, said, joined, left>>

\* The buttons under a question.  A line to a service that is gone fails.
After_answer_Kept(f) == flow
After_answer(f) == [flow EXCEPT ![f] = [flow[f] EXCEPT !.screen = "busy", !.about = None]]

answer(f, accept) ==
  /\ page.top = f /\ flow[f].screen = "ask" /\ ~flow[f].over /\ flow[f].handle
  /\ said' = IF accept THEN said \cup {flow[f].about} ELSE said
  /\ IF wire[f].served
     THEN /\ wire' = [wire EXCEPT ![f].up = Append(@, accept)]
          /\ flow' = After_answer(f) /\ UNCHANGED <<page, probes>>
     ELSE Finish(f, 0) /\ UNCHANGED wire
  /\ UNCHANGED <<service, unit, worker, ctl, joined, left>>

\* Flow::cancel clears the slot only when it is its own.
Slot_Any(f) == None
Slot(f) == IF page.slot = f THEN None ELSE page.slot

Cancel(f) ==
  /\ flow' = [flow EXCEPT ![f] = [flow[f] EXCEPT !.over = TRUE, !.handle = FALSE, !.leaving = FALSE]]
  /\ wire' = [wire EXCEPT ![f].shut = @ \/ flow[f].handle]

\* Back, Escape or a swipe takes the subpage away; that it is hidden is
\* signalled once it is out of sight.
Back(f) ==
  /\ page.open /\ page.top = f
  /\ page' = [page EXCEPT !.top = None]
  /\ flow' = [flow EXCEPT ![f].leaving = TRUE]
  /\ UNCHANGED <<service, probes, unit, worker, wire, ctl, said, joined, left>>

Hidden(f) ==
  /\ flow[f].leaving
  /\ Cancel(f)
  /\ page' = [page EXCEPT !.slot = Slot(f)]
  /\ UNCHANGED <<service, probes, unit, worker, ctl, said, joined, left>>

CloseDialog ==
  /\ page.open
  /\ page' = [page EXCEPT !.open = FALSE, !.top = None, !.slot = None]
  /\ IF page.slot # None THEN Cancel(page.slot) ELSE UNCHANGED <<flow, wire>>
  /\ UNCHANGED <<service, probes, unit, worker, ctl, said, joined, left>>

-----------------------------------------------------------------------------
PageInit ==
  /\ left \in Setups
  /\ service = [at |-> left.at, v |-> 1, group |-> left.group, window |-> None, tries |-> 0,
                attempt |-> NoAttempt]
  /\ page = [open |-> left.open, shown |-> Stopped, by |-> "refresh", told |-> 0, probing |-> left.open,
             again |-> FALSE, switch |-> FALSE, toggling |-> FALSE, slot |-> None, top |-> None]
  /\ probes = (IF left.open THEN {Probe("refresh", FALSE, 0)} ELSE {}) /\ unit = Free /\ worker = Free
  /\ flow = [f \in Flow |-> Blank] /\ wire = [f \in Flow |-> NoWire]
  /\ ctl = [f \in Flow |-> NoTask]
  /\ said = {} /\ joined = [all |-> <<>>, in |-> {}]

SyncNext ==
  \/ \E f \in Flow : \/ Handle(f) \/ client_gone(f) \/ Expires(f) \/ TakeEvent(f) \/ TakeAnswer(f)
                     \/ JoinAsks(f) \/ JoinAnswered(f) \/ \E ok \in BOOLEAN : JoinEnds(f, ok)
  \/ AttemptBegins \/ AttemptJoins \/ AttemptFails
  \/ ServiceReady \/ RemovedElsewhere

ThreadNext ==
  \/ \E p \in probes : AskStatus(p) \/ StatusTimeout(p)
  \/ \E ok \in BOOLEAN : set_unit(ok) \/ RequestRuns(ok)
  \/ \E f \in Flow : Connect(f)

MainLoopNext ==
  \/ RefreshTimer \/ UnitBack \/ RequestBack
  \/ \E p \in probes : Answered(p) \/ AwaitService(p)
  \/ \E f \in Flow : Connected(f) \/ TakeMsg(f) \/ Hidden(f)

PageUserNext ==
  \/ service_switched \/ CloseDialog
  \/ \E what \in {"remove", "leave"} : RequestOnce(what)
  \/ \E f \in Flow : \/ \E kind \in Kind : Open(f, kind)
                     \/ Go(f) \/ Back(f) \/ \E accept \in BOOLEAN : answer(f, accept)

PageNext == SyncNext \/ ThreadNext \/ MainLoopNext \/ PageUserNext

\* Timers, threads, tasks and the main loop go on; users and other devices
\* need not.
PageFairness ==
  /\ WF_pageVars(RefreshTimer) /\ WF_pageVars(UnitBack) /\ WF_pageVars(RequestBack)
  /\ WF_pageVars(\E p \in probes : AskStatus(p)) /\ WF_pageVars(\E p \in probes : Answered(p))
  /\ WF_pageVars(\E p \in probes : AwaitService(p))
  /\ WF_pageVars(\E ok \in BOOLEAN : set_unit(ok))
  /\ WF_pageVars(\E ok \in BOOLEAN : RequestRuns(ok)) /\ WF_pageVars(ServiceReady)
  /\ \A f \in Flow :
       /\ WF_pageVars(Connect(f)) /\ WF_pageVars(Connected(f)) /\ WF_pageVars(TakeMsg(f)) /\ WF_pageVars(Hidden(f))
       /\ WF_pageVars(Handle(f)) /\ WF_pageVars(client_gone(f)) /\ WF_pageVars(Expires(f)) /\ WF_pageVars(TakeAnswer(f))
       /\ WF_pageVars(JoinEnds(f, FALSE))

PageSpec == PageInit /\ [][PageNext]_pageVars /\ PageFairness

-----------------------------------------------------------------------------
(* Types of the state: a request went out when its reader thread exists,   *)
(* and the service works on it only for a connection that was made.        *)
PageTypeOK ==
  /\ service.window \in Flow \cup {None} /\ service.group \in {"none", "member", "removed"}
  /\ service.attempt.at \in {"idle", "asked", "accepted", "refused"}
  /\ page.top \in Flow \cup {None}
  /\ \A f \in Flow : /\ flow[f].screen \in {"none", "form", "busy", "listening", "link",
                                            "ask", "end"}
                     /\ flow[f].started <=> wire[f].thread # "none"
                     /\ ctl[f].at # "none" => wire[f].thread \in {"connected", "reading", "done"}

(* Nobody becomes a member of this device's group by a code, and this      *)
(* device of no other's, unless the user said yes while the question about *)
(* that very attempt was on the screen: an answer that comes late is not   *)
(* taken for the next question (ask, answer, control::run).                *)
AnswersMatch == \A n \in joined.in : joined.all[n] # "invite" => n \in said

(* A closed dialog has no request going on that it has not cancelled, also *)
(* when subpages followed each other faster than their signals (cancel).   *)
ClosedCancelsAll ==
  ~page.open => \A f \in Flow : flow[f].started => flow[f].over \/ flow[f].leaving

(* Every request comes to an end.  Once a subpage is over, the service's   *)
(* task ends too, whatever it waits for, and until then the subpage comes  *)
(* to its last screen or to a question, whatever becomes of the service    *)
(* (start, handle, client_gone).                                           *)
RequestsEnd ==
  <>[]\A f \in Flow :
        flow[f].started => IF flow[f].over THEN ctl[f].at \in {"none", "ended"}
                           ELSE flow[f].screen = "ask"

(* Once the user was told that a device joined or was removed, the page    *)
(* shows no report from before that; only the probe of the switch may      *)
(* bring one (refresh, again).                                             *)
NotStale == page.shown.up => page.shown.v >= page.told \/ page.by = "switch"

(* The page and its switch come to tell what the service is, unless every  *)
(* report is dropped for the one after it: a tick, every 5 s, during a     *)
(* request, of up to 10 s, drops its answer and asks again (refresh,       *)
(* REFRESH_SECS, REQUEST_TIMEOUT).                                         *)
AlwaysOvertaken == <>[]page.probing /\ []<>page.again /\ []<>~page.again

PageSettles ==
  \/ AlwaysOvertaken
  \/ <>[](page.open /\ left.ticks => page.switch = (service.at = "up")
                       /\ (service.at = "up" => page.shown = Status))

(* What the protocol says of a closed connection: no window stays open     *)
(* without the client that asked for it.                                   *)
WindowHasClient ==
  \A f \in Flow : service.window = f => ctl[f].at \in {"loop", "asking"}
=============================================================================
