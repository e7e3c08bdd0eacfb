------------------------------ MODULE Transfer ------------------------------
(***************************************************************************)
(* Payloads on their way between panod and another client of the display.  *)
(*                                                                         *)
(* Serving: after a recall a thread of panod owns the selection and        *)
(* answers whoever pastes.  On X11 a large payload goes in chunks through  *)
(* a property of the requestor's window (INCR): the requestor deletes the  *)
(* property, the owner hears of it and writes the next chunk, an empty one *)
(* ends the transfer.  A requestor may have several properties at work, it *)
(* may stop for a while, leave, and ask again with the same property.  On  *)
(* Wayland every request is a pipe with a writer thread of its own.        *)
(***************************************************************************)
EXTENDS Integers, Sequences

CONSTANTS
    Keys,         \* the <<window, property>> pairs requestors use
    Chunks,       \* chunks of a payload above INCR_THRESHOLD
    MaxAsks,      \* bound: requests, of all requestors together
    MaxStalls,    \* bound: times a requestor stops for a while
    Displays      \* the displays to look at

ASSUME ChunksAssumption == Chunks \in Nat

VARIABLES
    display,      \* "x11" or "wayland"
    inbox,        \* events of the owner thread, in the order of the server
    incr,         \* Owner::incr (the writers): chunks sent, or -1
    stale,        \* transfers idle for longer than the timeout
    watching,     \* requestors whose PropertyNotify we receive
    serving,      \* the owner thread runs
    prop,         \* the property of each request, or what its pipe holds
    req,          \* what each requestor is at
    asks, stalls

pasteVars == <<display, inbox, incr, stale, watching, serving, prop, req, asks, stalls>>

Requestors == {k[1] : k \in Keys}

-----------------------------------------------------------------------------
(* The requestors: applications that paste.                                *)

\* Deleting a property is heard by an owner that selected for it.
Deleted(k) ==
    /\ prop' = [prop EXCEPT ![k] = <<>>]
    /\ inbox' = IF prop[k] # <<>> /\ k[1] \in watching
                THEN Append(inbox, [kind |-> "deleted", key |-> k]) ELSE inbox

Ask(k) ==
    /\ req[k].at \in {"idle", "whole", "left"} /\ asks < MaxAsks
    /\ req' = [req EXCEPT ![k] = [at |-> "asking", got |-> 0, slow |-> FALSE]]
    /\ asks' = asks + 1
    /\ IF display = "x11" THEN Deleted(k)
       ELSE prop' = [prop EXCEPT ![k] = <<>>] /\ UNCHANGED inbox
    /\ UNCHANGED <<display, incr, stale, watching, serving, stalls>>

\* ConvertSelection, or `receive`, reaches the owner, while there is one.
Asked(k) ==
    /\ req[k].at = "asking" /\ (display = "wayland" => incr[k] = -1)
    /\ req' = [req EXCEPT ![k].at = IF serving THEN "asked" ELSE "left"]
    /\ inbox' = IF serving THEN Append(inbox, [kind |-> "request", key |-> k]) ELSE inbox
    /\ UNCHANGED <<display, incr, stale, watching, serving, prop, asks, stalls>>

\* What a requestor makes of what it reads: a chunk out of order spoils it.
Reads(p, r) ==
    CASE Head(p) = "end" -> [r EXCEPT !.at = "whole"]
      [] Head(p) = "all" -> [r EXCEPT !.at = "whole", !.got = Chunks]
      [] Head(p) = "incr" -> r
      [] OTHER -> [r EXCEPT !.got = IF p[2] = @ + 1 THEN @ + 1 ELSE -1]

\* The requestor reads what is there and deletes it.
Receive(k) ==
    /\ req[k].at = "reading" /\ prop[k] # <<>>
    /\ req' = [req EXCEPT ![k] = Reads(prop[k], @)]
    /\ IF display = "x11" THEN Deleted(k)
       ELSE prop' = [prop EXCEPT ![k] = <<>>] /\ UNCHANGED inbox
    /\ UNCHANGED <<display, incr, stale, watching, serving, asks, stalls>>

Leave(k) ==
    /\ req[k].at = "reading" /\ stalls < MaxStalls /\ stalls' = stalls + 1
    /\ req' = [req EXCEPT ![k].at = "left"]
    /\ UNCHANGED <<display, inbox, incr, stale, watching, serving, prop, asks>>

\* INCR_TIMEOUT, or RECEIVE_TIMEOUT, goes by without a sign of it.
Stall(k) ==
    /\ incr[k] >= 0 /\ k \notin stale /\ stalls < MaxStalls /\ stalls' = stalls + 1
    /\ stale' = stale \cup {k}
    /\ req' = [req EXCEPT ![k].slow = TRUE]
    /\ UNCHANGED <<display, inbox, incr, watching, serving, prop, asks>>

\* Another client takes the selection.
Lose ==
    /\ serving /\ \A i \in DOMAIN inbox : inbox[i].kind # "clear"
    /\ inbox' = Append(inbox, [kind |-> "clear"])
    /\ UNCHANGED <<display, incr, stale, watching, serving, prop, req, asks, stalls>>

-----------------------------------------------------------------------------
(* The owner thread on X11.                                                *)

\* stop_watching_if_idle: a requestor may pull several targets at once.
StopWatching(w, table, r) ==
    IF \E k \in Keys : k[1] = r /\ table[k] >= 0 THEN w ELSE w \ {r}

\* expire_stalled_transfers, which runs before every event is handled.
Expired_Window == [k \in Keys |-> IF \E j \in stale : j[1] = k[1] THEN -1 ELSE incr[k]]
Expired == [k \in Keys |-> IF k \in stale THEN -1 ELSE incr[k]]
StillWatching ==
    {r \in watching : \/ \A k \in stale : k[1] # r
                      \/ \E k \in Keys : k[1] = r /\ Expired[k] >= 0}

\* A transfer begins at its first byte, also in place of an abandoned one.
Started_Once(table, k) == IF table[k] >= 0 THEN table ELSE [table EXCEPT ![k] = 0]
Started(table, k) == [table EXCEPT ![k] = 0]

\* Owner::answer: unknown targets are refused, small payloads written as
\* they are, large ones announced.
Answer ==
    /\ display = "x11" /\ serving /\ inbox # <<>> /\ Head(inbox).kind = "request"
    /\ inbox' = Tail(inbox) /\ stale' = {}
    /\ LET k == Head(inbox).key IN
       \/ /\ req' = [req EXCEPT ![k].at = "left"]
          /\ incr' = Expired /\ watching' = StillWatching /\ UNCHANGED prop
       \/ /\ req' = [req EXCEPT ![k].at = "reading"] /\ prop' = [prop EXCEPT ![k] = <<"all">>]
          /\ incr' = Expired /\ watching' = StillWatching
       \/ /\ req' = [req EXCEPT ![k].at = "reading"] /\ prop' = [prop EXCEPT ![k] = <<"incr">>]
          /\ incr' = Started(Expired, k) /\ watching' = StillWatching \cup {k[1]}
    /\ UNCHANGED <<display, serving, asks, stalls>>

\* Nothing is left of the payload: the chunk is empty and ends the transfer.
IsEmpty(n) == n = Chunks

\* Owner::continue_incr: the next chunk, the empty one after the last.
continue_incr ==
    /\ display = "x11" /\ serving /\ inbox # <<>> /\ Head(inbox).kind = "deleted"
    /\ inbox' = Tail(inbox) /\ stale' = {}
    /\ LET k == Head(inbox).key
           n == Expired[k]
       IN  CASE n = -1 -> /\ incr' = Expired /\ watching' = StillWatching /\ UNCHANGED prop
             [] IsEmpty(n) -> /\ prop' = [prop EXCEPT ![k] = <<"end">>]
                              /\ incr' = [Expired EXCEPT ![k] = -1]
                              /\ watching' = StopWatching(StillWatching, incr', k[1])
             [] OTHER -> /\ prop' = [prop EXCEPT ![k] = <<"chunk", n + 1>>]
                         /\ incr' = [Expired EXCEPT ![k] = n + 1]
                         /\ watching' = StillWatching
    /\ UNCHANGED <<display, serving, req, asks, stalls>>

\* The selection is taken: the window goes, and every transfer with it.
SelectionClear ==
    /\ display = "x11" /\ serving /\ inbox # <<>> /\ Head(inbox).kind = "clear"
    /\ serving' = FALSE /\ inbox' = <<>> /\ watching' = {} /\ stale' = {}
    /\ incr' = [k \in Keys |-> -1]
    /\ UNCHANGED <<display, prop, req, asks, stalls>>

-----------------------------------------------------------------------------
(* The owner on Wayland: the dispatch loop and one writer per request.     *)

\* serve_source hands a request to a writer; a format we do not have gets an
\* empty pipe.  `Cancelled` ends the loop, the writers go on.
ServeSource ==
    /\ display = "wayland" /\ serving /\ inbox # <<>>
    /\ inbox' = Tail(inbox)
    /\ LET e == Head(inbox) IN
       IF e.kind = "clear"
       THEN serving' = FALSE /\ UNCHANGED <<incr, prop, req>>
       ELSE /\ prop' = [prop EXCEPT ![e.key] = <<>>] /\ UNCHANGED serving
            /\ \/ req' = [req EXCEPT ![e.key].at = "left"] /\ UNCHANGED incr
               \/ /\ req' = [req EXCEPT ![e.key].at = "reading"]
                  /\ incr' = [incr EXCEPT ![e.key] = 0]
    /\ UNCHANGED <<display, stale, watching, asks, stalls>>

\* write_pipe: the next bytes when there is room, the end of the pipe after
\* the last, or when the reader stopped or left.
WritePipe(k) ==
    /\ display = "wayland" /\ incr[k] >= 0
    /\ LET over == k \in stale \/ req[k].at # "reading"
       IN  /\ over \/ prop[k] = <<>>
           /\ incr' = [incr EXCEPT ![k] = IF over \/ @ = Chunks THEN -1 ELSE @ + 1]
           /\ prop' = [prop EXCEPT ![k] =
                          IF over /\ @ # <<>> THEN @
                          ELSE IF over \/ incr[k] = Chunks THEN <<"end">>
                          ELSE <<"chunk", incr[k] + 1>>]
    /\ stale' = stale \ {k}
    /\ UNCHANGED <<display, inbox, watching, serving, req, asks, stalls>>

-----------------------------------------------------------------------------
PasteInit ==
    /\ display \in Displays        \* "none": nothing is served
    /\ inbox = <<>> /\ stale = {} /\ watching = {} /\ serving = TRUE
    /\ incr = [k \in Keys |-> -1]
    /\ prop = [k \in Keys |-> <<>>]
    /\ req = [k \in Keys |-> [at |-> "idle", got |-> 0, slow |-> FALSE]]
    /\ asks = 0 /\ stalls = 0

PasteNext ==
    \/ \E k \in Keys : Ask(k) \/ Asked(k) \/ Receive(k) \/ Leave(k) \/ Stall(k) \/ WritePipe(k)
    \/ Lose \/ Answer \/ continue_incr \/ SelectionClear \/ ServeSource

\* The owner thread and its writers go on; a requestor that asked looks for
\* the answer, and reads what it is given as long as it does not leave.
PasteFairness ==
    /\ WF_pasteVars(Answer \/ continue_incr \/ SelectionClear) /\ WF_pasteVars(ServeSource)
    /\ \A k \in Keys : WF_pasteVars(Asked(k)) /\ WF_pasteVars(Receive(k)) /\ WF_pasteVars(WritePipe(k))

PasteSpec == PasteInit /\ [][PasteNext]_pasteVars /\ PasteFairness

-----------------------------------------------------------------------------
(* Properties.                                                             *)

\* Types of the state; a transfer exists only while its owner serves, except
\* for the writers on Wayland, which outlive it.
PasteTypeOK ==
    /\ inbox \in Seq([kind : {"request", "deleted"}, key : Keys] \cup [kind : {"clear"}])
    /\ incr \in [Keys -> -1 .. Chunks] /\ stale \subseteq Keys /\ watching \subseteq Requestors
    /\ req \in [Keys -> [at : {"idle", "asking", "asked", "reading", "whole", "left"},
                        got : -1 .. Chunks, slow : BOOLEAN]]
    /\ display = "x11" /\ ~serving => watching = {} /\ \A k \in Keys : incr[k] = -1

\* A requestor that pulls several targets at once is heard until the last of
\* them is through: nothing else would tell the owner to go on.
Watched == display = "x11" => \A k \in Keys : incr[k] >= 0 => k[1] \in watching

\* A paste that believes it is complete has every chunk, each once and in
\* order, whatever the same window asked for, abandoned and asked for again
\* on the same property.  Only the reader of a Wayland pipe that stopped for
\* RECEIVE_TIMEOUT takes the end of the pipe for the end of the payload.
WholeOrNothing ==
    \A k \in Keys : req[k].at = "whole" /\ ~(display = "wayland" /\ req[k].slow)
                      => req[k].got = Chunks

\* A requestor that keeps reading is served to the end, with other transfers
\* of the same and of other windows between, unless the selection is taken.
Delivered ==
    <>[]\A k \in Keys : req[k].at \in {"asked", "reading"} => req[k].slow \/ ~serving
=============================================================================
