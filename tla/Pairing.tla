------------------------------ MODULE Pairing -------------------------------
(* The pairing window of a device that invites others. Control clients     *)
(* open and close it; connections of joining devices run the pairing       *)
(* protocol in it, one at a time. The mutex around the slot, the window    *)
(* epoch and the try_lock of close_window have to work together            *)
(* (panora-sync: node.rs, control.rs, pairing.rs, invite.rs).              *)
(* The runtime has several threads: tasks interleave between any two       *)
(* accesses that no lock joins. What the group does with the new device is *)
(* SyncGroup's; here it takes the device or does not.                      *)
EXTENDS Naturals, Sequences, FiniteSets

CONSTANTS
  Client,                   \* connections to the control socket
  Conn,                     \* connections of joining devices
  None,
  MAX_CODE_ATTEMPTS, MAX_INVITATION_ATTEMPTS

Mode == {"invitation", "code"}

Slot == [id : Nat, mode : Mode, attempts : Nat, closed : BOOLEAN, expired : BOOLEAN]

ASSUME PairingAssumption ==
  /\ Client \cap Conn = {}
  /\ None \notin Client \cup Conn \cup Slot
  /\ MAX_CODE_ATTEMPTS \in Nat /\ MAX_INVITATION_ATTEMPTS \in Nat

VARIABLES
  window_epoch,
  slot,          \* the PairingSlot, named by the epoch that opened it
  holder,        \* the connection that holds the mutex around the slot
  queue,         \* who waits for it, first come first served
  client,        \* the control connections
  conn,          \* this device's side of each pairing connection
  cancelled,     \* history: pairings a change of the window met in time
  welcomed       \* history: pairings that sent a welcome

winVars == <<window_epoch, slot, holder, queue>>
vars == <<winVars, client, conn, cancelled, welcomed>>

ClientStep ==
  {"idle", "bumped", "opening", "opened", "listening", "closing", "clearing", "done"}

ControlClient ==
  [pc : ClientStep,
   mode : Mode, epoch : Nat,
   inbox : Seq(Conn \cup {None}),      \* questions, and None for Joined
   asked : Conn \cup {None}]           \* the question its user sees

PairingStep ==
  {"none", "loaded", "queued", "granted", "refusing", "offered", "pending",
   "accepted", "approved", "welcoming", "admitted", "failed", "keeping",
   "finished", "ended"}

Pairing ==
  [pc : PairingStep,
   secret : Nat,                       \* the invitation it holds, or 0
   epoch : Nat,                        \* the window epoch it has loaded
   window : Nat]                       \* the window it was offered a key in, or 0

(* The steps between taking the mutex and giving it back. *)
Locked == {"granted", "refusing", "offered", "pending", "accepted", "approved",
           "welcoming", "admitted", "failed", "keeping", "finished"}

(* The types, and who holds the mutex: exactly the pairing in such a step. *)
TypeOK ==
  /\ window_epoch \in Nat
  /\ slot \in Slot \cup {None}
  /\ holder \in Conn \cup {None}
  /\ queue \in Seq(Client \cup Conn)
  /\ client \in [Client -> ControlClient]
  /\ conn \in [Conn -> Pairing]
  /\ cancelled \subseteq Conn /\ welcomed \subseteq Conn
  /\ \A k \in Conn : holder = k <=> conn[k].pc \in Locked

Init ==
  /\ window_epoch = 0 /\ slot = None /\ holder = None /\ queue = <<>>
  /\ client = [c \in Client |->
       [pc |-> "idle", mode |-> "code", epoch |-> 0, inbox |-> <<>>, asked |-> None]]
  /\ conn = [k \in Conn |->
       [pc |-> "none", secret |-> 0, epoch |-> 0, window |-> 0]]
  /\ cancelled = {} /\ welcomed = {}

-----------------------------------------------------------------------------
(* PairingWindow *)
max_attempts(w) ==
  IF w.mode = "code" THEN MAX_CODE_ATTEMPTS ELSE MAX_INVITATION_ATTEMPTS

is_live(w) == ~w.closed /\ ~w.expired

is_open(w) == is_live(w) /\ w.attempts < max_attempts(w)

(* close forgets the invitation, which is what tells the modes apart. *)
close(w) == [w EXCEPT !.closed = TRUE, !.mode = "code"]

(* The deadline passes. *)
Expire ==
  /\ slot # None /\ ~slot.expired
  /\ slot' = [slot EXCEPT !.expired = TRUE]
  /\ UNCHANGED <<window_epoch, holder, queue, client, conn, cancelled, welcomed>>

-----------------------------------------------------------------------------
(* A control client: Request::Invite and Request::Pair. *)
Set(c, pc) == client' = [client EXCEPT ![c].pc = pc]

(* The pairings a bump is in time for: they have loaded the epoch and will *)
(* compare it once more.                                                   *)
InTime == {k \in Conn : conn[k].pc \in
             {"loaded", "queued", "granted", "offered", "pending", "accepted"}}

(* The wake-up of a pairing that waits for its user is in PairingFails. *)
bump_window ==
  /\ window_epoch' = window_epoch + 1
  /\ cancelled' = cancelled \cup InTime

OpenBump(c, mode) ==
  /\ client[c].pc = "idle"
  /\ bump_window
  /\ client' = [client EXCEPT ![c] =
       [@ EXCEPT !.pc = "bumped", !.mode = mode, !.epoch = window_epoch + 1]]
  /\ UNCHANGED <<slot, holder, queue, conn, welcomed>>

OpenLock(c) ==
  /\ client[c].pc = "bumped"
  /\ queue' = Append(queue, c)
  /\ Set(c, "opening")
  /\ UNCHANGED <<window_epoch, slot, holder, conn, cancelled, welcomed>>

(* The mutex is fair. *)
MayTake(x) == holder = None /\ queue # <<>> /\ Head(queue) = x

Install(c) ==
  /\ client[c].pc = "opening" /\ MayTake(c)
  /\ queue' = Tail(queue)
  /\ slot' = [id |-> client[c].epoch, mode |-> client[c].mode, attempts |-> 0,
              closed |-> FALSE, expired |-> FALSE]
  /\ Set(c, "opened")
  /\ UNCHANGED <<window_epoch, holder, conn, cancelled, welcomed>>

(* The link, or that it listens, is written to the client; if that fails   *)
(* the window stays open without it.                                       *)
ShowWindow(c, written) ==
  /\ client[c].pc = "opened"
  /\ Set(c, IF written THEN "listening" ELSE "done")
  /\ UNCHANGED <<winVars, conn, cancelled, welcomed>>

(* Its channel takes events. *)
Owns(c, w) == client[c].epoch = w.id /\ client[c].pc \in {"opened", "listening"}

(* The client's loop over the events of its window. *)
Listening(c) == client[c].pc = "listening" /\ client[c].asked = None

ShowRequest(c) ==
  /\ Listening(c) /\ client[c].inbox # <<>>
  /\ LET event == Head(client[c].inbox)
     IN  client' = [client EXCEPT
           ![c].inbox = Tail(@),
           ![c].asked = event,
           ![c].pc = IF event = None THEN "done" ELSE @]
  /\ UNCHANGED <<winVars, conn, cancelled, welcomed>>

(* The answer goes to the pairing that asked, if it still waits; that of a *)
(* client that has gone away is no.                                        *)
AnswerRequest(c, answer) ==
  /\ client[c].pc = "listening" /\ client[c].asked # None
  /\ LET k == client[c].asked
     IN  conn' = [conn EXCEPT ![k].pc =
           IF @ = "pending" THEN answer ELSE @]
  /\ client' = [client EXCEPT ![c].asked = None]
  /\ UNCHANGED <<winVars, cancelled, welcomed>>

(* The client goes away, its window's time is up or its channel ends:      *)
(* close_window compares, bumps and tries the mutex.                       *)
CloseCheck(c) ==
  /\ Listening(c)
  /\ Set(c, IF window_epoch = client[c].epoch THEN "closing" ELSE "done")
  /\ UNCHANGED <<winVars, conn, cancelled, welcomed>>

CloseBump(c) ==
  /\ client[c].pc = "closing"
  /\ bump_window
  /\ Set(c, "clearing")
  /\ UNCHANGED <<slot, holder, queue, conn, welcomed>>

CloseClear(c) ==
  /\ client[c].pc = "clearing"
  /\ slot' = IF holder = None /\ queue = <<>> THEN None ELSE slot
  /\ Set(c, "done")
  /\ UNCHANGED <<window_epoch, holder, queue, conn, cancelled, welcomed>>

-----------------------------------------------------------------------------
(* A connection at the inviting device (answer_pairing, run_inviter).      *)
Turn(k, pc) == conn' = [conn EXCEPT ![k].pc = pc]

(* A joiner's commitment arrives: without an invitation, or with the       *)
(* secret of one that has been shown.                                      *)
Secrets ==
  {0} \cup {client[c].epoch : c \in {e \in Client : client[e].mode = "invitation" /\
             client[e].pc \in {"opened", "listening", "closing", "clearing", "done"}}}

(* The epoch is loaded once the commitment is in. *)
Commit(k, secret) ==
  /\ conn[k].pc = "none"
  /\ conn' = [conn EXCEPT ![k] =
       [@ EXCEPT !.pc = "loaded", !.secret = secret, !.epoch = window_epoch]]
  /\ UNCHANGED <<winVars, client, cancelled, welcomed>>

Lock(k) ==
  /\ conn[k].pc = "loaded"
  /\ queue' = Append(queue, k)
  /\ Turn(k, "queued")
  /\ UNCHANGED <<window_epoch, slot, holder, client, cancelled, welcomed>>

(* Mutant: its place in the queue is kept. *)
LockTimeout_Queued(k) ==
  /\ conn[k].pc = "queued"
  /\ Turn(k, "ended")
  /\ UNCHANGED <<winVars, client, cancelled, welcomed>>

(* After STEP_TIMEOUT: dropping the future leaves the queue. *)
LockTimeout(k) ==
  /\ conn[k].pc = "queued"
  /\ \E i \in DOMAIN queue :
       /\ queue[i] = k
       /\ queue' = SubSeq(queue, 1, i - 1) \o SubSeq(queue, i + 1, Len(queue))
  /\ Turn(k, "ended")
  /\ UNCHANGED <<window_epoch, slot, holder, client, cancelled, welcomed>>

Grant(k) ==
  /\ conn[k].pc = "queued" /\ MayTake(k)
  /\ holder' = k
  /\ queue' = Tail(queue)
  /\ Turn(k, "granted")
  /\ UNCHANGED <<window_epoch, slot, client, cancelled, welcomed>>

(* No window: the answer is written with the mutex held. *)
Refuse(k) ==
  /\ conn[k].pc = "granted" /\ slot = None
  /\ Turn(k, "refusing")
  /\ UNCHANGED <<winVars, client, cancelled, welcomed>>

RefuseWritten(k) ==
  /\ conn[k].pc = "refusing"
  /\ holder' = None
  /\ Turn(k, "ended")
  /\ UNCHANGED <<window_epoch, slot, queue, client, cancelled, welcomed>>

(* The mode of the window and, for an invitation, its secret. *)
check_commit(w, k) ==
  IF w.mode = "invitation" THEN conn[k].secret = w.id ELSE conn[k].secret = 0

(* Not a device for this window: the mutex is given back at once. *)
TurnAway(k) ==
  /\ conn[k].pc = "granted"
  /\ slot # None /\ ~check_commit(slot, k)
  /\ holder' = None
  /\ Turn(k, "ended")
  /\ UNCHANGED <<window_epoch, slot, queue, client, cancelled, welcomed>>

(* Inviter::new, begin and on_commit: an attempt is spent and the offer    *)
(* goes out, unless this device has left its group since.                  *)
Begin(k, member) ==
  /\ conn[k].pc = "granted"
  /\ slot # None /\ check_commit(slot, k)
  /\ IF member /\ is_open(slot)
     THEN /\ slot' = [slot EXCEPT !.attempts = @ + 1]
          /\ conn' = [conn EXCEPT ![k] = [@ EXCEPT !.pc = "offered", !.window = slot.id]]
     ELSE /\ Turn(k, "failed")
          /\ UNCHANGED slot
  /\ UNCHANGED <<window_epoch, holder, queue, client, cancelled, welcomed>>

(* Mutant: the epoch is not compared again. *)
SameEpoch_Never(k) == TRUE

SameEpoch(k) == window_epoch = conn[k].epoch

(* The reveal and the sealed introduction are in. Holding an invitation is *)
(* enough; in code mode the window's user is asked, and one who has left   *)
(* says no.                                                                *)
on_join(k) ==
  /\ conn[k].pc = "offered"
  /\ LET owners == {c \in Client : Owns(c, slot)}
     IN  IF slot.mode = "invitation"
         THEN /\ Turn(k, IF SameEpoch(k) THEN "approved" ELSE "failed")
              /\ UNCHANGED client
         ELSE /\ Turn(k, IF owners = {} THEN "failed" ELSE "pending")
              /\ client' = [c \in Client |-> IF c \in owners
                   THEN [client[c] EXCEPT !.inbox = Append(@, k)] ELSE client[c]]
  /\ UNCHANGED <<winVars, cancelled, welcomed>>

(* The select sees the answer. *)
Answered(k) ==
  /\ conn[k].pc = "accepted"
  /\ Turn(k, IF SameEpoch(k) THEN "approved" ELSE "failed")
  /\ UNCHANGED <<winVars, client, cancelled, welcomed>>

(* Mutant: the window is closed once the pairing has succeeded. *)
approve_Open(k) ==
  /\ conn[k].pc = "approved" /\ is_live(slot)
  /\ Turn(k, "welcoming")
  /\ welcomed' = welcomed \cup {k}
  /\ UNCHANGED <<winVars, client, cancelled>>

(* approve, on a copy of the group: the welcome is on its way. *)
approve(k) ==
  /\ conn[k].pc = "approved" /\ is_live(slot)
  /\ slot' = close(slot)
  /\ Turn(k, "welcoming")
  /\ welcomed' = welcomed \cup {k}
  /\ UNCHANGED <<window_epoch, holder, queue, client, cancelled>>

(* The welcome is out: the group keeps the new device, or it went away or  *)
(* has changed and does not take it.                                       *)
Admit(k, ok) ==
  /\ conn[k].pc = "welcoming"
  /\ Turn(k, IF ok THEN "admitted" ELSE "failed")
  /\ UNCHANGED <<winVars, client, cancelled, welcomed>>

(* A step, a write, the user or the whole pairing takes too long, a bump   *)
(* wakes a pairing that waits for its user, the stream ends, a message is  *)
(* wrong, or the group cannot take the device.                             *)
PairingFails(k) ==
  /\ conn[k].pc \in {"offered", "pending", "accepted", "approved", "welcoming"}
  /\ Turn(k, "failed")
  /\ UNCHANGED <<winVars, client, cancelled, welcomed>>

(* Whether the window is done with is decided first, then acted on. *)
Judge(k) ==
  /\ conn[k].pc \in {"admitted", "failed"}
  /\ Turn(k, IF conn[k].pc = "admitted" \/ ~is_open(slot) \/ ~SameEpoch(k)
             THEN "finished" ELSE "keeping")
  /\ client' = [c \in Client |->
       IF conn[k].pc = "admitted" /\ Owns(c, slot)
       THEN [client[c] EXCEPT !.inbox = Append(@, None)] ELSE client[c]]
  /\ UNCHANGED <<winVars, cancelled, welcomed>>

Release(k) ==
  /\ conn[k].pc \in {"keeping", "finished"}
  /\ slot' = IF conn[k].pc = "finished" THEN None ELSE slot
  /\ holder' = None
  /\ Turn(k, "ended")
  /\ UNCHANGED <<window_epoch, queue, client, cancelled, welcomed>>

-----------------------------------------------------------------------------
OpenNext(c) == OpenLock(c) \/ Install(c)

ClientNext(c) ==
  \/ \E mode \in Mode : OpenBump(c, mode)
  \/ \E written \in BOOLEAN : ShowWindow(c, written)
  \/ ShowRequest(c)
  \/ \E answer \in {"accepted", "failed"} : AnswerRequest(c, answer)
  \/ CloseCheck(c) \/ CloseBump(c) \/ CloseClear(c)

InviterNext(k) ==
  \/ Lock(k) \/ LockTimeout(k) \/ Grant(k)
  \/ Refuse(k) \/ RefuseWritten(k) \/ TurnAway(k)
  \/ \E member \in BOOLEAN : Begin(k, member)
  \/ on_join(k) \/ Answered(k) \/ approve(k)
  \/ \E ok \in BOOLEAN : Admit(k, ok)
  \/ PairingFails(k) \/ Judge(k) \/ Release(k)

Next ==
  \/ \E c \in Client : OpenNext(c) \/ ClientNext(c)
  \/ \E k \in Conn : InviterNext(k) \/ \E secret \in Secrets : Commit(k, secret)
  \/ Expire

Spec == Init /\ [][Next]_vars

-----------------------------------------------------------------------------
(* A pairing that had loaded the epoch when its window was closed, or      *)
(* another one opened, and had still to compare it, welcomes nobody,       *)
(* however its messages, the mutex and its user's answer interleave        *)
(* (close_window, window_epoch, answer_pairing).                           *)
CancelledNeverAdmits == cancelled \cap welcomed = {}

(* An invitation works once and a code window pairs one device, also when  *)
(* the pairing fails after the welcome has gone out (PairingWindow,        *)
(* approve).                                                               *)
AdmitsOnce ==
  \A k, l \in welcomed : conn[k].window = conn[l].window => k = l

(* A window offers a key to no more devices than its mode allows, however  *)
(* those pairings end: this bounds the guesses at a code (begin).          *)
AttemptsBounded ==
  \A c \in Client : client[c].epoch # 0 =>
    Cardinality({k \in Conn : conn[k].window = client[c].epoch}) <= max_attempts(client[c])

(* The mutex never goes lost: whoever holds it can go on without waiting   *)
(* for a user, a client or a joining device (waits under it have a         *)
(* timeout, writes end with their connection at the latest), and a free    *)
(* one can go to the first that waits. A pairing takes no step twice, so   *)
(* opening a window takes a bounded number of them (open_window,           *)
(* answer_pairing).                                                        *)
MutexGoesOn ==
  IF holder # None
  THEN ENABLED \/ Refuse(holder) \/ RefuseWritten(holder) \/ TurnAway(holder)
               \/ \E member \in BOOLEAN : Begin(holder, member)
               \/ PairingFails(holder) \/ Judge(holder) \/ Release(holder)
  ELSE queue # <<>> =>
         ENABLED \/ Head(queue) \in Client /\ Install(Head(queue))
                 \/ Head(queue) \in Conn /\ Grant(Head(queue))
=============================================================================
