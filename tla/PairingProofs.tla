---------------------------- MODULE PairingProofs ---------------------------
(* For any number of control clients and connections: a pairing that a     *)
(* change of the window met in time welcomes nobody, a window welcomes at  *)
(* most one device, and is offered to no more than its mode allows.        *)
(*                                                                         *)
(* The argument: only the holder of the mutex is inside a window, so the   *)
(* slot it began in is the slot it ends in; a window is installed at most  *)
(* once, because its number is the epoch that a client alone bumped to; a  *)
(* welcome closes the slot; and an epoch loaded before a bump stays        *)
(* smaller than the window's.                                              *)
EXTENDS Pairing, FiniteSetTheorems, SequenceTheorems, TLAPS

(* The steps of a pairing inside its window, and those after a welcome. *)
Inside == {"offered", "pending", "accepted", "approved", "welcoming"}
After == {"welcoming", "admitted", "failed", "keeping", "finished", "ended"}

InWindow ==
  \A k \in Conn : conn[k].pc \in Inside => slot # None /\ slot.id = conn[k].window

(* No number is ahead of the epoch. *)
NumbersBelow ==
  /\ \A c \in Client : client[c].epoch <= window_epoch
  /\ slot # None => slot.id <= window_epoch
  /\ \A k \in Conn : conn[k].window <= window_epoch /\ conn[k].epoch <= window_epoch

(* The number of a window that is still to be installed is nobody else's. *)
NumbersFresh ==
  \A c \in Client : client[c].pc \in {"bumped", "opening"} =>
    /\ slot # None => slot.id # client[c].epoch
    /\ \A k \in Conn : conn[k].window # client[c].epoch
    /\ \A d \in Client \ {c} : client[d].epoch # client[c].epoch

WelcomeCloses ==
  \A k \in welcomed :
    /\ conn[k].pc \in After
    /\ slot # None /\ slot.id = conn[k].window => slot.closed

CancelledIsLate ==
  \A k \in cancelled :
    /\ k \notin welcomed
    /\ conn[k].epoch < window_epoch
    /\ conn[k].pc \notin {"none", "approved"}

Inv ==
  /\ TypeOK
  /\ InWindow
  /\ NumbersBelow
  /\ NumbersFresh
  /\ WelcomeCloses
  /\ CancelledIsLate
  /\ AdmitsOnce

-----------------------------------------------------------------------------
(* A step that neither opens nor enters a window, welcomes nobody and      *)
(* changes no number.                                                      *)
Waiting == {"bumped", "opening"}

Quiet ==
  /\ UNCHANGED <<window_epoch, cancelled, welcomed>>
  /\ \A c \in Client : /\ client'[c].epoch = client[c].epoch
                       /\ client'[c].pc \in Waiting => client[c].pc \in Waiting
  /\ \A k \in Conn : /\ conn'[k].window = conn[k].window
                     /\ conn'[k].epoch = conn[k].epoch
                     /\ conn'[k].pc \in Inside => conn[k].pc \in Inside
                     /\ conn[k].pc \in After => conn'[k].pc \in After
                     /\ conn'[k].pc = "none" => conn[k].pc = "none"
                     /\ conn'[k].pc = "approved" =>
                          conn[k].pc = "approved" \/ SameEpoch(k)
  /\ slot' # None => /\ slot # None
                     /\ slot'.id = slot.id /\ slot'.closed = slot.closed
  /\ slot # None /\ slot' = None => \A k \in Conn : conn'[k].pc \notin Inside

(* A quiet step keeps the invariant. *)
LEMMA QuietKeepsInv ==
  ASSUME Inv, TypeOK', Quiet
  PROVE  Inv'
<1> USE DEF Inv, TypeOK, Quiet
<1>1. InWindow'
  BY DEF InWindow
<1>2. NumbersBelow'
  BY DEF NumbersBelow
<1>3. NumbersFresh'
  BY DEF NumbersFresh, Waiting
<1>4. WelcomeCloses'
  BY DEF WelcomeCloses
<1>5. CancelledIsLate'
  BY DEF CancelledIsLate, SameEpoch, Pairing
<1>6. AdmitsOnce'
  BY DEF AdmitsOnce
<1> QED
  BY <1>1, <1>2, <1>3, <1>4, <1>5, <1>6

(* What a step of one connection changes. *)
LEMMA TurnIsLocal ==
  ASSUME conn \in [Conn -> Pairing], NEW k \in Conn, NEW pc \in PairingStep,
         Turn(k, pc)
  PROVE  /\ conn' \in [Conn -> Pairing]
         /\ \A l \in Conn :
              /\ conn'[l].pc = IF l = k THEN pc ELSE conn[l].pc
              /\ conn'[l].epoch = conn[l].epoch /\ conn'[l].window = conn[l].window
BY DEF Turn, Pairing

(* What a step of one client changes. *)
LEMMA SetIsLocal ==
  ASSUME client \in [Client -> ControlClient], NEW c \in Client, NEW pc \in ClientStep,
         Set(c, pc)
  PROVE  /\ client' \in [Client -> ControlClient]
         /\ \A d \in Client :
              /\ client'[d].pc = IF d = c THEN pc ELSE client[d].pc
              /\ client'[d].epoch = client[d].epoch
BY DEF Set, ControlClient

(* What an event for the clients changes. *)
LEMMA EventIsLocal ==
  ASSUME client \in [Client -> ControlClient], NEW e \in Conn \cup {None},
         NEW to \in SUBSET Client,
         client' = [c \in Client |-> IF c \in to
                      THEN [client[c] EXCEPT !.inbox = Append(@, e)] ELSE client[c]]
  PROVE  /\ client' \in [Client -> ControlClient]
         /\ \A d \in Client : client'[d].pc = client[d].pc
                              /\ client'[d].epoch = client[d].epoch
<1>1. \A c \in Client : Append(client[c].inbox, e) \in Seq(Conn \cup {None})
  BY DEF ControlClient
<1>2. \A c \in Client :
        /\ [client[c] EXCEPT !.inbox = Append(@, e)] \in ControlClient
        /\ [client[c] EXCEPT !.inbox = Append(@, e)].pc = client[c].pc
        /\ [client[c] EXCEPT !.inbox = Append(@, e)].epoch = client[c].epoch
  BY <1>1 DEF ControlClient
<1> QED
  BY <1>2

-----------------------------------------------------------------------------
(* There is no window: the answer is on its way. *)
LEMMA RefuseKeepsInv ==
  ASSUME Inv, NEW k \in Conn, Refuse(k)
  PROVE  Inv'
<1> USE PairingAssumption DEF Inv, TypeOK, Refuse, winVars
<1>1. "refusing" \in PairingStep /\ Turn(k, "refusing")
  BY DEF Refuse, PairingStep
<1>2. TypeOK'
  BY <1>1, TurnIsLocal DEF Locked
<1>3. Quiet
  BY <1>1, TurnIsLocal DEF Quiet, Inside, After, Waiting, InWindow
<1> QED
  BY <1>2, <1>3, QuietKeepsInv

(* The answer is written and the mutex given back. *)
LEMMA RefuseWrittenKeepsInv ==
  ASSUME Inv, NEW k \in Conn, RefuseWritten(k)
  PROVE  Inv'
<1> USE PairingAssumption DEF Inv, TypeOK, RefuseWritten
<1>1. "ended" \in PairingStep /\ Turn(k, "ended")
  BY DEF RefuseWritten, PairingStep
<1>2. TypeOK'
  BY <1>1, TurnIsLocal DEF Locked
<1>3. Quiet
  BY <1>1, TurnIsLocal DEF Quiet, Inside, After, Waiting, InWindow
<1> QED
  BY <1>2, <1>3, QuietKeepsInv

(* A device the window is not for. *)
LEMMA TurnAwayKeepsInv ==
  ASSUME Inv, NEW k \in Conn, TurnAway(k)
  PROVE  Inv'
<1> USE PairingAssumption DEF Inv, TypeOK, TurnAway
<1>1. "ended" \in PairingStep /\ Turn(k, "ended")
  BY DEF TurnAway, PairingStep
<1>2. TypeOK'
  BY <1>1, TurnIsLocal DEF Locked
<1>3. Quiet
  BY <1>1, TurnIsLocal DEF Quiet, Inside, After, Waiting, InWindow
<1> QED
  BY <1>2, <1>3, QuietKeepsInv

(* The user said yes: approved only under the same epoch. *)
LEMMA AnsweredKeepsInv ==
  ASSUME Inv, NEW k \in Conn, Answered(k)
  PROVE  Inv'
<1> USE PairingAssumption DEF Inv, TypeOK, Answered, winVars
<1>1. PICK pc \in PairingStep : Turn(k, pc) /\ pc \in {"approved", "failed"}
                              /\ (pc = "approved" => SameEpoch(k))
  BY DEF Answered, PairingStep
<1>2. TypeOK'
  BY <1>1, TurnIsLocal DEF Locked
<1>3. Quiet
  BY <1>1, TurnIsLocal DEF Quiet, Inside, After, Waiting, InWindow
<1> QED
  BY <1>2, <1>3, QuietKeepsInv

(* A pairing inside its window fails. *)
LEMMA PairingFailsKeepsInv ==
  ASSUME Inv, NEW k \in Conn, PairingFails(k)
  PROVE  Inv'
<1> USE PairingAssumption DEF Inv, TypeOK, PairingFails, winVars
<1>1. "failed" \in PairingStep /\ Turn(k, "failed")
  BY DEF PairingFails, PairingStep
<1>2. TypeOK'
  BY <1>1, TurnIsLocal DEF Locked
<1>3. Quiet
  BY <1>1, TurnIsLocal DEF Quiet, Inside, After, Waiting, InWindow
<1> QED
  BY <1>2, <1>3, QuietKeepsInv

(* The mutex goes to the first that waits. *)
LEMMA GrantKeepsInv ==
  ASSUME Inv, NEW k \in Conn, Grant(k)
  PROVE  Inv'
<1> USE PairingAssumption DEF Inv, TypeOK, Grant, MayTake
<1>1. "granted" \in PairingStep /\ Turn(k, "granted")
  BY DEF Grant, PairingStep
<1>2. TypeOK'
  BY <1>1, TurnIsLocal DEF Locked
<1>3. Quiet
  BY <1>1, TurnIsLocal DEF Quiet, Inside, After, Waiting, InWindow
<1> QED
  BY <1>2, <1>3, QuietKeepsInv

(* A connection waits for the mutex. *)
LEMMA LockKeepsInv ==
  ASSUME Inv, NEW k \in Conn, Lock(k)
  PROVE  Inv'
<1> USE PairingAssumption DEF Inv, TypeOK, Lock
<1>1. "queued" \in PairingStep /\ Turn(k, "queued")
  BY DEF Lock, PairingStep
<1>2. TypeOK'
  BY <1>1, TurnIsLocal DEF Locked
<1>3. Quiet
  BY <1>1, TurnIsLocal DEF Quiet, Inside, After, Waiting, InWindow
<1> QED
  BY <1>2, <1>3, QuietKeepsInv

(* A connection waits no longer. *)
LEMMA LockTimeoutKeepsInv ==
  ASSUME Inv, NEW k \in Conn, LockTimeout(k)
  PROVE  Inv'
<1> USE PairingAssumption DEF Inv, TypeOK
<1>1. "ended" \in PairingStep /\ Turn(k, "ended")
  BY DEF LockTimeout, PairingStep
<1>2. queue' \in Seq(Client \cup Conn)
  <2>0. DOMAIN queue = 1..Len(queue)
    OBVIOUS
  <2>1. PICK i \in 1..Len(queue) :
          queue' = SubSeq(queue, 1, i - 1) \o SubSeq(queue, i + 1, Len(queue))
    BY <2>0 DEF LockTimeout
  <2>2. /\ SubSeq(queue, 1, i - 1) \in Seq(Client \cup Conn)
        /\ SubSeq(queue, i + 1, Len(queue)) \in Seq(Client \cup Conn)
    BY SubSeqProperties
  <2> QED
    BY <2>1, <2>2, ConcatProperties
<1>3. /\ conn[k].pc = "queued"
      /\ UNCHANGED <<window_epoch, slot, holder, client, cancelled, welcomed>>
  BY DEF LockTimeout
<1>4. TypeOK'
  BY <1>1, <1>2, <1>3, TurnIsLocal DEF Locked
<1>5. Quiet
  BY <1>1, <1>3, TurnIsLocal DEF Quiet, Inside, After
<1> QED
  BY <1>4, <1>5, QuietKeepsInv

(* The welcome is out. *)
LEMMA AdmitKeepsInv ==
  ASSUME Inv, NEW k \in Conn, NEW ok \in BOOLEAN, Admit(k, ok)
  PROVE  Inv'
<1> USE PairingAssumption DEF Inv, TypeOK, Admit, winVars
<1>1. PICK pc \in PairingStep : Turn(k, pc) /\ pc \in {"admitted", "failed"}
  BY DEF PairingStep
<1>2. TypeOK'
  BY <1>1, TurnIsLocal DEF Locked
<1>3. Quiet
  BY <1>1, TurnIsLocal DEF Quiet, Inside, After
<1> QED
  BY <1>2, <1>3, QuietKeepsInv

(* The introduction is in: approved only under the same epoch. *)
LEMMA OnJoinKeepsInv ==
  ASSUME Inv, NEW k \in Conn, on_join(k)
  PROVE  Inv'
<1> DEFINE owners == {c \in Client : Owns(c, slot)}
<1> USE PairingAssumption DEF Inv, TypeOK, winVars
<1>1. PICK pc \in PairingStep : /\ Turn(k, pc) /\ pc \in {"approved", "failed", "pending"}
                                /\ pc = "approved" => SameEpoch(k)
  BY DEF on_join, PairingStep
<1>2. /\ client' \in [Client -> ControlClient]
      /\ \A d \in Client : client'[d].pc = client[d].pc
                           /\ client'[d].epoch = client[d].epoch
  <2>1. CASE UNCHANGED client
    BY <2>1
  <2>2. CASE client' = [c \in Client |-> IF c \in owners
                THEN [client[c] EXCEPT !.inbox = Append(@, k)] ELSE client[c]]
    <3>1. owners \in SUBSET Client /\ k \in Conn \cup {None}
      OBVIOUS
    <3> HIDE DEF owners
    <3> QED
      BY <2>2, <3>1, EventIsLocal
  <2> QED
    BY <2>1, <2>2 DEF on_join
<1>3. /\ conn[k].pc = "offered"
      /\ UNCHANGED <<window_epoch, slot, holder, queue, cancelled, welcomed>>
  BY DEF on_join
<1>4. TypeOK'
  BY <1>1, <1>2, <1>3, TurnIsLocal DEF Locked
<1>5. Quiet
  BY <1>1, <1>2, <1>3, TurnIsLocal DEF Quiet, Inside, After
<1> QED
  BY <1>4, <1>5, QuietKeepsInv

(* Whether the window is done with. *)
LEMMA JudgeKeepsInv ==
  ASSUME Inv, NEW k \in Conn, Judge(k)
  PROVE  Inv'
<1> DEFINE to == {c \in Client : conn[k].pc = "admitted" /\ Owns(c, slot)}
<1> USE PairingAssumption DEF Inv, TypeOK, winVars
<1>1. PICK pc \in PairingStep : Turn(k, pc) /\ pc \in {"finished", "keeping"}
  BY DEF Judge, PairingStep
<1>2. /\ client' \in [Client -> ControlClient]
      /\ \A d \in Client : client'[d].pc = client[d].pc
                           /\ client'[d].epoch = client[d].epoch
  <2>1. client' = [c \in Client |-> IF c \in to
                THEN [client[c] EXCEPT !.inbox = Append(@, None)] ELSE client[c]]
    BY DEF Judge
  <2>2. to \in SUBSET Client /\ None \in Conn \cup {None}
    OBVIOUS
  <2> HIDE DEF to
  <2> QED
    BY <2>1, <2>2, EventIsLocal
<1>3. /\ conn[k].pc \in {"admitted", "failed"}
      /\ UNCHANGED <<window_epoch, slot, holder, queue, cancelled, welcomed>>
  BY DEF Judge
<1>4. TypeOK'
  BY <1>1, <1>2, <1>3, TurnIsLocal DEF Locked
<1>5. Quiet
  BY <1>1, <1>2, <1>3, TurnIsLocal DEF Quiet, Inside, After
<1> QED
  BY <1>4, <1>5, QuietKeepsInv

(* Only the holder was inside, so the slot can be cleared. *)
LEMMA ReleaseKeepsInv ==
  ASSUME Inv, NEW k \in Conn, Release(k)
  PROVE  Inv'
<1> USE PairingAssumption DEF Inv, TypeOK, Release
<1>1. "ended" \in PairingStep /\ Turn(k, "ended")
  BY DEF PairingStep
<1>2. TypeOK'
  BY <1>1, TurnIsLocal DEF Locked
<1>3. \A l \in Conn : conn'[l].pc \notin Inside
  BY <1>1, TurnIsLocal DEF Inside, Locked
<1>4. Quiet
  BY <1>1, <1>3, TurnIsLocal DEF Quiet, After
<1> QED
  BY <1>2, <1>4, QuietKeepsInv

-----------------------------------------------------------------------------
(* A client waits for the mutex. *)
LEMMA OpenLockKeepsInv ==
  ASSUME Inv, NEW c \in Client, OpenLock(c)
  PROVE  Inv'
<1> USE PairingAssumption DEF Inv, TypeOK, OpenLock
<1>1. "opening" \in ClientStep /\ Set(c, "opening")
  BY DEF ClientStep
<1>2. TypeOK'
  BY <1>1, SetIsLocal
<1>3. Quiet
  BY <1>1, SetIsLocal DEF Quiet, Waiting
<1> QED
  BY <1>2, <1>3, QuietKeepsInv

(* A client is told of its window, or is not there any more. *)
LEMMA ShowWindowKeepsInv ==
  ASSUME Inv, NEW c \in Client, NEW written \in BOOLEAN, ShowWindow(c, written)
  PROVE  Inv'
<1> USE PairingAssumption DEF Inv, TypeOK, ShowWindow, winVars
<1>1. PICK pc \in ClientStep : Set(c, pc) /\ pc \in {"listening", "done"}
  BY DEF ClientStep
<1>2. TypeOK'
  BY <1>1, SetIsLocal
<1>3. Quiet
  BY <1>1, SetIsLocal DEF Quiet, Waiting
<1> QED
  BY <1>2, <1>3, QuietKeepsInv

(* A client sees an event of its window. *)
LEMMA ShowRequestKeepsInv ==
  ASSUME Inv, NEW c \in Client, ShowRequest(c)
  PROVE  Inv'
<1> USE PairingAssumption DEF Inv, TypeOK, ShowRequest, Listening, winVars
<1>1. /\ client' \in [Client -> ControlClient]
      /\ \A d \in Client : /\ client'[d].epoch = client[d].epoch
                           /\ client'[d].pc \in Waiting => client[d].pc \in Waiting
  BY DEF ControlClient, ClientStep, Waiting
<1>2. TypeOK'
  BY <1>1
<1>3. Quiet
  BY <1>1 DEF Quiet
<1> QED
  BY <1>2, <1>3, QuietKeepsInv

(* The answer of a user. *)
LEMMA AnswerRequestKeepsInv ==
  ASSUME Inv, NEW c \in Client, NEW answer \in {"accepted", "failed"},
         AnswerRequest(c, answer)
  PROVE  Inv'
<1> USE PairingAssumption DEF Inv, TypeOK, winVars
<1> DEFINE k == client[c].asked
<1>1. k \in Conn
  BY DEF AnswerRequest, ControlClient
<1>2. PICK pc \in PairingStep :
        /\ conn' = [conn EXCEPT ![k].pc = pc]
        /\ \/ pc = conn[k].pc
           \/ conn[k].pc = "pending" /\ pc \in {"accepted", "failed"}
  <2>1. conn[k] \in Pairing /\ conn[k].pc \in PairingStep
    BY <1>1 DEF Pairing
  <2>2. conn' = [conn EXCEPT ![k].pc = IF conn[k].pc = "pending" THEN answer ELSE conn[k].pc]
    BY DEF AnswerRequest
  <2>3. CASE conn[k].pc = "pending"
    BY <2>2, <2>3 DEF PairingStep
  <2>4. CASE conn[k].pc # "pending"
    BY <2>1, <2>2, <2>4
  <2> QED
    BY <2>3, <2>4
<1>3. Turn(k, pc)
  BY <1>2 DEF Turn
<1>4. /\ client' \in [Client -> ControlClient]
      /\ \A d \in Client : client'[d].epoch = client[d].epoch
                           /\ client'[d].pc = client[d].pc
  BY DEF AnswerRequest, ControlClient
<1>5. UNCHANGED <<window_epoch, slot, holder, queue, cancelled, welcomed>>
  BY DEF AnswerRequest
<1> HIDE DEF k
<1>6. TypeOK'
  BY <1>1, <1>2, <1>3, <1>4, <1>5, TurnIsLocal DEF Locked
<1>7. Quiet
  BY <1>1, <1>2, <1>3, <1>4, <1>5, TurnIsLocal DEF Quiet, Inside, After
<1> QED
  BY <1>6, <1>7, QuietKeepsInv

(* close_window compares the epochs. *)
LEMMA CloseCheckKeepsInv ==
  ASSUME Inv, NEW c \in Client, CloseCheck(c)
  PROVE  Inv'
<1> USE PairingAssumption DEF Inv, TypeOK, CloseCheck, winVars
<1>1. PICK pc \in ClientStep : Set(c, pc) /\ pc \in {"closing", "done"}
  BY DEF ClientStep
<1>2. TypeOK'
  BY <1>1, SetIsLocal
<1>3. Quiet
  BY <1>1, SetIsLocal DEF Quiet, Waiting
<1> QED
  BY <1>2, <1>3, QuietKeepsInv

(* try_lock finds the mutex free, so nobody is inside, or leaves the slot. *)
LEMMA CloseClearKeepsInv ==
  ASSUME Inv, NEW c \in Client, CloseClear(c)
  PROVE  Inv'
<1> USE PairingAssumption DEF Inv, TypeOK, CloseClear
<1>1. "done" \in ClientStep /\ Set(c, "done")
  BY DEF ClientStep
<1>2. TypeOK'
  BY <1>1, SetIsLocal
<1>3. slot' = slot \/ \A k \in Conn : conn[k].pc \notin Inside
  BY DEF Inside, Locked
<1>4. Quiet
  BY <1>1, <1>3, SetIsLocal DEF Quiet, Waiting
<1> QED
  BY <1>2, <1>4, QuietKeepsInv

(* The deadline passes. *)
LEMMA ExpireKeepsInv ==
  ASSUME Inv, Expire
  PROVE  Inv'
<1> USE PairingAssumption DEF Inv, TypeOK, Expire
<1>1. slot' \in Slot /\ slot'.id = slot.id /\ slot'.closed = slot.closed
  BY DEF Slot
<1>2. TypeOK'
  BY <1>1
<1>3. Quiet
  BY <1>1 DEF Quiet
<1> QED
  BY <1>2, <1>3, QuietKeepsInv

(* A bump: every number it meets is below it, and a pairing it is in time  *)
(* for has an older epoch from then on.                                    *)
LEMMA BumpKeepsInv ==
  ASSUME Inv, bump_window, UNCHANGED <<slot, holder, queue, conn, welcomed>>,
         client' \in [Client -> ControlClient],
         NEW c \in Client,
         \A d \in Client \ {c} : client'[d] = client[d],
         \/ client'[c].epoch = window_epoch + 1
         \/ client'[c].epoch = client[c].epoch /\ client'[c].pc \notin Waiting
  PROVE  Inv'
<1> USE PairingAssumption DEF Inv, TypeOK, bump_window
<1>1. TypeOK'
  BY DEF InTime
<1>2. /\ \A d \in Client : client[d].epoch \in Nat /\ client'[d].epoch \in Nat
      /\ \A k \in Conn : conn[k].window \in Nat /\ conn[k].epoch \in Nat
      /\ slot # None => slot.id \in Nat
  BY DEF ControlClient, Pairing, Slot
<1>3. InWindow'
  BY DEF InWindow
<1>4. NumbersBelow'
  BY <1>2 DEF NumbersBelow
<1>5. NumbersFresh'
  BY <1>2 DEF NumbersFresh, NumbersBelow, Waiting
<1>6. WelcomeCloses'
  BY DEF WelcomeCloses
<1>7. CancelledIsLate'
  BY <1>2 DEF CancelledIsLate, NumbersBelow, WelcomeCloses, InTime, After
<1>8. AdmitsOnce'
  BY DEF AdmitsOnce
<1> QED
  BY <1>1, <1>3, <1>4, <1>5, <1>6, <1>7, <1>8

(* A client takes the next number for its window. *)
LEMMA OpenBumpKeepsInv ==
  ASSUME Inv, NEW c \in Client, NEW mode \in Mode, OpenBump(c, mode)
  PROVE  Inv'
<1>1. /\ client' \in [Client -> ControlClient]
      /\ \A d \in Client \ {c} : client'[d] = client[d]
      /\ client'[c].epoch = window_epoch + 1
  <2> DEFINE r == [client[c] EXCEPT !.pc = "bumped", !.mode = mode,
                                    !.epoch = window_epoch + 1]
  <2>1. client[c] \in ControlClient /\ window_epoch \in Nat
    BY DEF Inv, TypeOK
  <2>2. r \in ControlClient /\ r.epoch = window_epoch + 1
    <3> DEFINE q == [client[c] EXCEPT !.mode = mode]
    <3>1. q \in ControlClient
      BY <2>1 DEF ControlClient
    <3> DEFINE p == [q EXCEPT !.pc = "bumped"]
    <3>2. r = [p EXCEPT !.epoch = window_epoch + 1]
      BY <2>1 DEF ControlClient
    <3> HIDE DEF q
    <3>3. p \in ControlClient
      BY <3>1 DEF ControlClient, ClientStep
    <3> HIDE DEF p, r
    <3> QED
      BY <2>1, <3>2, <3>3 DEF ControlClient
  <2>3. client' = [client EXCEPT ![c] = r]
    BY DEF OpenBump
  <2> HIDE DEF r
  <2> QED
    BY <2>2, <2>3 DEF Inv, TypeOK
<1> QED
  BY <1>1, BumpKeepsInv DEF OpenBump

(* A client closes its window. *)
LEMMA CloseBumpKeepsInv ==
  ASSUME Inv, NEW c \in Client, CloseBump(c)
  PROVE  Inv'
<1>1. "clearing" \in ClientStep /\ Set(c, "clearing")
  BY DEF CloseBump, ClientStep
<1>2. /\ client' \in [Client -> ControlClient]
      /\ \A d \in Client \ {c} : client'[d] = client[d]
      /\ client'[c].epoch = client[c].epoch /\ client'[c].pc \notin Waiting
  <2>1. /\ client' \in [Client -> ControlClient]
        /\ client'[c].epoch = client[c].epoch /\ client'[c].pc = "clearing"
    BY <1>1, SetIsLocal DEF Inv, TypeOK
  <2>2. \A d \in Client \ {c} : client'[d] = client[d]
    BY <1>1 DEF Inv, TypeOK, Set
  <2> QED
    BY <2>1, <2>2 DEF Waiting
<1> QED
  BY <1>2, BumpKeepsInv DEF CloseBump

(* Nobody is inside a window when one is installed, and its number is new. *)
LEMMA InstallKeepsInv ==
  ASSUME Inv, NEW c \in Client, Install(c)
  PROVE  Inv'
<1> USE PairingAssumption DEF Inv, TypeOK, Install, MayTake
<1>1. "opened" \in ClientStep /\ Set(c, "opened")
  BY DEF ClientStep
<1>2. slot' \in Slot /\ slot' # None /\ slot'.id = client[c].epoch
  <2>1. client[c].epoch \in Nat /\ client[c].mode \in Mode
    BY DEF ControlClient
  <2>2. slot' \in Slot /\ slot'.id = client[c].epoch
    BY <2>1 DEF Slot
  <2> QED
    BY <2>2
<1>3. TypeOK'
  BY <1>1, <1>2, SetIsLocal
<1>4. InWindow'
  BY DEF InWindow, Inside, Locked
<1>5. NumbersBelow'
  BY <1>1, <1>2, SetIsLocal DEF NumbersBelow
<1>6. NumbersFresh'
  BY <1>1, <1>2, SetIsLocal DEF NumbersFresh
<1>7. WelcomeCloses'
  BY <1>2 DEF WelcomeCloses, NumbersFresh
<1>8. CancelledIsLate' /\ AdmitsOnce'
  BY DEF CancelledIsLate, AdmitsOnce
<1> QED
  BY <1>3, <1>4, <1>5, <1>6, <1>7, <1>8

-----------------------------------------------------------------------------
(* A connection loads the epoch: it is not among the cancelled. *)
LEMMA CommitKeepsInv ==
  ASSUME Inv, NEW k \in Conn, NEW secret \in Secrets, Commit(k, secret)
  PROVE  Inv'
<1> USE PairingAssumption DEF Inv, TypeOK, Commit, winVars
<1>1. secret \in Nat
  BY DEF Secrets, ControlClient
<1>2. /\ conn' \in [Conn -> Pairing]
      /\ conn'[k].pc = "loaded" /\ conn'[k].epoch = window_epoch
      /\ conn'[k].window = conn[k].window
      /\ \A l \in Conn \ {k} : conn'[l] = conn[l]
  <2> DEFINE r == [conn[k] EXCEPT !.pc = "loaded", !.secret = secret,
                                  !.epoch = window_epoch]
  <2>1. /\ r \in Pairing /\ r.pc = "loaded" /\ r.epoch = window_epoch
        /\ r.window = conn[k].window
    BY <1>1 DEF Pairing, PairingStep
  <2>2. conn' = [conn EXCEPT ![k] = r]
    OBVIOUS
  <2> HIDE DEF r
  <2> QED
    BY <2>1, <2>2
<1>3. TypeOK'
  BY <1>2 DEF Locked
<1>4. InWindow' /\ NumbersBelow' /\ NumbersFresh'
  BY <1>2 DEF InWindow, Inside, NumbersBelow, NumbersFresh
<1>5. WelcomeCloses'
  BY <1>2 DEF WelcomeCloses, After
<1>6. CancelledIsLate'
  BY <1>2 DEF CancelledIsLate
<1>7. AdmitsOnce'
  BY <1>2 DEF AdmitsOnce
<1> QED
  BY <1>3, <1>4, <1>5, <1>6, <1>7

(* A pairing enters the window in the slot, or finds it not open. *)
LEMMA BeginKeepsInv ==
  ASSUME Inv, NEW k \in Conn, NEW member \in BOOLEAN, Begin(k, member)
  PROVE  Inv'
<1> USE PairingAssumption DEF Inv, TypeOK
<1>1. CASE member /\ is_open(slot)
  <2>1. /\ slot \in Slot /\ conn[k].pc = "granted"
        /\ UNCHANGED <<window_epoch, holder, queue, client, cancelled, welcomed>>
    BY DEF Begin
  <2>2. slot' \in Slot /\ slot' # None /\ slot'.id = slot.id /\ slot'.closed = slot.closed
    BY <1>1, <2>1 DEF Begin, Slot
  <2>3. slot.id \in Nat
    BY <2>1 DEF Slot
  <2>4. /\ conn' \in [Conn -> Pairing]
        /\ conn'[k].pc = "offered" /\ conn'[k].epoch = conn[k].epoch
        /\ conn'[k].window = slot.id
        /\ \A l \in Conn \ {k} : conn'[l] = conn[l]
    <3> DEFINE r == [conn[k] EXCEPT !.pc = "offered", !.window = slot.id]
    <3>1. /\ r \in Pairing /\ r.pc = "offered" /\ r.window = slot.id
          /\ r.epoch = conn[k].epoch
      BY <2>3 DEF Pairing, PairingStep
    <3>2. conn' = [conn EXCEPT ![k] = r]
      BY <1>1 DEF Begin
    <3> HIDE DEF r
    <3> QED
      BY <3>1, <3>2
  <2>5. slot # None
    BY DEF Begin
  <2>6. TypeOK'
    BY <2>1, <2>2, <2>4 DEF Locked
  <2>7. InWindow'
    BY <2>1, <2>2, <2>4 DEF InWindow, Inside, Locked
  <2>8. NumbersBelow' /\ NumbersFresh'
    BY <2>1, <2>2, <2>4, <2>5 DEF NumbersBelow, NumbersFresh
  <2>9. WelcomeCloses'
    BY <2>1, <2>2, <2>4, <2>5 DEF WelcomeCloses, After
  <2>10. CancelledIsLate'
    BY <2>1, <2>4 DEF CancelledIsLate
  <2>11. AdmitsOnce'
    BY <2>1, <2>4 DEF AdmitsOnce, WelcomeCloses, After
  <2> QED
    BY <2>6, <2>7, <2>8, <2>9, <2>10, <2>11
<1>2. CASE ~(member /\ is_open(slot))
  <2>1. "failed" \in PairingStep /\ Turn(k, "failed")
    BY <1>2 DEF Begin, PairingStep
  <2>2. TypeOK'
    BY <1>2, <2>1, TurnIsLocal DEF Begin, Locked
  <2>3. Quiet
    BY <1>2, <2>1, TurnIsLocal DEF Begin, Quiet, Inside, After
  <2> QED
    BY <2>2, <2>3, QuietKeepsInv
<1> QED
  BY <1>1, <1>2

(* The first welcome in a window finds it open and closes it. *)
LEMMA ApproveKeepsInv ==
  ASSUME Inv, NEW k \in Conn, approve(k)
  PROVE  Inv'
<1> USE PairingAssumption DEF Inv, TypeOK
<1>1. "welcoming" \in PairingStep /\ Turn(k, "welcoming")
  BY DEF approve, PairingStep
<1>2. /\ conn[k].pc = "approved" /\ ~slot.closed
      /\ welcomed' = welcomed \cup {k}
      /\ UNCHANGED <<window_epoch, holder, queue, client, cancelled>>
  BY DEF approve, is_live
<1>3. slot # None /\ slot \in Slot /\ slot.id = conn[k].window
  BY <1>2 DEF InWindow, Inside
<1>4. slot' \in Slot /\ slot' # None /\ slot'.id = slot.id /\ slot'.closed
  BY <1>3 DEF approve, close, Slot, Mode
<1>5. TypeOK'
  BY <1>1, <1>2, <1>4, TurnIsLocal DEF Locked
<1>6. InWindow'
  BY <1>1, <1>2, <1>4, TurnIsLocal DEF InWindow, Inside
<1>7. NumbersBelow' /\ NumbersFresh'
  BY <1>1, <1>2, <1>3, <1>4, TurnIsLocal DEF NumbersBelow, NumbersFresh
<1>8. WelcomeCloses'
  BY <1>1, <1>2, <1>4, TurnIsLocal DEF WelcomeCloses, After
<1>9. CancelledIsLate'
  BY <1>1, <1>2, TurnIsLocal DEF CancelledIsLate
<1>10. \A l \in welcomed : conn[l].window # conn[k].window
  BY <1>2, <1>3 DEF WelcomeCloses
<1>11. AdmitsOnce'
  BY <1>1, <1>2, <1>10, TurnIsLocal DEF AdmitsOnce
<1> QED
  BY <1>5, <1>6, <1>7, <1>8, <1>9, <1>11

-----------------------------------------------------------------------------
(* The invariant holds at the start. *)
LEMMA InitInv == Init => Inv
BY PairingAssumption
   DEF Init, Inv, TypeOK, Slot, ControlClient, ClientStep, Mode, Pairing,
       PairingStep, Locked, InWindow, Inside, NumbersBelow, NumbersFresh,
       WelcomeCloses, CancelledIsLate, AdmitsOnce

(* Every step keeps the invariant. *)
LEMMA NextKeepsInv == Inv /\ [Next]_vars => Inv'
<1> SUFFICES ASSUME Inv, [Next]_vars PROVE Inv'
  OBVIOUS
<1>1. ASSUME NEW c \in Client, OpenNext(c) \/ ClientNext(c) PROVE Inv'
  BY <1>1, OpenLockKeepsInv, InstallKeepsInv, OpenBumpKeepsInv, ShowWindowKeepsInv,
     ShowRequestKeepsInv, AnswerRequestKeepsInv, CloseCheckKeepsInv, CloseBumpKeepsInv, CloseClearKeepsInv
     DEF OpenNext, ClientNext
<1>2. ASSUME NEW k \in Conn, InviterNext(k) PROVE Inv'
  BY <1>2, LockKeepsInv, LockTimeoutKeepsInv, GrantKeepsInv, RefuseKeepsInv,
     RefuseWrittenKeepsInv, TurnAwayKeepsInv, BeginKeepsInv, OnJoinKeepsInv,
     AnsweredKeepsInv, ApproveKeepsInv, AdmitKeepsInv, PairingFailsKeepsInv,
     JudgeKeepsInv, ReleaseKeepsInv
     DEF InviterNext
<1>3. ASSUME NEW k \in Conn, NEW secret \in Secrets, Commit(k, secret) PROVE Inv'
  BY <1>3, CommitKeepsInv
<1>4. CASE UNCHANGED vars
  BY <1>4 DEF vars, winVars, Inv, TypeOK, InWindow, NumbersBelow, NumbersFresh,
              WelcomeCloses, CancelledIsLate, AdmitsOnce
<1> QED
  BY <1>1, <1>2, <1>3, <1>4, ExpireKeepsInv DEF Next

(* The invariant holds in every reachable state. *)
THEOREM WindowInvariant == Spec => []Inv
BY InitInv, NextKeepsInv, PTL DEF Spec

(* A pairing that had loaded the epoch and had still to compare it when    *)
(* its window was closed or replaced sends no welcome (bump_window,        *)
(* answer_pairing, run_inviter).                                           *)
THEOREM CancelledPairingsAdmitNobody == Spec => []CancelledNeverAdmits
<1>1. Inv => CancelledNeverAdmits
  BY DEF Inv, CancelledIsLate, CancelledNeverAdmits
<1> QED
  BY <1>1, WindowInvariant, PTL

(* A window welcomes at most one device (approve, PairingWindow::close). *)
THEOREM WindowsAdmitOnce == Spec => []AdmitsOnce
<1>1. Inv => AdmitsOnce
  BY DEF Inv
<1> QED
  BY <1>1, WindowInvariant, PTL

-----------------------------------------------------------------------------
(* How many devices a window has been offered to.  The slot counts them    *)
(* while it is there, and is of the mode its client asked for until a      *)
(* welcome closes it.                                                      *)
OfferedIn(cs, w) == {k \in Conn : cs[k].window = w}

FewOffers == \A w \in Nat \ {0} : IsFiniteSet(OfferedIn(conn, w))

Counted ==
  slot # None /\ slot.id # 0 => Cardinality(OfferedIn(conn, slot.id)) <= slot.attempts

ModeKept ==
  slot # None /\ ~slot.closed =>
    \A c \in Client : client[c].epoch = slot.id => client[c].mode = slot.mode

Spent == FewOffers /\ Counted /\ ModeKept /\ AttemptsBounded

(* A step that makes no offer and opens no window.                         *)
WindowsStay == \A k \in Conn : conn'[k].window = conn[k].window

ModesStay ==
  \A c \in Client : client'[c].epoch = client[c].epoch /\ client'[c].mode = client[c].mode

SlotStays ==
  slot' # None => /\ slot # None
                  /\ slot'.id = slot.id /\ slot'.attempts = slot.attempts
                  /\ ~slot'.closed => ~slot.closed /\ slot'.mode = slot.mode

Calm == WindowsStay /\ ModesStay /\ SlotStays

(* Such a step keeps the count.                                            *)
LEMMA CalmSpendsNothing ==
  ASSUME Spent, Calm
  PROVE  Spent'
<1>1. \A w : OfferedIn(conn', w) = OfferedIn(conn, w)
  BY DEF Calm, WindowsStay, OfferedIn
<1>2. FewOffers'
  BY <1>1 DEF Spent, FewOffers
<1>3. Counted'
  <2>1. SUFFICES ASSUME slot' # None, slot'.id # 0
                 PROVE  Cardinality(OfferedIn(conn', slot'.id)) <= slot'.attempts
    BY DEF Counted, OfferedIn
  <2> QED
    BY <1>1, <2>1 DEF Spent, Counted, Calm, SlotStays
<1>4. ModeKept'
  BY DEF Spent, ModeKept, Calm, ModesStay, SlotStays
<1>5. AttemptsBounded'
  <2>1. SUFFICES ASSUME NEW c \in Client, client'[c].epoch # 0
                 PROVE  Cardinality(OfferedIn(conn', client'[c].epoch)) <= max_attempts(client'[c])
    BY DEF AttemptsBounded, OfferedIn
  <2>2. client'[c].epoch = client[c].epoch /\ max_attempts(client'[c]) = max_attempts(client[c])
    BY DEF Calm, ModesStay, max_attempts
  <2>3. Cardinality(OfferedIn(conn, client[c].epoch)) <= max_attempts(client[c])
    BY <2>1, <2>2 DEF Spent, AttemptsBounded, OfferedIn
  <2> QED
    BY <1>1, <2>2, <2>3
<1> QED
  BY <1>2, <1>3, <1>4, <1>5 DEF Spent

(* A turn of a connection makes no offer, a step of a client changes no    *)
(* window.                                                                 *)
LEMMA StepsStay ==
  ASSUME Inv
  PROVE  /\ \A k \in Conn : \A pc : Turn(k, pc) => WindowsStay
         /\ \A c \in Client : \A pc : Set(c, pc) => ModesStay
         /\ UNCHANGED conn => WindowsStay
         /\ UNCHANGED client => ModesStay
         /\ UNCHANGED slot => SlotStays
<1>1. conn \in [Conn -> Pairing] /\ client \in [Client -> ControlClient]
  BY DEF Inv, TypeOK
<1>2. ASSUME NEW k \in Conn, NEW pc, Turn(k, pc)
      PROVE  WindowsStay
  BY <1>1, <1>2 DEF Turn, Pairing, WindowsStay
<1>3. ASSUME NEW c \in Client, NEW pc, Set(c, pc)
      PROVE  ModesStay
  BY <1>1, <1>3 DEF Set, ControlClient, ModesStay
<1> QED
  BY <1>2, <1>3 DEF WindowsStay, ModesStay, SlotStays

(* Nor does an event for the clients.                                      *)
LEMMA EventStays ==
  ASSUME Inv, NEW e, NEW to,
         client' = [c \in Client |-> IF c \in to
                      THEN [client[c] EXCEPT !.inbox = Append(@, e)] ELSE client[c]]
  PROVE  ModesStay
<1>1. client \in [Client -> ControlClient]
  BY DEF Inv, TypeOK
<1>2. ASSUME NEW c \in Client, NEW q
      PROVE  /\ [client[c] EXCEPT !.inbox = q].epoch = client[c].epoch
             /\ [client[c] EXCEPT !.inbox = q].mode = client[c].mode
  BY <1>1 DEF ControlClient
<1>3. SUFFICES ASSUME NEW c \in Client
               PROVE  client'[c].epoch = client[c].epoch /\ client'[c].mode = client[c].mode
  BY DEF ModesStay
<1> QED
  BY <1>2

-----------------------------------------------------------------------------
(* The steps of a client.                                                  *)
LEMMA ClientIsCalm ==
  ASSUME Inv, NEW c \in Client,
         \/ OpenLock(c)
         \/ \E written \in BOOLEAN : ShowWindow(c, written)
         \/ ShowRequest(c)
         \/ \E answer \in {"accepted", "failed"} : AnswerRequest(c, answer)
         \/ CloseCheck(c) \/ CloseBump(c) \/ CloseClear(c)
  PROVE  Calm
<1>t. conn \in [Conn -> Pairing] /\ client \in [Client -> ControlClient]
  BY DEF Inv, TypeOK
<1>1. CASE OpenLock(c)
  BY <1>1, StepsStay DEF OpenLock, Calm
<1>2. CASE \E written \in BOOLEAN : ShowWindow(c, written)
  BY <1>2, StepsStay DEF ShowWindow, Calm, winVars
<1>3. CASE ShowRequest(c)
  <2>1. UNCHANGED <<slot, conn>>
    BY <1>3 DEF ShowRequest, winVars
  <2>2. ModesStay
    BY <1>3, <1>t DEF ShowRequest, ModesStay, ControlClient
  <2> QED
    BY <2>1, <2>2, StepsStay DEF Calm
<1>4. CASE \E answer \in {"accepted", "failed"} : AnswerRequest(c, answer)
  <2>1. UNCHANGED slot
    BY <1>4 DEF AnswerRequest, winVars
  <2>2. ModesStay
    BY <1>4, <1>t DEF AnswerRequest, ModesStay, ControlClient
  <2>3. WindowsStay
    BY <1>4, <1>t DEF AnswerRequest, WindowsStay, Pairing
  <2> QED
    BY <2>1, <2>2, <2>3, StepsStay DEF Calm
<1>5. CASE CloseCheck(c)
  BY <1>5, StepsStay DEF CloseCheck, Calm, winVars
<1>6. CASE CloseBump(c)
  BY <1>6, StepsStay DEF CloseBump, Calm
<1>7. CASE CloseClear(c)
  <2>1. SlotStays
    BY <1>7 DEF CloseClear, SlotStays
  <2> QED
    BY <1>7, <2>1, StepsStay DEF CloseClear, Calm
<1> QED
  BY <1>1, <1>2, <1>3, <1>4, <1>5, <1>6, <1>7

(* The steps of a connection other than Begin.                             *)
LEMMA InviterIsCalm ==
  ASSUME Inv, NEW k \in Conn,
         \/ Lock(k) \/ LockTimeout(k) \/ Grant(k)
         \/ Refuse(k) \/ RefuseWritten(k) \/ TurnAway(k)
         \/ on_join(k) \/ Answered(k) \/ approve(k)
         \/ \E ok \in BOOLEAN : Admit(k, ok)
         \/ PairingFails(k) \/ Judge(k) \/ Release(k)
  PROVE  Calm
<1>1. CASE Lock(k) \/ LockTimeout(k) \/ Grant(k) \/ Refuse(k) \/ RefuseWritten(k) \/ TurnAway(k)
  <2>1. UNCHANGED <<slot, client>> /\ \E pc : Turn(k, pc)
    BY <1>1 DEF Lock, LockTimeout, Grant, Refuse, RefuseWritten, TurnAway, winVars
  <2> QED
    BY <2>1, StepsStay DEF Calm
<1>2. CASE Answered(k) \/ (\E ok \in BOOLEAN : Admit(k, ok)) \/ PairingFails(k)
  <2>1. UNCHANGED <<slot, client>> /\ \E pc : Turn(k, pc)
    BY <1>2 DEF Answered, Admit, PairingFails, winVars
  <2> QED
    BY <2>1, StepsStay DEF Calm
<1>3. CASE on_join(k)
  <2>1. UNCHANGED slot /\ \E pc : Turn(k, pc)
    BY <1>3 DEF on_join, winVars
  <2>2. \/ UNCHANGED client
        \/ \E to : client' = [c \in Client |-> IF c \in to
                      THEN [client[c] EXCEPT !.inbox = Append(@, k)] ELSE client[c]]
    BY <1>3 DEF on_join
  <2>3. ASSUME NEW to, client' = [c \in Client |-> IF c \in to
                      THEN [client[c] EXCEPT !.inbox = Append(@, k)] ELSE client[c]]
        PROVE  ModesStay
    BY <2>3, EventStays
  <2>4. ModesStay
    BY <2>2, <2>3, StepsStay
  <2> QED
    BY <2>1, <2>4, StepsStay DEF Calm
<1>4. CASE Judge(k)
  <2> DEFINE to == {c \in Client : conn[k].pc = "admitted" /\ Owns(c, slot)}
  <2>1. UNCHANGED slot /\ \E pc : Turn(k, pc)
    BY <1>4 DEF Judge, winVars
  <2>2. client' = [c \in Client |-> IF c \in to
                      THEN [client[c] EXCEPT !.inbox = Append(@, None)] ELSE client[c]]
    BY <1>4 DEF Judge
  <2> HIDE DEF to
  <2>3. ModesStay
    BY <2>2, EventStays
  <2> QED
    BY <2>1, <2>3, StepsStay DEF Calm
<1>5. CASE Release(k)
  <2>1. SlotStays
    BY <1>5 DEF Release, SlotStays
  <2> QED
    BY <1>5, <2>1, StepsStay DEF Release, Calm
<1>6. CASE approve(k)
  <2>1. slot # None /\ slot \in Slot
    BY <1>6 DEF approve, Inv, TypeOK, InWindow, Inside
  <2>2. slot'.id = slot.id /\ slot'.attempts = slot.attempts /\ slot'.closed
    BY <1>6, <2>1 DEF approve, close, Slot
  <2>3. SlotStays
    BY <2>1, <2>2 DEF SlotStays
  <2> QED
    BY <1>6, <2>3, StepsStay DEF approve, Calm
<1> QED
  BY <1>1, <1>2, <1>3, <1>4, <1>5, <1>6

-----------------------------------------------------------------------------
(* A window that a client asks for has been offered to nobody.             *)
LEMMA NewNumberIsFree ==
  ASSUME Inv, NEW w \in Nat, w > window_epoch
  PROVE  OfferedIn(conn, w) = {}
<1>1. \A k \in Conn : conn[k].window \in Nat /\ conn[k].window <= window_epoch
  BY DEF Inv, TypeOK, Pairing, NumbersBelow
<1>2. window_epoch \in Nat
  BY DEF Inv, TypeOK
<1>3. ASSUME NEW k \in Conn
      PROVE  conn[k].window # w
  BY <1>1, <1>2
<1> QED
  BY <1>3 DEF OfferedIn

(* The limits are numbers.                                                 *)
LEMMA LimitsAreNat ==
  ASSUME NEW w
  PROVE  max_attempts(w) \in Nat
BY PairingAssumption DEF max_attempts

(* So it may be given to a client.                                         *)
LEMMA OpenBumpSpendsNothing ==
  ASSUME Inv, Spent, NEW c \in Client, NEW mode \in Mode, OpenBump(c, mode)
  PROVE  Spent'
<1>t. /\ client \in [Client -> ControlClient] /\ window_epoch \in Nat
      /\ slot # None => slot.id \in Nat /\ slot.id <= window_epoch
  BY DEF Inv, TypeOK, NumbersBelow, Slot
<1>1. UNCHANGED <<slot, conn>>
  BY DEF OpenBump
<1>2. /\ client'[c].epoch = window_epoch + 1
      /\ \A d \in Client \ {c} : client'[d] = client[d]
  BY <1>t DEF OpenBump, ControlClient
<1>3. FewOffers' /\ Counted'
  BY <1>1 DEF Spent, FewOffers, Counted, OfferedIn
<1>4. ModeKept'
  <2>1. SUFFICES ASSUME slot' # None, ~slot'.closed, NEW d \in Client, client'[d].epoch = slot'.id
                 PROVE  client'[d].mode = slot'.mode
    BY DEF ModeKept
  <2>2. d # c
    BY <1>1, <1>2, <1>t, <2>1
  <2> QED
    BY <1>1, <1>2, <2>1, <2>2 DEF Spent, ModeKept
<1>5. AttemptsBounded'
  <2>1. SUFFICES ASSUME NEW d \in Client, client'[d].epoch # 0
                 PROVE  Cardinality(OfferedIn(conn, client'[d].epoch)) <= max_attempts(client'[d])
    BY <1>1 DEF AttemptsBounded, OfferedIn
  <2>2. CASE d = c
    <3>1. window_epoch + 1 \in Nat /\ window_epoch + 1 > window_epoch
      BY <1>t
    <3>2. OfferedIn(conn, client'[d].epoch) = {}
      BY <1>2, <2>2, <3>1, NewNumberIsFree
    <3>3. max_attempts(client'[d]) \in Nat
      BY LimitsAreNat
    <3> QED
      BY <3>2, <3>3, FS_EmptySet
  <2>3. CASE d # c
    BY <1>2, <2>1, <2>3 DEF Spent, AttemptsBounded, OfferedIn
  <2> QED
    BY <2>2, <2>3
<1> QED
  BY <1>3, <1>4, <1>5 DEF Spent

(* An installed window has been offered to nobody and is its client's.     *)
LEMMA InstallSpendsNothing ==
  ASSUME Inv, Spent, NEW c \in Client, Install(c)
  PROVE  Spent'
<1>1. UNCHANGED conn /\ client[c].pc = "opening"
  BY DEF Install
<1>2. ModesStay
  BY StepsStay DEF Install
<1>3. slot'.id = client[c].epoch /\ slot'.mode = client[c].mode /\ slot'.attempts = 0
  BY DEF Install
<1>4. /\ \A k \in Conn : conn[k].window # client[c].epoch
      /\ \A d \in Client \ {c} : client[d].epoch # client[c].epoch
  BY <1>1 DEF Inv, NumbersFresh
<1>5. \A w : OfferedIn(conn', w) = OfferedIn(conn, w)
  BY <1>1 DEF OfferedIn
<1>6. FewOffers'
  BY <1>5 DEF Spent, FewOffers
<1>7. OfferedIn(conn, slot'.id) = {}
  BY <1>3, <1>4 DEF OfferedIn
<1>8. Counted'
  <2>1. OfferedIn(conn', slot'.id) = {}
    BY <1>5, <1>7
  <2>2. Cardinality(OfferedIn(conn', slot'.id)) <= slot'.attempts
    BY <1>3, <2>1, FS_EmptySet
  <2> QED
    BY <2>2 DEF Counted, OfferedIn
<1>9. ModeKept'
  BY <1>2, <1>3, <1>4 DEF ModeKept, ModesStay
<1>10. AttemptsBounded'
  <2>1. SUFFICES ASSUME NEW d \in Client, client'[d].epoch # 0
                 PROVE  Cardinality(OfferedIn(conn', client'[d].epoch)) <= max_attempts(client'[d])
    BY DEF AttemptsBounded, OfferedIn
  <2>2. client'[d].epoch = client[d].epoch /\ max_attempts(client'[d]) = max_attempts(client[d])
    BY <1>2 DEF ModesStay, max_attempts
  <2>3. Cardinality(OfferedIn(conn, client[d].epoch)) <= max_attempts(client[d])
    BY <2>1, <2>2 DEF Spent, AttemptsBounded, OfferedIn
  <2> QED
    BY <1>5, <2>2, <2>3
<1> QED
  BY <1>6, <1>8, <1>9, <1>10 DEF Spent

(* An offer is made in a window with an attempt left, and counted.         *)
LEMMA BeginSpendsOne ==
  ASSUME Inv, Spent, NEW k \in Conn, NEW member \in BOOLEAN, Begin(k, member)
  PROVE  Spent'
<1>c. UNCHANGED client
  BY DEF Begin
<1>1. CASE ~(member /\ is_open(slot))
  <2>1. UNCHANGED slot /\ Turn(k, "failed")
    BY <1>1 DEF Begin
  <2>2. Calm
    BY <1>c, <2>1, StepsStay DEF Calm
  <2> QED
    BY <2>2, CalmSpendsNothing
<1>2. CASE member /\ is_open(slot)
  <2>1. slot # None /\ slot \in Slot /\ slot.id \in Nat /\ slot.attempts \in Nat
    BY DEF Begin, Inv, TypeOK, Slot
  <2>2. ~slot.closed /\ slot.attempts < max_attempts(slot)
    BY <1>2 DEF is_open, is_live
  <2>3. /\ slot'.id = slot.id /\ slot'.attempts = slot.attempts + 1
        /\ slot'.mode = slot.mode /\ slot'.closed = slot.closed
    BY <1>2, <2>1 DEF Begin, Slot
  <2>4. conn'[k].window = slot.id /\ \A l \in Conn \ {k} : conn'[l] = conn[l]
    <3>1. conn \in [Conn -> Pairing]
      BY DEF Inv, TypeOK
    <3>2. conn' = [conn EXCEPT ![k] = [@ EXCEPT !.pc = "offered", !.window = slot.id]]
      BY <1>2 DEF Begin
    <3> QED
      BY <3>1, <3>2 DEF Pairing
  <2>5. OfferedIn(conn', slot.id) = OfferedIn(conn, slot.id) \cup {k}
    BY <2>3, <2>4 DEF OfferedIn
  <2>6. \A w : w # slot.id => OfferedIn(conn', w) \subseteq OfferedIn(conn, w)
    BY <2>4 DEF OfferedIn
  <2>7. slot.id # 0 => /\ IsFiniteSet(OfferedIn(conn', slot.id))
                       /\ Cardinality(OfferedIn(conn', slot.id)) <= slot.attempts + 1
    <3>1. SUFFICES ASSUME slot.id # 0
                   PROVE  /\ IsFiniteSet(OfferedIn(conn', slot.id))
                          /\ Cardinality(OfferedIn(conn', slot.id)) <= slot.attempts + 1
      OBVIOUS
    <3>2. IsFiniteSet(OfferedIn(conn, slot.id)) /\ Cardinality(OfferedIn(conn, slot.id)) <= slot.attempts
      BY <2>1, <3>1 DEF Spent, FewOffers, Counted
    <3>3. /\ IsFiniteSet(OfferedIn(conn, slot.id) \cup {k})
          /\ Cardinality(OfferedIn(conn, slot.id) \cup {k}) =
               IF k \in OfferedIn(conn, slot.id) THEN Cardinality(OfferedIn(conn, slot.id))
               ELSE Cardinality(OfferedIn(conn, slot.id)) + 1
      BY <3>2, FS_AddElement
    <3>4. Cardinality(OfferedIn(conn, slot.id)) \in Nat
      BY <3>2, FS_CardinalityType
    <3> QED
      BY <2>1, <2>5, <3>2, <3>3, <3>4
  <2>8. \A w \in Nat \ {0} : w # slot.id =>
          /\ IsFiniteSet(OfferedIn(conn', w))
          /\ Cardinality(OfferedIn(conn', w)) <= Cardinality(OfferedIn(conn, w))
    BY <2>6, FS_Subset DEF Spent, FewOffers
  <2>9. FewOffers'
    BY <2>7, <2>8 DEF FewOffers
  <2>10. Counted'
    BY <2>3, <2>7 DEF Counted
  <2>11. ModeKept'
    BY <1>c, <2>1, <2>3 DEF Spent, ModeKept
  <2>12. ASSUME NEW c \in Client, client[c].epoch # 0
         PROVE  Cardinality(OfferedIn(conn', client[c].epoch)) <= max_attempts(client[c])
    <3>1. client[c].epoch \in Nat \ {0}
      BY <2>12 DEF Inv, TypeOK, ControlClient
    <3>2. max_attempts(client[c]) \in Nat
      BY LimitsAreNat
    <3>3. CASE client[c].epoch = slot.id
      <4>1. max_attempts(client[c]) = max_attempts(slot)
        BY <2>1, <2>2, <3>3 DEF Spent, ModeKept, max_attempts
      <4>2. slot.id # 0
        BY <3>1, <3>3
      <4>3. Cardinality(OfferedIn(conn', slot.id)) \in Nat
        BY <2>7, <4>2, FS_CardinalityType
      <4>4. Cardinality(OfferedIn(conn', slot.id)) <= max_attempts(slot)
        BY <2>1, <2>2, <2>7, <3>2, <4>1, <4>2, <4>3
      <4> QED
        BY <3>3, <4>1, <4>4
    <3>4. CASE client[c].epoch # slot.id
      <4>1. Cardinality(OfferedIn(conn, client[c].epoch)) <= max_attempts(client[c])
        BY <2>12 DEF Spent, AttemptsBounded, OfferedIn
      <4>2. /\ IsFiniteSet(OfferedIn(conn', client[c].epoch)) /\ IsFiniteSet(OfferedIn(conn, client[c].epoch))
            /\ Cardinality(OfferedIn(conn', client[c].epoch)) <= Cardinality(OfferedIn(conn, client[c].epoch))
        BY <2>8, <3>1, <3>4 DEF Spent, FewOffers
      <4>3. /\ Cardinality(OfferedIn(conn', client[c].epoch)) \in Nat
            /\ Cardinality(OfferedIn(conn, client[c].epoch)) \in Nat
        BY <4>2, FS_CardinalityType
      <4> QED
        BY <3>2, <4>1, <4>2, <4>3
    <3> QED
      BY <3>3, <3>4
  <2>13. AttemptsBounded'
    BY <1>c, <2>12 DEF AttemptsBounded, OfferedIn
  <2> QED
    BY <2>9, <2>10, <2>11, <2>13 DEF Spent
<1> QED
  BY <1>1, <1>2

-----------------------------------------------------------------------------
(* Nobody has been offered anything at the start.                          *)
LEMMA InitSpent == Init => Spent
<1> SUFFICES ASSUME Init PROVE Spent
  OBVIOUS
<1>1. ASSUME NEW w \in Nat \ {0}
      PROVE  OfferedIn(conn, w) = {}
  BY <1>1 DEF Init, OfferedIn
<1>2. FewOffers
  BY <1>1, FS_EmptySet DEF FewOffers
<1> QED
  BY <1>2 DEF Init, Spent, Counted, ModeKept, AttemptsBounded

(* Every step keeps the count.                                             *)
LEMMA NextKeepsSpent == Inv /\ Spent /\ [Next]_vars => Spent'
<1> SUFFICES ASSUME Inv, Spent, [Next]_vars PROVE Spent'
  OBVIOUS
<1>1. ASSUME NEW c \in Client, OpenNext(c) \/ ClientNext(c) PROVE Spent'
  BY <1>1, ClientIsCalm, CalmSpendsNothing, InstallSpendsNothing, OpenBumpSpendsNothing
     DEF OpenNext, ClientNext
<1>2. ASSUME NEW k \in Conn, InviterNext(k) PROVE Spent'
  BY <1>2, InviterIsCalm, CalmSpendsNothing, BeginSpendsOne DEF InviterNext
<1>3. ASSUME NEW k \in Conn, NEW secret \in Secrets, Commit(k, secret) PROVE Spent'
  <2>1. conn \in [Conn -> Pairing]
    BY DEF Inv, TypeOK
  <2>2. WindowsStay
    BY <1>3, <2>1 DEF Commit, Pairing, WindowsStay
  <2>3. UNCHANGED <<slot, client>>
    BY <1>3 DEF Commit, winVars
  <2> QED
    BY <2>2, <2>3, StepsStay, CalmSpendsNothing DEF Calm
<1>4. CASE Expire
  <2>1. slot \in Slot
    BY <1>4 DEF Expire, Inv, TypeOK
  <2>2. SlotStays
    BY <1>4, <2>1 DEF Expire, Slot, SlotStays
  <2>3. UNCHANGED <<conn, client>>
    BY <1>4 DEF Expire
  <2> QED
    BY <2>2, <2>3, StepsStay, CalmSpendsNothing DEF Calm
<1>5. CASE UNCHANGED vars
  <2>1. UNCHANGED <<slot, conn, client>>
    BY <1>5 DEF vars, winVars
  <2> QED
    BY <2>1, StepsStay, CalmSpendsNothing DEF Calm
<1> QED
  BY <1>1, <1>2, <1>3, <1>4, <1>5 DEF Next

(* A window offers a key to no more devices than its mode allows, so that  *)
(* a code can be guessed at only MAX_CODE_ATTEMPTS times, however the      *)
(* pairings end and windows replace each other (begin, is_open).           *)
THEOREM WindowsOfferFew == Spec => []AttemptsBounded
<1>1. Spent => AttemptsBounded
  BY DEF Spent
<1> QED
  BY <1>1, InitSpent, NextKeepsSpent, WindowInvariant, PTL DEF Spec
=============================================================================
