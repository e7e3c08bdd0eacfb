----------------------------- MODULE MCSyncLive -----------------------------
(* What must happen in the end between two devices, for TLC: either how    *)
(* they find each other (Discovery), or, once they have, that the exchange *)
(* of their histories comes to rest (HistorySync).                         *)
EXTENDS HistorySync

CONSTANT Nothing

VARIABLES clock, group, seen, sync_name, announced, calls, changes, finding

finderVars == <<clock, group, seen, sync_name, announced, calls, changes>>

(* Two devices, two groups; users change them in the first two of five     *)
(* hours, so that three more announcements follow: one may go by a crossed *)
(* call, the next puts that right, and the last is heard by everyone.      *)
D == INSTANCE Discovery WITH
       Devices <- Device, Groups <- {"g", "h"}, Requests <- {"request"}, MAX_SEEN <- 2,
       MaxHour <- 4, LastChange <- 1, MaxChanges <- 2, cache <- announced, None <- Nothing

(* While the histories are looked at, no hour is left for the other part,  *)
(* so that its fairness asks for nothing.                                  *)
Finished ==
  /\ clock = [d \in Device |-> 4]
  /\ group = [d \in Device |-> Nothing]
  /\ seen = [d \in Device |-> [group |-> Nothing, tags |-> group]]
  /\ sync_name = group
  /\ announced = [d \in Device |-> group]
  /\ calls = [d \in Device |-> [t \in D!Threads |-> D!Idle]]
  /\ changes = 2

(* Renaming devices or groups makes no difference. *)
MCInit ==
  /\ Init /\ finding \in BOOLEAN
  /\ IF finding THEN D!Init ELSE Finished
  /\ group[1] # "h" /\ (group[1] = Nothing => group[2] = Nothing)

MCNext ==
  /\ UNCHANGED finding
  /\ \/ ~finding /\ Next /\ UNCHANGED finderVars
     \/ finding /\ D!Next /\ UNCHANGED vars

MCSpec == MCInit /\ [][MCNext]_<<vars, finderVars, finding>> /\ Fairness /\ D!Fairness

-----------------------------------------------------------------------------
(* Discovery: two members of a group list each other in the end, whatever  *)
(* the hour is on each of them and whatever was dropped before.            *)
MembersFound == D!MembersFound
=============================================================================
