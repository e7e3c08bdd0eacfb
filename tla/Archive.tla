------------------------------ MODULE Archive -------------------------------
(* What panod promises about the history it keeps: an entry is noted, then *)
(* filled with its payloads, and stays whole until it is forgotten on      *)
(* purpose. Keys, files, crashes and restarts do not appear here: Vault    *)
(* implements this.                                                        *)
CONSTANT Content

VARIABLE kept    \* what is kept of each content

Init == kept = [c \in Content |-> "absent"]

(* A copy or an import begins an entry.                                    *)
Note(c) ==
  /\ kept[c] = "absent"
  /\ kept' = [kept EXCEPT ![c] = "noted"]

(* Its payloads are all there. The retention that ends a request may let   *)
(* go of entries in the same step.                                         *)
Fill(c, S) ==
  /\ kept[c] = "noted"
  /\ kept' = [d \in Content |-> IF d \in S THEN "absent" ELSE IF d = c THEN "whole" ELSE kept[d]]

(* Retention, clearing or a wipe lets go of entries.                       *)
Forget(S) ==
  kept' = [c \in Content |-> IF c \in S THEN "absent" ELSE kept[c]]

Next ==
  \/ \E c \in Content : Note(c)
  \/ \E S \in SUBSET Content : Forget(S) \/ \E c \in Content : Fill(c, S)

Spec == Init /\ [][Next]_kept
=============================================================================
