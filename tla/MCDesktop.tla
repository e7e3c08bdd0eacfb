----------------------------- MODULE MCDesktop -----------------------------
(* The daemon at the display server for TLC: either what it records and    *)
(* puts back (Clipboard), or how it serves a paste (Transfer).             *)
(* Clipboard: two ordinary copies, one of them refused by the content      *)
(* filters, and one from the window of a password manager, which marks it. *)
(* Transfer: a window that uses two properties at the same time beside one *)
(* that uses one of the same name.                                         *)
EXTENDS Clipboard, Transfer

MCTargetsOf ==
    [c \in Copies |-> CASE c = "a" -> {"text", "image"}
                        [] c = "b" -> {"text", "html"}
                        [] OTHER   -> {"text", "image", "hint"}]

MCWanted == <<"text", "html", "image">>

MCPreferred == <<"image", "text", "html">>

MCKeys == {<<"w1", "p">>, <<"w1", "q">>, <<"w2", "p">>}

MCDisplays == {"none", "x11", "wayland"}

\* An entry that is there from the beginning.
MCHistory == {{<<"text", "a">>}}

\* Captures alone; one recall on any desktop; two of them on the one desktop
\* where an emptied clipboard is taken for an exit; or pastes.
MCInit ==
    /\ \/ InitWith({}, MaxRecalls, 0)
       \/ InitWith(MCHistory, MaxRecalls - 1, MaxWhims)
       \/ InitWith(MCHistory, MaxRecalls - 2, MaxWhims) /\ backend = "wayland"
    /\ PasteInit
    /\ display # "none" => history = {} /\ backend = "x11"

MCNext ==
    \/ display = "none" /\ Next /\ UNCHANGED pasteVars
    \/ display # "none" /\ PasteNext /\ UNCHANGED vars

MCSpec == MCInit /\ [][MCNext]_<<vars, pasteVars>> /\ Fairness /\ PasteFairness
=============================================================================
