------------------------------- MODULE MCGui -------------------------------
(* The windows of the GUI for TLC, each with what is behind it: the popup  *)
(* over panod, the Devices page over panora-sync, or the preferences over  *)
(* config.toml.  They share nothing, so a behaviour is of one of them.     *)
(* Popup: two entries, one of which a search finds, on pages of one row.   *)
EXTENDS Popup, Devices

VARIABLES disk, writers, gui, member, daemon, mishap, budget
VARIABLE about  \* which of the three a behaviour is of

confVars == <<disk, writers, gui, member, daemon, mishap, budget>>

MCMatches == [t \in Texts |-> IF t = "" THEN Content ELSE {"a"}]

\* The popup and the subscribers do not meet: each is looked at alone.
Apart == (\E s \in Subscribers : sub[s] # Off) => ui.window = "closed"

\* Other clients make their last change only for a subscriber.
Spared ==
  panod'.revision # panod.revision /\ <<acts, recalling>>' = <<acts, recalling>>
    => panod.revision < MaxRevision - 1 \/ Receivers # {}

\* What the Devices page is looked at with: two attempts in one window, two
\* subpages after each other, the service switched off under a subpage, a
\* removal beside the switch, the switch from off.
Setup(f, a, t, r, kinds, ticks, at, group) ==
  [flows |-> f, attempts |-> a, toggles |-> t, requests |-> r, kinds |-> kinds, ticks |-> ticks,
   slow |-> IF ticks THEN 1 ELSE 0, open |-> TRUE, at |-> at, group |-> group]

NoPage == [Setup(0, 0, 0, 0, {}, FALSE, "down", "none") EXCEPT !.open = FALSE]

MCSetups ==
  {NoPage,
   Setup(1, 2, 0, 0, {"pair"}, FALSE, "up", "member"),
   Setup(2, 1, 0, 0, {"joincode", "pair"}, FALSE, "up", "none"),
   Setup(1, 1, 1, 0, {"invite", "join"}, TRUE, "up", "none"),
   Setup(0, 0, 1, 1, {}, TRUE, "up", "member"),
   Setup(0, 0, 2, 0, {}, TRUE, "down", "none")}

\* What the preferences are looked at with: the dialog beside a command or
\* beside a device that joins, two commands across a restart of panod, the
\* dialog while the device joins and leaves.
Writes(g, c, s, p) == [gui |-> g, cli |-> c, sync |-> s, panod |-> p]

NoWrites == Writes(0, 0, 0, 0)

MCWrites == {NoWrites, Writes(2, 1, 0, 1), Writes(2, 0, 1, 1), Writes(0, 2, 0, 2), Writes(3, 0, 2, 0)}

S == INSTANCE Settings WITH Setups <- MCWrites, w <- writers, panod <- daemon, left <- budget

About == IF left.open THEN "devices" ELSE IF budget # NoWrites THEN "settings" ELSE "popup"

MCInit ==
  /\ Init /\ PageInit /\ S!Init
  /\ about = About
  /\ about # "popup" => panod.hist = [c \in Content |-> NoRow]
  /\ about = "devices" => budget = NoWrites

MCNext ==
  /\ UNCHANGED about
  /\ \/ about = "popup" /\ Next /\ Apart' /\ Spared /\ UNCHANGED <<pageVars, confVars>>
     \/ about = "devices" /\ PageNext /\ UNCHANGED <<vars, confVars>>
     \/ about = "settings" /\ S!Next /\ UNCHANGED <<vars, pageVars>>

MCSpec ==
  /\ MCInit /\ [][MCNext]_<<vars, pageVars, confVars, about>>
  /\ Fairness /\ PageFairness /\ S!Fairness

-----------------------------------------------------------------------------
\* Settings: what is saved comes into effect.
SettingsApply == S!SettingsApply

\* Settings: the dialog leaves sync.enabled to panora-sync.
SyncFlagStands == S!SyncFlagStands
=============================================================================
