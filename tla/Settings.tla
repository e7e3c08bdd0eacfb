------------------------------ MODULE Settings ------------------------------
(* config.toml and those who write it: the preferences dialog of the GUI   *)
(* (crates/panora-gui/src/settings.rs), `panora-cli config`, and           *)
(* panora-sync, which turns sync.enabled on and off.  Each is a process of *)
(* its own that reads the file, changes its copy, saves the whole of it    *)
(* (Config::save: a temporary file all of them share, then a rename) and   *)
(* asks panod to read it again.  panod reads it when it starts, and its    *)
(* capture loop opens and drops the PRIMARY watch accordingly.             *)
(*                                                                         *)
(* A configuration is one setting with a row in the dialog                 *)
(* (history.record_primary), one without (history.duplicate_policy), and   *)
(* sync.enabled.                                                           *)
EXTENDS Naturals

CONSTANTS
  Setups   \* bounds what each writer does, and how often panod starts

VARIABLES
  disk,    \* config.toml, the temporary file, and how often it was saved
  w,       \* the writers
  gui,     \* the GUI process and the copy it read when it started
  member,  \* panora-sync: this device is in a group
  panod,
  mishap,  \* history: what went wrong on the way
  left     \* what is left of the bounds

vars == <<disk, w, gui, member, panod, mishap, left>>

Writer == {"gui", "cli", "sync"}

Config == [primary : BOOLEAN, policy : BOOLEAN, enabled : BOOLEAN]

Default == [primary |-> FALSE, policy |-> FALSE, enabled |-> FALSE]

NoFile == [is |-> "no file"]
Empty == [is |-> "empty"]
Broken == [is |-> "broken"]

\* Config::load.  No file and an empty one are the defaults, a file that
\* cannot be parsed or does not validate is an error.
load == IF disk.file \in {NoFile, Empty} THEN Default ELSE disk.file

\* "fd": the file a writer has open is the temporary one, the configuration
\* by now, or one that was replaced since.
NoSave == [at |-> "idle", next |-> Default, fd |-> "none", seen |-> 0]

Idle(p) == w[p] = NoSave

Acts(p) == left[p] > 0 /\ left' = [left EXCEPT ![p] = @ - 1]

Fails(why) == mishap' = mishap \cup {why}

-----------------------------------------------------------------------------
(* Config::save of a copy made from what was on disk after "seen" saves.   *)
Begin(p, next) ==
  w' = [w EXCEPT ![p] = [at |-> "open", next |-> next, fd |-> "none", seen |-> disk.saves]]

\* std::fs::write opens the temporary file, cutting it to nothing ...
OpenTemp(p) ==
  /\ w[p].at = "open"
  /\ disk' = [disk EXCEPT !.temp = Empty]
  /\ w' = [w EXCEPT ![p].at = "write", ![p].fd = "temp"]
  /\ UNCHANGED <<gui, member, panod, mishap, left>>

\* ... and writes over whatever another writer has put there since, whose
\* longer text keeps its end.
Over(text, next) == {next} \cup IF text = Empty THEN {} ELSE {Broken}

WriteTemp(p) ==
  /\ w[p].at = "write"
  /\ IF w[p].fd = "gone" THEN UNCHANGED disk
     ELSE \E text \in Over(disk[w[p].fd], w[p].next) : disk' = [disk EXCEPT ![w[p].fd] = text]
  /\ w' = [w EXCEPT ![p].at = "rename"]
  /\ UNCHANGED <<gui, member, panod, mishap, left>>

\* What the open files are once the temporary one, or an editor's, has
\* become the configuration.
Replaced(by) ==
  [p \in Writer |->
     [w[p] EXCEPT !.fd = CASE @ = "file" -> "gone" [] @ = "temp" /\ by = "temp" -> "file"
                           [] OTHER -> @]]

\* The dialog keeps what it saved.
Kept(p) == IF p = "gui" THEN [gui EXCEPT !.config = w[p].next] ELSE gui

Rename(p) ==
  /\ w[p].at = "rename"
  /\ IF disk.temp = NoFile
     THEN /\ w' = [w EXCEPT ![p] = NoSave] /\ Fails("failed")
          /\ UNCHANGED <<disk, gui>>
     ELSE /\ disk' = [file |-> disk.temp, temp |-> NoFile, saves |-> disk.saves + 1]
          /\ w' = [Replaced("temp") EXCEPT ![p] = [NoSave EXCEPT !.at = "reload"]]
          /\ gui' = Kept(p)
          /\ IF w[p].seen = disk.saves THEN UNCHANGED mishap ELSE Fails("clashed")
  /\ UNCHANGED <<member, panod, left>>

\* Daemon::apply_config: the configuration, and the epoch the loop waits on.
apply_config(d, config) ==
  IF config = Broken THEN d ELSE [d EXCEPT !.config = config, !.changed = TRUE]

\* Request::ReloadConfig, which nobody hears while panod is down or coming up.
Reload(p) ==
  /\ w[p].at = "reload"
  /\ w' = [w EXCEPT ![p] = NoSave]
  /\ panod' = IF panod.at = "up" THEN apply_config(panod, load) ELSE panod
  /\ IF panod.at = "starting" THEN Fails("unheard") ELSE UNCHANGED mishap
  /\ UNCHANGED <<disk, gui, member, left>>

-----------------------------------------------------------------------------
(* panora-cli config set, and config edit, whose editor writes the file    *)
(* itself and may leave it broken.                                         *)
CliSet(key, value) ==
  /\ Idle("cli") /\ load # Broken /\ Acts("cli")
  /\ Begin("cli", [load EXCEPT ![key] = value])
  /\ UNCHANGED <<disk, gui, member, panod, mishap>>

CliEdit ==
  /\ Idle("cli") /\ Acts("cli")
  /\ w' = [w EXCEPT !["cli"] = [at |-> "edit", next |-> load, fd |-> "none", seen |-> disk.saves]]
  /\ disk' = [disk EXCEPT !.file = IF @ = NoFile THEN Empty ELSE @]
  /\ UNCHANGED <<gui, member, panod, mishap>>

\* An editor that saves nothing, and ends well or with an error.
EditorQuits ==
  /\ w["cli"].at = "edit"
  /\ \E next \in {NoSave} \cup IF load = Broken THEN {} ELSE {[NoSave EXCEPT !.at = "reload"]} :
       w' = [w EXCEPT !["cli"] = next]
  /\ UNCHANGED <<disk, gui, member, panod, mishap, left>>

EditorSaves(text) ==
  /\ w["cli"].at = "edit"
  /\ text \in {Broken} \cup IF w["cli"].next = Broken THEN {Default}
                            ELSE {[w["cli"].next EXCEPT !.policy = ~@]}
  /\ disk' = [disk EXCEPT !.file = text, !.saves = @ + 1]
  /\ w' = [Replaced("editor") EXCEPT
             !["cli"] = IF text = Broken THEN NoSave ELSE [NoSave EXCEPT !.at = "reload"]]
  /\ mishap' = mishap \cup (IF text = Broken THEN {"broken"} ELSE {})
                      \cup (IF w["cli"].seen = disk.saves THEN {} ELSE {"clashed"})
  /\ UNCHANGED <<gui, member, panod, left>>

-----------------------------------------------------------------------------
(* The GUI reads its copy once.  The dialog fills its rows from it; closing *)
(* puts the rows into the copy, takes [sync] from the disk and saves when  *)
(* that changed anything.                                                  *)
NoGui == [runs |-> FALSE, dialog |-> FALSE, row |-> FALSE, config |-> Default]

GuiStart ==
  /\ ~gui.runs /\ Acts("gui")
  /\ gui' = [NoGui EXCEPT !.runs = TRUE, !.config = IF load = Broken THEN Default ELSE load]
  /\ UNCHANGED <<disk, w, member, panod, mishap>>

GuiQuits ==
  /\ gui.runs /\ Idle("gui")
  /\ gui' = NoGui
  /\ UNCHANGED <<disk, w, member, panod, mishap, left>>

OpenDialog ==
  /\ gui.runs /\ ~gui.dialog /\ Idle("gui") /\ Acts("gui")
  /\ gui' = [gui EXCEPT !.dialog = TRUE, !.row = gui.config.primary]
  /\ UNCHANGED <<disk, w, member, panod, mishap>>

FlipRow ==
  /\ gui.dialog
  /\ gui' = [gui EXCEPT !.row = ~@]
  /\ UNCHANGED <<disk, w, member, panod, mishap, left>>

OnDisk_Cached(config) == config.enabled
OnDisk(config) == IF load = Broken THEN config.enabled ELSE load.enabled

CloseDialog ==
  /\ gui.dialog
  /\ LET current == [gui.config EXCEPT !.enabled = OnDisk(gui.config)]
         next    == [current EXCEPT !.primary = gui.row]
         closed  == [gui EXCEPT !.dialog = FALSE, !.row = FALSE]
     IN  IF current = next
         THEN gui' = [closed EXCEPT !.config = current] /\ UNCHANGED w
         ELSE Begin("gui", next) /\ gui' = closed
  /\ UNCHANGED <<disk, member, panod, mishap, left>>

-----------------------------------------------------------------------------
(* panora-sync: four ways into a group and out of it, each of which ends   *)
(* with set_sync_enabled.                                                  *)
Becomes(in) ==
  /\ member # in /\ Idle("sync") /\ Acts("sync")
  /\ member' = in
  /\ w' = [w EXCEPT !["sync"].at = "load"]
  /\ UNCHANGED <<disk, gui, panod, mishap>>

ensure_group == Becomes(TRUE)
join_at == Becomes(TRUE)
receive_rosters == Becomes(FALSE)
leave == Becomes(FALSE)

set_sync_enabled ==
  /\ w["sync"].at = "load"
  /\ CASE load = Broken -> w' = [w EXCEPT !["sync"] = NoSave] /\ Fails("failed")
       [] load # Broken /\ load.enabled = member ->
            w' = [w EXCEPT !["sync"] = NoSave] /\ UNCHANGED mishap
       [] OTHER -> Begin("sync", [load EXCEPT !.enabled = member]) /\ UNCHANGED mishap
  /\ UNCHANGED <<disk, gui, member, panod, left>>

-----------------------------------------------------------------------------
(* panod.  The configuration is read first; the keyring may then keep it   *)
(* waiting before the socket is there.                                     *)
Down == [at |-> "down", config |-> Default, loop |-> "begin", changed |-> FALSE, want |-> FALSE,
         can |-> FALSE, primary |-> FALSE, lost |-> FALSE]

\* "can": the backend has a PRIMARY selection to watch.
PanodStart ==
  /\ panod.at = "down" /\ load # Broken /\ Acts("panod")
  /\ \E can \in BOOLEAN : panod' = [Down EXCEPT !.at = "starting", !.config = load, !.can = can]
  /\ UNCHANGED <<disk, w, gui, member, mishap>>

PanodServes ==
  /\ panod.at = "starting"
  /\ panod' = [panod EXCEPT !.at = "up"]
  /\ UNCHANGED <<disk, w, gui, member, mishap, left>>

PanodStops ==
  /\ panod.at # "down"
  /\ panod' = Down
  /\ UNCHANGED <<disk, w, gui, member, mishap, left>>

\* Daemon::run subscribes to the epoch and opens the watch it is to begin
\* with, which takes a while.  When that fails the loop ends, and panod with
\* it.
run(d) == [d EXCEPT !.loop = "first", !.want = d.config.primary, !.changed = FALSE]

LoopStarts ==
  /\ panod.at = "up" /\ panod.loop = "begin"
  /\ panod' = run(panod)
  /\ UNCHANGED <<disk, w, gui, member, mishap, left>>

primary_watch_Late(d) == [d EXCEPT !.loop = "select", !.primary = d.want /\ d.can, !.changed = FALSE]
primary_watch(d) == [d EXCEPT !.loop = "select", !.primary = d.want /\ d.can]

WatchOpens ==
  /\ panod.loop \in {"first", "opening"}
  /\ panod' = primary_watch(panod)
  /\ UNCHANGED <<disk, w, gui, member, mishap, left>>

\* A watch that cannot be opened, or that ends, is not opened again before
\* the configuration changes.
WatchFails ==
  /\ panod.loop = "opening" /\ panod.can
  /\ panod' = [panod EXCEPT !.loop = "select", !.lost = TRUE]
  /\ UNCHANGED <<disk, w, gui, member, mishap, left>>

WatchEnds ==
  /\ panod.loop = "select" /\ panod.primary
  /\ panod' = [panod EXCEPT !.primary = FALSE, !.lost = TRUE]
  /\ UNCHANGED <<disk, w, gui, member, mishap, left>>

\* The arm of the select for a new configuration.
LoopChanged ==
  /\ panod.loop = "select" /\ panod.changed
  /\ panod' = LET d == [panod EXCEPT !.changed = FALSE]
              IN  CASE d.config.primary /\ ~d.primary ->
                          [d EXCEPT !.loop = "opening", !.want = TRUE, !.lost = FALSE]
                    [] ~d.config.primary /\ d.primary -> [d EXCEPT !.primary = FALSE]
                    [] OTHER -> d
  /\ UNCHANGED <<disk, w, gui, member, mishap, left>>

-----------------------------------------------------------------------------
Init ==
  /\ disk = [file |-> NoFile, temp |-> NoFile, saves |-> 0]
  /\ w = [p \in Writer |-> NoSave]
  /\ gui = NoGui
  /\ member = FALSE /\ panod = Down /\ mishap = {}
  /\ left \in Setups

WriterNext ==
  \/ \E p \in Writer : OpenTemp(p) \/ WriteTemp(p) \/ Rename(p) \/ Reload(p)
  \/ set_sync_enabled

UserNext ==
  \/ \E key \in {"primary", "policy"}, value \in BOOLEAN : CliSet(key, value)
  \/ CliEdit \/ EditorQuits
  \/ \E text \in Config \cup {Broken} : EditorSaves(text)
  \/ GuiStart \/ GuiQuits \/ OpenDialog \/ FlipRow \/ CloseDialog
  \/ ensure_group \/ join_at \/ receive_rosters \/ leave

PanodNext == PanodStart \/ PanodServes \/ PanodStops \/ LoopStarts \/ WatchOpens \/ WatchFails \/ WatchEnds
             \/ LoopChanged

Next == WriterNext \/ UserNext \/ PanodNext

\* A process goes on with what it does; users need not.
Fairness ==
  /\ WF_vars(WriterNext) /\ WF_vars(PanodServes)
  /\ WF_vars(LoopStarts) /\ WF_vars(WatchOpens \/ WatchFails) /\ WF_vars(LoopChanged)

Spec == Init /\ [][Next]_vars /\ Fairness

-----------------------------------------------------------------------------
(* When the changes end, panod runs with what the file says, and the       *)
(* PRIMARY watch is open exactly when that asks for it, whatever was saved *)
(* while the loop was opening a watch, unless the last watch it opened     *)
(* failed or ended (Config::save, reload_config, run).  Left out: a save   *)
(* that another cut short, and a reload that came while panod was          *)
(* starting, when it has read the file and does not listen yet.            *)
InEffect ==
  panod.at = "up" /\ load # Broken /\ mishap \cap {"failed", "unheard"} = {} =>
    /\ panod.config = load /\ (panod.primary => load.primary)
    /\ load.primary /\ panod.can => panod.primary \/ panod.lost

SettingsApply == <>[]InEffect

(* When the changes end, sync.enabled tells whether this device is in a    *)
(* group: the dialog does not put back the value it read when it started,  *)
(* not even when the device joined from that very dialog (save).  Left     *)
(* out: writers that read the same file before either saved.               *)
FlagStands == load # Broken /\ mishap \ {"unheard"} = {} => load.enabled = member

SyncFlagStands == <>[]FlagStands

(* What Config::save says of itself: the file is replaced as a whole, also *)
(* when two processes save at the same time.                               *)
SavedWhole == "broken" \notin mishap => load # Broken

(* What `config set` tells its user: the new value is on disk.  The dialog *)
(* of a GUI that was started before puts the old one back.                 *)
SetStands ==
  [][load # Broken /\ Rename("gui") /\ mishap' = {} => load'.policy = load.policy]_vars
=============================================================================
