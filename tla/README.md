# Panora in TLA+

Panora is a clipboard history for Linux: a daemon (`panod`) that records what is
copied into an encrypted database, clients that show it, and a separate service
(`panora-sync`) that keeps the histories of a person's own computers in step over
the local network. This directory models the parts of it where an order of
events nobody wrote a test for can lose something: who is in a sync group and
who has its key, how a device gets in, how devices find and talk to each other,
how their histories are exchanged, what the store survives, what the daemon does
with a clipboard that changes under it, and what the windows show meanwhile.

Paths below are relative to `src/`.

## The system

| Part | Source | State | Operations | Hard because |
|---|---|---|---|---|
| Group membership | `crates/panora-sync/src/group.rs` | the signed rosters a device keeps (at most 8), the group keys that go with them | create, join, add, remove, apply a chain from a peer, redo changes after a lost fork, accept a key, prune | members change the list at the same time; forks are judged by each device alone |
| Sync node | `node.rs`, `state.rs` in the same crate | identity, group and cursors behind a mutex, the state file, the connection table | ensure_group, join, invite, remove, leave, received rosters and keys, dial, accept, register, save, load | the mutex is released while messages travel; saves fail; crashes bring old files back; connections cross |
| Pairing | `pairing.rs`, `invite.rs`, `wire.rs`, `control.rs` | an open window behind a mutex, its epoch, attempts and deadline | invite by code or link, join, approve, welcome, commit, cancel | minutes between the first check and the commit |
| Session | `session.rs`, `frame.rs`, `transport.rs`, `panod.rs` | whether the peer has said hello, one batch in flight, one cursor per peer | hello, rosters, keys, push, Records, Applied, Retry, Bye | membership changes while a session runs; sessions break at any point |
| Discovery | `discovery.rs` | what is announced, what was heard | announce, browse, refresh every hour | three locks one after the other; clocks differ |
| History store | `crates/panora-core/src/storage/db.rs`, `blob.rs`, `../sync.rs` | entries, tombstones, blob references and files, `change_seq`, `lamport_clock`, schema version | upsert, stamp, pin, tombstone, restore, strip, purge, evict, wipe, read the feed, apply a peer's state, reseal, migrate | every operation is several statements; the counters outlive the rows; ids are used again |
| Keys | `crates/panod/src/keyring.rs`, `crypto.rs`, `lock.rs`, `backup.rs` | the live key, a rotation's pending key, the lock's backup, the fingerprint in the database | load or create, rotate, wipe, set and remove a password | keyring and database are written one after the other |
| Daemon | `crates/panod/src/daemon.rs` | the store, private mode, locks, the last capture, the last recall | capture, recall, timed clear, import, delete and undo, clear, wipe, retention, `sync_changes`, `sync_apply`, rotation, lock | waits (a thumbnail, the clipboard's owner, the keyring) in the middle of operations |
| Clipboard backends | `crates/panod/src/backend/`, `gnome.rs` | selection ownership, transfers | watch, read, offer, clear, serve a paste | the X11 and Wayland protocols; other applications |
| Interfaces | `crates/panod/src/server.rs`, `dbus_api.rs`, `ipc/` | connections, subscriptions, the revision | requests and events | changes between an answer and the next wait |
| Configuration | `crates/panora-core/src/config.rs` | `config.toml`, every program's copy | load, save, reload | three programs write it |
| Windows | `crates/panora-gui/src/window.rs`, `devices.rs`, `settings.rs` | what is shown, what is on its way | search, page, poll, recall, pair, probe, save | callbacks and worker threads; answers come late |
| Privacy, classification, search | `privacy.rs`, `sensitive.rs`, `search.rs` | | evaluate, detect, match | functions without state |
| Command line, tray, extension | `panora-cli`, `gnome-extension` | | one request each | clients of the daemon |

How they meet: `panora-sync` holds the group and talks to other devices; for
entries it asks `panod` over its socket (`SyncChanges`, `SyncApply`, `Status`),
one connection per call, so its calls interleave. `panod` runs its tasks on one
thread and interleaves only where it waits; the backends have threads of their
own that send it events. Membership decides who gets a session and the key; the
record exchange needs both and otherwise looks like a broken session. The
windows poll `panod`, subscribe to nothing, and write the configuration that
`panod` and `panora-sync` read.

What makes the parts correct:

* membership: two devices that have heard each other are on the same branch
  unless the design names a reason; a removal is never undone; the saved
  rosters and keys always validate; keys go only to devices that a roster lists;
* pairing: a cancelled pairing admits nobody; a window admits one device; the
  mutex around it is always given back;
* sessions and discovery: members find each other, keep one connection and come
  into step; strangers and removed devices learn nothing;
* record exchange: the devices show the same entries in the same state once
  they have read each other's feeds; nothing a device has confirmed was skipped;
  a stamp means one state; secrets stay; the exchange comes to rest;
* store: what was stored stays readable until it is let go on purpose, across
  rotations, crashes and upgrades;
* clipboard: no bytes are stored under another owner's verdict; only the last
  copy is ever put back; a timed clear takes only what it was set for; a paste
  is whole or visibly not;
* windows: what is at rest on the screen is what was asked for, and what is
  there; no answer counts for another question; what is saved takes effect.

## Modules

| Module | Models | Used by |
|---|---|---|
| `Roster` | rosters, `verify`, `check_successor`, `fork_winner`, `changes_to_reapply` as operators | `GroupState` |
| `GroupState` | one device's view: create, join, add, remove, `apply_chain`, `prune`, keys | `SyncGroup` |
| `SyncGroup` | the devices together: node state, state files, chains and key shares on their way, pairing as far as it changes lists, leaving, crashes | `MCSyncGroup` |
| `Pairing` | the inviting device's window: control clients that open and close it, connections that pair in it, the mutex and the epoch between them | `MCPairing` |
| `Sessions` | connections between devices, the table of them, and the session protocol | `MCSessions` |
| `Discovery` | announcements and what becomes of them | `MCSyncLive` |
| `Entries` | one device's database as synchronisation sees it, each operation as the sequence of states its statements go through | `HistorySync` |
| `HistorySync` | the devices exchanging their feeds: user operations, retention, push, apply in one or two steps, confirm, retry, crashes | `MCHistorySync`, `MCSyncLive` |
| `Archive` | abstract: what panod promises about an entry | `Vault` |
| `Vault` | rows, files and keys of one panod with rotation, wipe, lock and crashes; implements `Archive` | `MCVault` |
| `Migration` | making and upgrading the database file across releases | `MCVault` |
| `Clipboard` | selections, watchers, the capture loop, recalls, timed clears | `MCDesktop` |
| `Transfer` | serving pastes: INCR on X11, pipes on Wayland | `MCDesktop` |
| `Service` | what panod answers: lists, changes, the lock, the revision, subscribers | `Popup` |
| `Popup` | the popup over `Service` | `MCGui` |
| `Devices` | the devices page, its requests, and the control socket behind them | `MCGui` |
| `Settings` | `config.toml`, its three writers, and panod following it | `MCGui` |
| `SyncGroupProofs` | theorems about `Roster`, `GroupState` and `SyncGroup` | |
| `PairingProofs`, `SessionsProofs`, `ClipboardProofs`, `TransferProofs` | theorems about the module of that name | |
| `HistorySyncProofs` | theorems about `Entries` and `HistorySync`, and that devices which have read each other's feeds agree | |
| `VaultProofs` | theorems about `Vault` and `Migration` | |
| `GuiProofs` | theorems about `Popup` (with `Service`) and `Devices` | |
| `MC...` | starting points, setups and views for TLC | |

`MCDesktop`, `MCVault` and `MCGui` look at two systems each. Their modules are
extended side by side, so the second of each pair has names of its own: `Transfer`'s,
`Migration`'s (`DbSpec`) and `Devices`' (`PageSpec`).

Operators named `X_Something` beside an `X` are variants with a plausible
mistake; `PROJECT.json` lists which property each of them breaks.

### Membership

State. `group[d]` is `SyncState.group` in memory and `disk[d]` what the file
holds. A roster is a record with a fresh number as its hash; `prev` is the hash
of its predecessor. A signature is the name of its signer: only that device can
make a roster with it. A key is its epoch and the number its `key_check` hash
stands for. The orders `fork_winner` uses to break ties (hashes of the signers'
keys with the fork, hashes of rosters) are the constants `SignerRank` and
`HashRank`; the code's are pseudo-random, so nothing may depend on them.

Actions. `Create`, `RemoveDevice`, `ReceiveRosters`, `Redo`, `ShareKey`,
`ReceiveKey`, `StartJoin`, `Approve`, `CommitAdmission`, `AdmissionFails`,
`FinishJoin`, `AbandonJoin`, `Leave`, `Restart` are the operations of `Node` and
`Shared` that change the state, each with the save that ends it. Where the code
releases the mutex the action ends: pairing is approved on a copy, the welcome
travels, and the commit finds whatever has happened meanwhile.

`receive_rosters` holds the mutex while it redoes changes after a lost fork. The
loop is the sequence `redo`; a device that has one does nothing else, nobody
sees its view, and `Restart` may cut it. The changes come out of hash sets in
the code, so any order is taken here.

Channels. Whatever was sent can arrive at any later time, any number of times,
or never. A share is addressed to an identity: sessions close when a device
leaves, so an old share cannot reach the new identity.

### Pairing window

State. `slot` is the `PairingSlot`, named by the epoch that opened it; `holder`
and `queue` are the fair tokio mutex around it; `window_epoch` is the atomic.
`client` holds the control connections, `conn` this device's side of each
pairing connection. `cancelled` and `welcomed` are history variables:
`cancelled` collects the pairings that had loaded the epoch before a bump and
had still to compare it. A bump after the comparison comes too late, in the code
as here.

Actions. `OpenBump`, `OpenLock`, `Install`, `ShowWindow` are `invite` and
`open_code_window`; `ShowRequest`, `AnswerRequest` the client's loop over events;
`CloseCheck`, `CloseBump`, `CloseClear` are `close_window`; the others are
`answer_pairing` and `run_inviter`. The runtime has several threads, so an action
ends after every access to the epoch or the mutex. Steps that touch nothing
shared are joined with the next one (the reveal with the introduction, the answer
with the comparison).

What is abstracted: the joiner's messages (any of them may be wrong, late or
missing, `PairingFails`); keys (knowing an invitation's secret is knowing its
number); time (a deadline may pass at any moment); what the group does with the
device, which is `SyncGroup`'s. A control client opens one window.

### Record exchange

State. `history[d]` is the database: rows by content (a content hash and a
selection), `change_seq`, `lamport_clock`. `cursor` and `batch` are the
sender's, per peer. `suspended` holds the applies that wait for a thumbnail.
`heard` is a history variable: `FeedMissesNothing` and the proofs read it, no guard does.

Actions. `Capture`, `SetPinned`, `Delete`, `Restore`, `Import`, `Clear`, `Wipe`,
`Maintain`, `TogglePrivate` are the user's (and the hourly) operations with the
retention pass that ends them. `Push` is `push`; `CheckPaused`, `Apply`,
`ApplyNew`, `ApplyImage`, `Resume` are `receive_records` and `apply_record`, cut
where the code waits for another process or thread; `Confirm` is `Applied`;
`Drop` is the end of a session or a `Retry` for want of a key or a daemon;
`Rejoin` clears the cursors. `Crash` leaves the database after any statement of
an operation that could be running.

What is abstracted: times (a deletion is in its undo window while its payloads
are attached; limits and age decide by choice which unpinned rows a retention
pass takes, but never the row just touched unless it does not fit at all); the
search index, previews and kinds; the exclusions of entries with too many or
too large formats and of other scopes (both skip rows for every reader alike);
the byte limit of a page (`PAGE` counts records); the order within a batch (any).
An archive's sensitive flag is taken to be the detector's. Rows get fresh ids,
although SQLite reuses them (`Vault` has that). The cursor's own state file is
not modelled: an older cursor after a crash is one more reason to send again,
which `Rejoin` does from zero. Only the default `duplicate_policy` is modelled.

### Sessions

State. `list` is the sequence of device lists signed so far, `view` and `keys`
what each device holds of it. `link`, `dialling` and `known` are `Shared.peers`,
`Shared.dialling` and `Shared.addr_of`; `conn` the connections, `end` each side's
task with its command queue, `wire` what is on its way (in order, until the
connection ends). `seq`, `cursor` and `applied` reduce a feed to its length.

Actions. `Dial`, `Register`, `Duplicate`, `AuthFails`, `Over` are `dial_loop`,
`dial_once`, `accept_loop` and `run_session` with `register`; `Receive` is the
message arm of `session_loop` (one operator per message), `Obey` the command arm,
`Tick`, `Push`, `Probation`, `Closed`, `HangUp` the others; `RemoveDevice` and
`Admit` change the list and tell the sessions (`after_roster_change`). A task that
asks panod for a batch is in the middle of its turn (`asking`) while others run.

What is abstracted: forks, leaving and `Redo` (`SyncGroup` has them: here lists
follow one another), the contents of records, who authenticates how. `InStep`
excuses one order that the code drops, see below.

### Discovery

State. `seen` and `sync_name` are the two locks of `Discovery`, `group` what
`SyncState` says, `clock` the hour on each device, `calls` where each thread is in
`advertise` or `refresh`. `cache` is the external mDNS daemon: it keeps the last
announcement of each device and reports changes; one that is replaced before it
arrives is never seen.

Actions. `Change` (create, join, leave) and `Advertise`, `refresh`, `LookFor`,
`Announce`, `Unregistered`, one per lock; `Browse` is the browsing thread; `Tick`
the hour. Clocks are less than an hour apart, and an hour is long for a loop that
comes by every 15 s: `Tick` waits for the calls of its device.

### Store

`Archive` says what a user relies on: an entry is noted, filled, and stays whole
until it is let go on purpose. `Vault` has the rows with their ids (used again, as
SQLite does), the blob files, the three items of the keyring, the fingerprint and
the rotation marker in the `meta` table, and the requests as tasks that interleave
only where the code waits for the keyring or a thumbnail; a crash may come between
any two writes and a refusal at any keyring call. `Kept` maps this to `Archive`: an entry
counts as lost when neither the keyring nor the process has the key of its row or
of one of its files, a state `Archive` does not have. So `KeepsArchive`
(`Promise!Spec`) says that rotation, restart and locking are invisible.

`Migration` has `Database::prepare` statement by statement: creating, the backup
before a migration, each step and its version number in separate commits, a
process that dies or runs out of disk, an old release that uses the file again,
and the user who puts the backup back.

What is abstracted: a ciphertext is the key it was made with. Only the process
crashes, not the machine (no unsynced writes). One of rotation, wipe and password
change at a time. In `Migration` the key is the right one, an old release is this
code with a lower schema version, and rows are never purged.

### Clipboard and transfers

`Clipboard` has applications that take, replace and drop a selection, the watcher
thread of each kind of backend, the queue of events, the capture loop with its
waits (`Read` per format, the second look `Recheck`, `Store`), the slot of the last
entry and `Refill`, recalls (`Recall`, `RecallOffer`, `RecallCounted`, `Paste`) and
the tasks that clear after a recall. A payload is `<<format, copy>>`, so bytes of
two owners in one entry can be told. The backend is one of X11, Wayland, a Wayland
desktop whose own keeper holds the clipboard, and the GNOME bridge. There the shell
extension takes the watcher's place: `BridgeCapture` is its timer, which reads the
list, and `BridgeRead` each callback with one format; several captures may be under
way (`shell`), and `HandleGnomeData` stores what is pushed without a second look.
For the properties only, `turn` counts the changes of a selection, `gones` the
emptied ones the daemon has handled, and an event remembers what emptied the
selection and when the clear behind it set its mark.

`Transfer` has the owner thread's inbox, its table of incremental transfers with
their timeouts, and requestors that use several properties, stall, leave and ask
again; on Wayland a writer thread per pipe. `MCDesktop` extends both modules, so
`Transfer`'s specification has names of its own (`PasteInit`, `PasteNext`,
`PasteSpec`).

What is abstracted: focus follows the last copy; whether a payload is too large is
a choice; text filters are sets of copies. Not here: `ensure_from_shell`, the state
an X11 watcher starts from, receiving incrementally.

### Windows

`Service` gives panod's answers as operators and actions: `list` under the lock,
the requests that change something with the retention they end in, the revision
and its watch channel, and `subscribe_loop`. `Popup` extends it with the window: keystroke
timers, queries and their generation, further pages, the poller, recalls that
hide the window, undo. A GTK callback with its short requests is one step; pages
and recalls are answered by worker threads in any order, and fail.

`Devices` has the page's probes with the timer that repeats them, also while one
is under way, and reports that time out, the switch (a systemd unit started and
stopped) and removals with a worker thread each, subpages with their reader thread and connection, and the service's task for each
request with its question to the user. `Settings` has the writers of `config.toml`
with the temporary file they share, opened, cut, written and renamed in separate
steps, `sync.enabled` following the ways into a group and out of it, and panod's
reload and PRIMARY watch, which the backend may not have and which may fail or end.

What is abstracted: an entry's id is its content; widgets, previews and keys; in
`Devices` a window's mutex (`Pairing` has it), the code shown and the question are
one event, the unit is always installed; in `Settings` three settings stand for
the file, and what does not parse or validate is `Broken`.

## Runs

All bounds are constants of the configurations or of the MC modules' setups.

| Run | Instance | Shows |
|---|---|---|
| `fork` | 4 members, 3 of which changed the list at once (every choice of whom to remove; one of them may add a fifth device instead), 3 rosters kept | forks of three authors, with redone removals and additions, crashes, and forks falling out of the history: `SplitOnlyWhenNamed`, `RemovalSticks` |
| `pair` | 3 devices, 2 identities each, pairing against removal, leaving and another pairing, failing saves, key shares in any order | `SavedGroupValidates`, `KeysOnlyForMembers` |
| `window` | 2 control clients, 2 joining devices, 1 attempt by code and 2 by invitation | opening, replacing, closing and expiry of a window against pairings at every step: `CancelledNeverAdmits`, `AdmitsOnce`, `MutexGoesOn` |
| `sessions` | 3 devices, 2 connections at a time; crossing dials with a broken connection, a stranger that may be admitted meanwhile, removals with records and a fault | `StrangersHearNothing`, `KeysStayInside`, `OneLiveSession`, and under fairness `InStep` |
| `history_mesh` | 3 devices, 1 entry, one batch in flight at a time | convergence, directly and through a third device: `AgreeWhenQuiet`, `Everywhere`, `PeerHasItsOwn` |
| `history_rows` | 2 devices, a secret and a text that one device refuses; private mode, import, retention, forgotten tombstones, clear, wipe, rejoin | `SecretsStay`; counters and stamps after rows are gone: `SameStampSameState` |
| `history_crash` | 2 devices, an image (applied in two steps), broken sessions, a crash after any statement of a capture, a deletion, an undo or an apply | `FeedMissesNothing` |
| `sync_live` | 2 devices; discovery: 2 groups, 5 hours, 2 changes or refusals; exchange: an image, Lamport values up to 2 | under fairness `MembersFound`, `Settles` |
| `vault` | 2 entries that share a payload, one with a thumbnail, 2 rows, 3 keys, 2 tasks; four mixes of requests with crashes or refusals; upgrade from schema 2 to 5 with 3 ids and 2 faults | `KeepsArchive`, `RotationResumes`; `UpgradeResumes`, `WayBack` |
| `desktop` | 3 copies (ordinary, refused, marked secret) of two formats each, 4 backends, 3 changes of the selection; captures, or 1 recall, or 2 of them with their clears on plain Wayland; pastes: 2 windows, 3 properties, 2 chunks, 3 requests, 1 stall | `SecondLook`, `RestoresOnlyTheLast`, `ClearIsFinal`, `ClearSparesHeard`, `Cleared`; `WholeOrNothing`, `Delivered` |
| `gui` | popup: 2 entries, pages of 1 row, 2 user actions, 1 failing request, 1 subscriber; devices page: 5 setups, with a report that times out where the timer runs; settings: 4 setups | `OnlyMatches`, `ComesUpToDate`, `SubscriberHears`; `AnswersMatch`, `ClosedCancelsAll`, `NotStale`, `RequestsEnd`, `PageSettles`; `SettingsApply`, `SyncFlagStands` |
| `vault_restart` | as `vault`, rotations with crashes | ends in a violation, see below |

`vault`, `desktop`, `gui` and `sync_live` each look at parts that share no state. A
behaviour is of one of them: the other parts' variables stay as they began, in a
state in which no step of theirs that fairness speaks of is enabled.

Why the bounds are enough. A fork needs two authors, a circle of removals three,
and a bystander to judge it a fourth. A window needs its user, another user who
replaces it, a device that gets in and one that comes too late. Crossing needs one
connection from each side, and a removal that crosses a key request a third device
to be removed first. In the exchange, a disagreement needs two writers of one entry and a
reader; Lamport values up to 2, and the ticks of `MAX_STORES` above, give each of
them a change, a reaction and a tie. In `history_crash` panod dies while its
change counter is below 4: in a capture, which counts two, in the deletion after
it, and in what follows that deletion's first half. `history_mesh` keeps one batch in flight: any
order of arrival remains, and stale batches still cross the ends' own changes, but
two stale batches cross each other only in the two-device runs. In `Discovery`,
changes end in the second hour: the announcement of one later hour may go by a
crossed call, the next puts that right and the last is heard. A rotation that is
interrupted, taken up and followed by another needs three keys; a shared payload
two entries; a reused id one purge. Three changes of a selection are away, back
and away again. Pages of one row make a second entry a second page.

`VIEW Ranked` identifies states whose change counters differ in value but not in
order, which no action can tell apart; runs with crashes, whose guard compares a
counter with `MAX_SEQ`, do not use it. `window` uses symmetry of clients and of
connections, and checks no liveness.

Deadlock is not checked: when the bounds are used up, or nobody changes anything,
the system may stop.

Fairness. Weak fairness of what a thread, task or timer does by itself, never of
users, of faults, or of other applications' choices:

* `HistorySync`: every session goes on (it pushes on each 10 s tick, on each
  change and after each answer), the daemon answers, a thumbnail gets done. The run has no
  broken sessions: a network that always fails in time allows no progress.
* `Sessions`: dialling is tried again every 15 s; tasks take their messages and
  timers; a connection that authenticates may always fail only as often as
  `MAX_FAULTS`. `Obey` has strong fairness: a command waits in a queue while the
  task is `asking` again and again, and `select!` picks fairly among what is ready.
* `Discovery`: threads go on, packets arrive, hours pass.
* `Clipboard`, `Transfer`: the watcher, the capture loop, recalls and timers go on;
  a requestor that has not stalled reads on.
* `Popup`, `Devices`, `Settings`: timers, worker threads and tasks go on, the user
  does nothing; a program that has begun to save goes on.

### Where the code and its documentation disagree

`vault_restart` ends in a violation, and the finding in `PROJECT.json` quotes the
lines. `rotate_key` reseals the database under the new key, and only then makes it
the live one in the keyring. When panod dies in between, the next start loads the
live key only, `check_key` finds the other fingerprint, and panod refuses to start:
nothing can call `rotate_key` again, although the pending key is still in the
keyring (`RotationResumes`) and every entry readable with it (`KeepsArchive`). The
comment at `daemon.rs:360-369`, the book (`docs/book/src/cli.md:218-220`) and the
changelog promise that calling it again resumes.

The modules define further properties that no run checks, because the code does
not have them; checking one gives TLC's counterexample. Each quotes a comment or a
document.

| Property | What happens | Where |
|---|---|---|
| `SyncGroup!SavedGroupIsOwn` | leaving during a join installs the group for the identity just given up; the file is refused at the next start | `node.rs:764` |
| `Sessions!ToldInSession` | a new list told to a session whose peer has not said hello is dropped, and the hello before it had the older list; the next change or session repairs it | `session.rs:296-305` against `node.rs:341` |
| `Discovery!AnnouncesOwnGroup` | `refresh` reads the group, and announces it after a leave that came between | `discovery.rs:248-258` against `discovery.rs:6` |
| `Vault!WipedIsGone` | a store that waits for its thumbnail writes it after the wipe | `daemon.rs:1142-1147` |
| `Popup!PageTells` | an answer equal to what was shown last returns early and leaves the stack as it was: an empty history starts with an empty grid, and an error page stays | `window.rs:863-874` against `844-846` |
| `Popup!NoGaps` | a further page is asked for by offset; entries that moved meanwhile are skipped or shown twice | `window.rs:973-975` |
| `Service!FirstEventIsCurrent` | a watch channel nobody listens to keeps an old value, which a later subscriber hears first | `daemon.rs:320-324` against `ipc/mod.rs:508` |
| `Service!RevisionTells` | the hourly upkeep drops rows without moving the revision | `daemon.rs:1209` against `docs/dbus-api.md:78-81` |
| `Devices!WindowHasClient` | when the first event cannot be written because the client has gone, the request returns early and its window stays open until it expires | `crates/panora-sync/src/control.rs:139-148` against `crates/panora-core/src/sync/control.rs:11-12` |
| `Settings!SavedWhole` | two programs that save at once share one temporary file | `config.rs:438-447` |
| `Settings!SetStands` | the dialog saves the copy it read when the GUI started, over a value set since | `settings.rs:438` |
| `Clipboard!BridgeSparesSecrets` | the extension reads the list once and then one format after another; a secret copied in between is read, pushed with the older list and stored | `gnome-extension/extension.js:604-666` against `47-48` |
| `Clipboard!ExitPersists` | a timed clear of a selection that is already empty causes no event; its mark makes the daemon ignore the exit that emptied it | `daemon.rs:1407` |

`TypeOK` of each module, `Pairing!AttemptsBounded`, `Popup!ShownIsPolled` and
`Transfer!Watched` hold on the runs' instances; they are weaker than what the runs
check and are kept for reading and for proofs (`AttemptsBounded` is proved).

Three more orders, without a property of their own: redoing changes stops at the first that fails, so an
addition that no longer fits takes the removals after it along (`group.rs:912`); a
change a user makes during the thumbnail of a synced image is overwritten by the
older remote state (`daemon.rs:1684`); panod reads its configuration before it
waits for the keyring, and a reload sent meanwhile is not heard (`SettingsApply`
leaves it out, as `unheard`).

### Limits of the passing runs

Some passing runs leave out events under which their properties do not hold; the
constants say so (`Happens`, `Image`, `Apart`, `Oversized`, `Setups`), and adding the event
to the configuration gives the counterexample. The hazards in `PROJECT.json` name
the lines.

* Where redoing a change can fail, a removal that a lost fork dropped is not made
  again (`RemovalSticks`): the group is full or at its last epoch, or the device left
  during a join and its group is still for the identity given up. With a failing
  save the file that a later save is compared with is not the view it came from.
* A crash between a change and its stamp leaves the change under the old stamp
  and no peer takes it over (`SameStampSameState` with `"crash"`); one between
  reviving a deleted secret and flagging it leaves it in the feed (`SecretsStay`).
* Private mode switched on between the question and the apply: the records are
  dropped and confirmed (`FeedMissesNothing` with `"private"`).
* After an eviction a device can be left with an older state than the one it
  made, which nobody sends back to it (`PeerHasItsOwn` with `"evict"`).
* A record that waits for its thumbnail is applied over what changed meanwhile:
  a deletion made in between stays but gets the record's older stamp
  (`SameStampSameState`, `PeerHasItsOwn`, `AgreeWhenQuiet` with an image, two
  devices and `MAX_CLOCK = 3`).
* A wipe that is cut short, by a crash or by a keyring that refuses, after the rows
  are bound to the new key: the keyring does not have it (`RotationResumes`
  when `Wipes` in `MCVault` dies or is refused).
* A deletion that arrives before the entry is forgotten; where two devices meet
  only through a third they keep the entry (`AgreeWhenQuiet` with `Apart`).
* The PRIMARY selection's last entry is kept after its owner has gone, and nothing
  puts it back: `RestoresOnlyTheLast` is about the clipboard.
* An entry larger than the receiver's whole history is stored, evicted by the
  pass that ends the same store, and asked for again at every tick (`Settles`
  with `Oversized`).

`history_mesh` therefore claims convergence for text, without eviction, crashes
and private mode, and for devices that all meet. The Lamport ceiling is in the
model and no run comes near it.

What `window` does not claim: that a closed window is gone. `close_window`
compares, bumps and tries the mutex in three steps. A connection that is just
being turned away makes the try fail; the closed window then stays, and a
pairing that loads the new epoch can still succeed in it. And a window
opened between the bump and the try is cleared although it is newer. Both need
another thread within a few instructions; the comment at `node.rs:619-621` (the
window accepts no more devices, a newer one stays open) is meant without it. A bump
that comes just before a pairing starts to listen for it wakes nobody; the pairing
then waits for its user until `ANSWER_TIMEOUT` and fails the comparison. The model
has no clock to tell.

Further limits:

* `Sessions`: a key request to a peer that has not got the key either is dropped
  (`session.rs:253`); the model has it and `InStep` holds in the instance, where the
  next `Rosters` or `Records` asks again. Split groups answer each other's chains for ever
  (`node.rs:321`): no forks here. Two session loops that each write a large
  `Records` and read nothing could block each other; streams here are unbounded.
  `Applied` after a leave writes a cursor nobody uses.
* `SavedGroupValidates` is `GroupState::validate`, one of the two checks of
  `SyncState::load`. The other is `SavedGroupIsOwn`, in the table above.
* `SecondLook` tells owners apart by their MIME lists, as the code does
  (`privacy.rs`, ADR 0003): two owners with equal lists are the exception it names.
  It is about X11 and Wayland; captures of the extension have no second look
  (`BridgeSparesSecrets`, above).
* `ClearIsFinal` names the two orders in which a timed clear is undone on plain
  Wayland, and both happen in `desktop`. `clearing_deliberately` is one flag: an
  `OwnerGone` that was already waiting when a clear set it uses it up, or another
  clear that fails takes it back; then the event of the clear itself is taken for an
  exit, and what was cleared is put back. Elsewhere a clear causes no such event.
* `PageSettles` names the one way in which the devices page does not settle
  (`AlwaysOvertaken`): a tick of the 5 s timer while a report is awaited, for which
  the page allows 10 s, drops the report and asks again (`devices.rs:257-269`). A
  service that always takes longer than a tick is never shown. Without this case the
  property is violated in `gui`.
* `Vault`: concurrent rotations and wipes at their keyring waits, a wipe whose
  keyring refuses, an I/O failure in the middle of `BlobStore::rekey`, and the
  lock's backup, which a rotation leaves with the old key, are not covered. Its
  retention pass lets go of whole rows; tombstones that only lose their payloads
  (`strip_tombstones`) are in `HistorySync`.
* `Popup`: panod does not restart; the popup and the subscribers are looked at
  apart. `Devices`: one removal or leaving at a time. `Settings`: one change of
  `sync.enabled` at a time; a PRIMARY watch that failed or ended is not opened again
  before the next change, in the code as here, and `SettingsApply` says so (`lost`);
  private mode is `Service`'s.
* `Discovery`: no restarts; a device does not hear itself; a refused registration
  is never tried again, as in the code, and `MembersFound` speaks of devices that
  announce their group.

## Proofs

The theorems hold for every set of devices, identities, contents, requests,
windows and copies, every limit and every order of events. They rest on the
assumptions stated with the constants, which TLC evaluates on the runs, and where
the table says so on a hypothesis about which events happen. Every such
hypothesis is met by the run that checks the property, and without it the property
is false: the counterexamples are in "Limits of the passing runs".

| Theorem | States | Hypothesis |
|---|---|---|
| `SyncGroupProofs!NeverBothWin`, `OneWinsUnlessMutual` | two devices holding two branches never both yield, so they cannot swap; unless each branch removes a signer of the other, one direction wins | |
| `SyncGroupProofs!AlwaysGood`, `AlwaysTyped`, `StateFileValidates`, `KeysStayInside` | the inductive invariant, types, `SavedGroupValidates`, `KeysOnlyForMembers` | |
| `SyncGroupProofs!SplitsAreNamed` | `SplitOnlyWhenNamed` | |
| `SyncGroupProofs!RemovalsStick` | `RemovalSticks` (an action property) | `Steady`: saves succeed, nobody leaves and starts over, a group has room for every device, fewer rosters are signed than there are epochs |
| `PairingProofs!CancelledPairingsAdmitNobody`, `WindowsAdmitOnce`, `WindowsOfferFew` | `CancelledNeverAdmits`, `AdmitsOnce`, `AttemptsBounded` | |
| `SessionsProofs!InvHolds`, `TypeCorrect`, `OneSessionEach`, `StrangersAreToldNothing`, `KeysAreForMembers` | the inductive invariant, types, `OneLiveSession`, `StrangersHearNothing`, `KeysStayInside` | |
| `HistorySyncProofs!TypeCorrect` | types; no cursor is ahead of the feed it counts | |
| `HistorySyncProofs!NothingIsMissed` | `FeedMissesNothing` | private mode is not switched meanwhile |
| `HistorySyncProofs!SecretsStayHome` | `SecretsStay` | no crash between two statements |
| `HistorySyncProofs!StampsNameStates` | `SameStampSameState` | no such crash, no images |
| `HistorySyncProofs!AuthorsKeepUp` | `PeerHasItsOwn` | `Lasting` (nothing is taken off a device), no images |
| `HistorySyncProofs!DevicesAgree`, `EntriesGetEverywhere` | `AgreeWhenQuiet`, `Everywhere` | `Meeting`: as before, all devices meet and refuse nothing, no private mode, clocks below the limit up to which peers follow |
| `VaultProofs!InvHolds`, `RotationCanResume`, `ImplementsArchive` | the inductive invariant, `RotationResumes`, `KeepsArchive` (the refinement) | `WipesFinish`: the keyring answers a wipe and the process outlives it |
| `VaultProofs!UpgradesResume`, `WayBackStays` | `UpgradeResumes`, `WayBack` | |
| `ClipboardProofs!InvHolds`, `TypeCorrect`, `SecondLookSuffices`, `OnlyTheLastIsRestored`, `ClearsStayCleared`, `ClearsSpareWhatWasHeard` | the inductive invariant, types, `SecondLook` (X11 and Wayland), `RestoresOnlyTheLast`, `ClearIsFinal`, `ClearSparesHeard` (an action property) | |
| `TransferProofs!InvHolds`, `PastesAreWhole` | the inductive invariant, `WholeOrNothing` | |
| `GuiProofs!RowsMatch` | `OnlyMatches` | |
| `GuiProofs!PageTyped`, `AnswersWereGiven`, `ClosingCancels`, `ReportsAreFresh` | types, `AnswersMatch`, `ClosedCancelsAll`, `NotStale` | |

**Membership.** None of the three invariants is inductive: a state file is only as
good as the view it was written from, that view as good as the chains it has
adopted, and a key is only known to be meant for its holder if the roster it
matches is one that was really signed. `Inv` therefore says the same thing of
everything in the system: every view (in memory, on disk, and the inviter's copy)
and every chain (sent, or in a welcome) is a `GoodView` or `GoodChain`: all its
rosters were signed, they are linked and their epochs count up by one, and its
keys match rosters and were introduced or kept by one that lists the holder; and
every signed roster has a hash below `next`, so that a new one is new. That epochs
are consecutive follows from being linked by induction, which the provers cannot
do; it is part of the invariant instead. Lemmas show for each operation on a view
that it keeps a view good (the hard ones are `AdoptIsGood` and
`ApplyChainIsGood`: cutting one's own chain at the fork, appending a branch and
dropping the oldest rosters gives a good view again), then for each action, and
`AlwaysGood` puts them together.

**Splits.** `SplitsAreNamed` compares two devices' views, but needs no more than
that both are good and that a hash names one roster (`HashesUnique`: a new roster
takes the number `next`). Two views that have heard each other and differ hold
branches of which each is news to the other (`SplitIsNamed`). The last roster they
share is the fork for both, found as the least position at which they part; so both
have put the same two branches, the other way round, before `fork_winner`, and
`OneWinsUnlessMutual` leaves mutual removal as the only way that both kept their own.

**Removals.** `RemovalSticks` compares the file before and after a save, and between
them lies a loop of many steps; `StickInv` says what holds inside it: of the devices
that the file had removed and the view lists again, every one is still in the list of
what is to be redone, and what is added was there before (`Redoes`). The list has
them all at the start (`ReapplyHasAll`: what a lost fork drops was removed along the
lost branch), an iteration only shortens what is dropped (`DroppedShrinks`), and
under `Steady` no member fails to redo a change. A pairing that is committed late does
not go through the loop (`node.rs` redoes nothing there) and needs an argument of
its own: its roster only adds, so it wins against no branch that removed a device it
lists (`AdditionBeatsNoRemoval`), and a copy whose parent is still current holds the
same rosters (`CopyKeeps`, two chains with one end agree as far back as both reach).
Where `Steady` does not hold the property is false: a failed save leaves an older file
to be compared with, an addition that no longer fits ends the loop.

**The pairing window.** A pairing is judged by the slot it finds, so one has to know
that this is the slot it began in (`InWindow`, since only the holder of the mutex
is inside), that a welcome has closed it for good (`WelcomeCloses`), and that no
later window gets the same number (`NumbersFresh`, which rests on no number being
ahead of the epoch, `NumbersBelow`). `CancelledIsLate` says that a pairing met by a
bump keeps an epoch below the window's until it ends. Most actions change no
number and enter no window; one lemma about such a `Quiet` step covers them. That a
window makes few offers is a statement about connections that have long ended;
`Counted` says that those which carry the number of the window that is open are at
most its attempts so far, and `ModeKept` that its client still means the same mode.

**Sessions.** That a device has one live session with a peer is not inductive: the
invariant (`LinksOK`, `EndsOK`) ties the table to the tasks, entry by entry, and
says that every other running task has been told to close. What a device hears
was queued by a task earlier, when the list was another one, so `GoodMessage` and
`GoodCommand` are said of every message on the wire and every command that waits:
what may be told is for a device that some list has named, a key for one that is in a list the key was
made for. Lists only grow, so what was good stays good.

**Record exchange.** `Base` has the types and that counters bound the cursors. The
rest goes by the shape of a step rather than by action: nothing that matters, an
operation of a user, a record judged, a page sent, a cursor moved (`ShapedSteps`).
`FeedOK`: up to the cursor everything has been judged, up to the end of a batch
everything that is not still in it. `SecretsOK`: a row of secret content
is flagged or deleted, hence in no page. `StampsOK`: a stamp is at most its device's clock,
so that a new one is new, and all that bear it, rows and records alike, show one
state. `OwnOK`: the author of every state that is about has it or something newer.

**Convergence.** Last-writer-wins alone does not give agreement, because a device
ignores the deletion of an entry it does not have: it can get the older, live state
from a third device afterwards, and the feed does not repeat the deletion to it.
`Lags` names such a device, and `Sources` says that what it needs is still to
come: of any set of devices that lag in an entry, one has a source outside the set,
a device with the same state or with a newer one that it has not been offered. With
`HeardOK` (what was heard is known to its author, and for an absent entry it was
a deletion) and `AheadOK` (what is in a batch is what its sender has, or the sender
has something newer behind it), no device lags once the feeds are read, and then
all have the greatest stamp, which names one state.

**Store.** Every preview is sealed with the key the database is bound to, every file
with that key or the one panod opens files with, and unless a wipe is under way
the keyring has both (`KeyInv`, `RowInv`); what a rotation in progress has done so
far is `MaintenanceInv`. From it follows that no row is unreadable (`NothingLost`), so
`Kept` is the rows themselves, and each step that changes rows is a step of
`Archive` while rotation, restart and locking are stutters.

**Upgrades.** `DbInv` says what a file, its copies and a step in progress may look like
after any number of crashes (`FileOK`, `CopiesOK`, `OpenerOK`), and with `BaseOK` that
what was last written under a version is still what the file holds, or what the copy
of that version holds, complete.

**Clipboard.** Every event that waits, or is being read, says what the selection
offered at its turn, and a selection never returns to a turn (`GoodEvent`,
`GoodReading`). Bytes of an owner the event does not speak of were read at a later
turn; at the second look the selection is still at that turn, and its list
tells, or has changed again. That a clear is final is a statement about an event
whose clear is long over; `MarksOK` says of every clear under way and every notice
and event of one that, unless a clear has failed, the mark is still set or another
emptied selection was handled after it was.

**Transfers.** While a requestor reads, its property holds something or one deletion
of it waits, never both (`OneAtATime`), and the owner's count is the requestor's, or
one ahead of it (`InStep`). Deletions left from an abandoned request come before the
new request in the owner's queue (`RequestsLast`), so the answer overwrites what
they caused.

**Popup.** That the rows match once nothing is under way says nothing while something
is. `PopInv` says of every call that its answer fits its own query, and of a call
that has not been superseded that this query is the one on the screen, but for
letters whose timer still runs; a grid that waits for no such call fits already.

**Devices page.** `DevInv` has a part for each theorem. `Match`: a task that waits for
an answer has one question out, which is on its way, on the screen, or answered by
the one line that is on its way back, and an answer that arrives is one to it;
`Consent`: whoever was accepted was asked about, or came by a link. `Closes`: a
request that is not over is that of the topmost subpage, and the dialog's slot
cancels it. `Dated`, `OneProbe`, `Timely`: no line tells of a state still to come, one
probe is out for the page, and unless it is to be repeated it saw
no less than the user was told.

Every other invariant and action property that a passing run checks is stated by a
theorem. Only model-checked is what is out of the provers' reach: liveness (`InStep`, `MembersFound`, `Settles`, `Cleared`, `Delivered`, and
those of the windows), and `MutexGoesOn`, which says that a step is enabled.

## Not modelled

* Cryptography (AEAD, Ed25519, X25519, key derivation, TLS)
  and the libraries below (QUIC, mDNS, SQLite, the toolkits): the models take from
  them what the code relies on.
* Wire formats, parsing, the backup container, the schema of the configuration:
  data definitions.
* Privacy rules, classification, search and formatting: functions over text
  without state. Their verdicts are choices in the models.
* Widgets, layout, previews, keyboard handling; the tray; the commands of
  `panora-cli` other than `config`, which send one request and print the answer.
* The limits on connections in `server.rs`, and its watchers for the screen lock
  and the shell extension; receiving incremental transfers; the shell extension but
  for its captures.
* Announcing a pairing window and searching for one; the joiner's side of pairing,
  which is an input of `Pairing` and two actions of `SyncGroup`.

## Plan

The model covers what can be said of the code at this level, and what the runs check
is proved as far as the provers go. Left for later: weakening `Steady` to groups that
devices leave and join again, and to state files that cannot always be written, with
the property stated for the view in memory instead of the file.
