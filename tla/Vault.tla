------------------------------- MODULE Vault --------------------------------
(* The encrypted store of one panod: the rows and the blob files, the keys *)
(* in the keyring, and the operations that touch both (panod: daemon.rs,   *)
(* keyring.rs; panora-core: storage/, lock.rs, backup.rs).                 *)
(*                                                                         *)
(* panod is one thread. A request runs until it waits for the keyring or   *)
(* for a picture to be scaled; then another may run. A crash may come      *)
(* between any two writes. A sealed text or file is the key it is sealed   *)
(* with: the cipher authenticates, so it opens with that key only.         *)
EXTENDS Naturals, FiniteSets, FiniteSetsExt

CONSTANTS
  None,
  Content,         \* what can be copied
  BlobsOf,         \* the payloads of each content, as blob hashes
  ThumbOf,         \* the thumbnail of each image, as a blob hash
  Task,            \* requests under way at one time
  MAX_ROWS,        \* bound: rows in the table
  MAX_KEYS,        \* bound: keys ever generated
  Setups           \* what the user and the machine do

Blob == (UNION {BlobsOf[c] : c \in Content}) \cup {ThumbOf[c] : c \in DOMAIN ThumbOf}
Id == 1..MAX_ROWS
Key == 1..MAX_KEYS                               \* numbered as they are generated

(* A setup: the requests that come, the requests during which the keyring  *)
(* may refuse, and whether the process may die.                            *)
Maintenance == {"rotate", "set password", "remove password", "wipe"}
Op == {"store", "import", "view", "delete", "clear"} \cup Maintenance
Setup == [ops : SUBSET Op, refused : SUBSET Op, dies : BOOLEAN]

MaybeKey == Key \cup {None}
Row == [content : Content, key : Key, refs : SUBSET Blob, gone : BOOLEAN]

(* A content without payloads is never stored.                             *)
ASSUME VaultAssumption ==
  /\ None \notin Key \cup Row \cup Op \cup Task
  /\ \A c \in Content : BlobsOf[c] # {}
  /\ DOMAIN ThumbOf \subseteq Content
  /\ MAX_ROWS \in Nat \ {0} /\ MAX_KEYS \in Nat \ {0}
  /\ Setups \subseteq Setup

VARIABLES
  setup,
  ring,      \* the keyring: the live key, a rotation's, the lock's backup
  rows,      \* the entries table
  files,     \* the blob files, by hash
  meta,      \* the meta table: key fingerprint, rotation marker, lock secret
  up,        \* whether panod runs
  cipher,    \* the keys in its memory: for previews, for blobs
  locked,    \* Daemon.app_locked
  task,      \* the requests under way
  turn,      \* the one in the middle of a synchronous stretch
  archive,   \* the last archive exported
  made,      \* keys generated so far
  wiped      \* history: nothing has been stored since the last wipe

disk == <<ring, rows, files, meta, archive>>
vars == <<setup, disk, up, cipher, locked, task, turn, made, wiped>>

Pc == {"idle", "row", "put", "attach", "thumb", "load pending", "store pending", "mark", "rows",
       "files", "store key", "drop pending", "unmark", "erase", "unlink", "drop backup",
       "load key", "store backup"}
TaskState == [op : Op \cup {None}, pc : Pc, key : MaybeKey, row : 0..MAX_ROWS,
              left : SUBSET Blob, queue : SUBSET Content]
Idle == [op |-> None, pc |-> "idle", key |-> None, row |-> 0, left |-> {}, queue |-> {}]

Init ==
  /\ setup \in Setups
  /\ ring = [primary |-> None, pending |-> None, backup |-> None]
  /\ rows = [i \in Id |-> None]
  /\ files = [b \in Blob |-> None]
  /\ meta = [print |-> None, rotating |-> FALSE, lock |-> FALSE]
  /\ up = FALSE
  /\ cipher = [rows |-> None, files |-> None]
  /\ locked = FALSE
  /\ task = [t \in Task |-> Idle]
  /\ turn = None
  /\ archive = {}
  /\ made = 0
  /\ wiped = FALSE

-----------------------------------------------------------------------------
(* Rows and files.                                                         *)

Sealed(k) == k
Opens(k, sealed) == k # None /\ sealed = k

Ids(rs) == {i \in Id : rs[i] # None}
IdOf(rs, c) == {i \in Ids(rs) : rs[i].content = c}
NextId(rs) == Max(Ids(rs) \cup {0}) + 1          \* rowids are not kept apart
HasRoom(C) == Max(Ids(rows) \cup {0}) + Cardinality({c \in C : IdOf(rows, c) = {}}) <= MAX_ROWS
Referenced(rs) == UNION {rs[i].refs : i \in Ids(rs)}
OnDisk == {b \in Blob : files[b] # None}
Loads(i) == ~rows[i].gone /\ \A b \in rows[i].refs : Opens(cipher.files, files[b])
preview_opens(i, k) == Opens(cipher.rows, rows[i].key) \/ Opens(k, rows[i].key)

(* A new row is sealed with the key in memory; a deleted row with the same *)
(* content comes back; a live one is only moved to the top.                *)
upsert_entry(rs, c) ==
  IF IdOf(rs, c) = {}
  THEN [rs EXCEPT ![NextId(rs)] = [content |-> c, key |-> Sealed(cipher.rows), refs |-> {}, gone |-> FALSE]]
  ELSE [i \in Id |-> IF i \in IdOf(rs, c) /\ rs[i].gone
                     THEN [rs[i] EXCEPT !.key = Sealed(cipher.rows), !.gone = FALSE] ELSE rs[i]]

(* The file is written unless it is there.                                 *)
put(fs, b) == [fs EXCEPT ![b] = IF @ = None THEN Sealed(cipher.files) ELSE @]

(* Refused by the foreign key when there is no such row.                   *)
attach_blob(rs, i, b) ==
  IF rs[i] = None THEN rs ELSE [rs EXCEPT ![i].refs = @ \cup {b}]

purge(rs, S) == [i \in Id |-> IF i \in S THEN None ELSE rs[i]]

(* Mutant: the files of a purged row go although another row has them too. *)
collect_garbage_Shared(rs, fs, S) ==
  /\ rows' = purge(rs, S)
  /\ files' = [b \in Blob |-> IF \E i \in S : b \in rs[i].refs THEN None ELSE fs[b]]

(* What retention and the expired tombstones come to: the rows in S go,    *)
(* and the files only they referred to.                                    *)
collect_garbage(rs, fs, S) ==
  /\ rows' = purge(rs, S)
  /\ files' = [b \in Blob |-> IF b \in Referenced(rs) \ Referenced(purge(rs, S)) THEN None ELSE fs[b]]

Expired(rs) == {{}} \cup {{i} : i \in Ids(rs)}

-----------------------------------------------------------------------------
(* Start and death of the process.                                         *)

(* Only a missing item makes a new key.                                    *)
bring_up_key == IF ring.primary = None THEN {made + 1} \cap Key ELSE {ring.primary}

(* A new database is bound to the key; any other key stops the daemon.     *)
check_key(k) == meta.print \in {None, k}

Start ==
  /\ ~up
  /\ \E k \in bring_up_key :
       /\ check_key(k)
       /\ ring' = [ring EXCEPT !.primary = k]
       /\ meta' = [meta EXCEPT !.print = k]
       /\ cipher' = [rows |-> k, files |-> k]
       /\ made' = IF k > made THEN k ELSE made
  /\ up' = TRUE
  /\ \E S \in Expired(rows) : collect_garbage(rows, files, S)
  /\ UNCHANGED <<setup, locked, task, turn, archive, wiped>>

Crash ==
  /\ up /\ setup.dies
  /\ up' = FALSE
  /\ cipher' = [rows |-> None, files |-> None]
  /\ locked' = FALSE
  /\ task' = [t \in Task |-> Idle]
  /\ turn' = None
  /\ UNCHANGED <<setup, disk, made, wiped>>

-----------------------------------------------------------------------------
(* Steps of a request: To goes on in the same stretch, Wait lets others    *)
(* run, Done ends the request.                                             *)

To(t, ts) == task' = [task EXCEPT ![t] = ts] /\ turn' = t
Wait(t, ts) == task' = [task EXCEPT ![t] = ts] /\ turn' = None
Done(t) == Wait(t, Idle)

Begins(t, op) ==
  /\ up /\ turn = None /\ op \in setup.ops
  /\ task[t] = Idle /\ \A s \in Task : s < t => task[s] # Idle
  /\ op \in Maintenance => \A s \in Task : task[s].op \notin Maintenance
At(t, pc) == up /\ turn = t /\ task[t].pc = pc
Answered(t, pc) == up /\ turn = None /\ task[t].pc = pc

Refused == {"load pending", "store pending", "store key", "drop pending", "drop backup",
            "load key", "store backup"}

(* The keyring is locked or does not answer in time.                       *)
KeyringFails(t) ==
  /\ up /\ turn = None
  /\ task[t].pc \in Refused /\ task[t].op \in setup.refused
  /\ Done(t)
  /\ UNCHANGED <<setup, disk, up, cipher, locked, made, wiped>>

-----------------------------------------------------------------------------
(* Storing.                                                                *)

Store(t, c) ==
  /\ Begins(t, "store") /\ HasRoom({c})
  /\ To(t, [Idle EXCEPT !.op = "store", !.pc = "row", !.queue = {c}])
  /\ UNCHANGED <<setup, disk, up, cipher, locked, made, wiped>>

(* Everything that is there is read and sealed; one file that cannot be    *)
(* read fails the export.                                                  *)
Export ==
  /\ up /\ turn = None /\ "import" \in setup.ops /\ ~locked
  /\ \A i \in Ids(rows) : rows[i].gone \/ Loads(i)
  /\ archive' = {rows[i].content : i \in {j \in Ids(rows) : ~rows[j].gone}}
  /\ UNCHANGED <<setup, ring, rows, files, meta, up, cipher, locked, task, turn, made, wiped>>

Import(t) ==
  /\ Begins(t, "import") /\ archive # {} /\ HasRoom(archive)
  /\ To(t, [Idle EXCEPT !.op = "import", !.pc = "row", !.queue = archive])
  /\ UNCHANGED <<setup, disk, up, cipher, locked, made, wiped>>

InsertRow(t) ==
  /\ At(t, "row")
  /\ \E c \in task[t].queue :
       LET rs == upsert_entry(rows, c) IN
       /\ rows' = rs
       /\ wiped' = FALSE
       /\ To(t, [task[t] EXCEPT !.pc = "put", !.row = CHOOSE i \in IdOf(rs, c) : TRUE,
                                !.left = BlobsOf[c], !.queue = @ \ {c}])
  /\ UNCHANGED <<setup, ring, files, meta, up, cipher, locked, archive, made>>

WriteBlob(t) ==
  /\ At(t, "put") /\ task[t].left # {}
  /\ \E b \in task[t].left : files' = put(files, b)
  /\ To(t, [task[t] EXCEPT !.pc = "attach"])
  /\ UNCHANGED <<setup, ring, rows, meta, up, cipher, locked, archive, made, wiped>>

AttachBlob(t) ==
  /\ At(t, "attach")
  /\ \E b \in task[t].left :
       /\ files[b] # None
       /\ rows' = attach_blob(rows, task[t].row, b)
       /\ To(t, [task[t] EXCEPT !.pc = "put", !.left = @ \ {b}])
  /\ UNCHANGED <<setup, ring, files, meta, up, cipher, locked, archive, made, wiped>>

(* All payloads are attached. A copied image waits for its thumbnail.      *)
Filled(t) ==
  /\ At(t, "put") /\ task[t].left = {}
  /\ IF task[t].op = "import"
     THEN /\ IF task[t].queue # {} THEN To(t, [task[t] EXCEPT !.pc = "row"]) ELSE Done(t)
          /\ UNCHANGED <<rows, files>>
     ELSE IF rows[task[t].row].content \in DOMAIN ThumbOf
     THEN Wait(t, [task[t] EXCEPT !.pc = "thumb", !.queue = {rows[task[t].row].content}])
          /\ UNCHANGED <<rows, files>>
     ELSE Done(t) /\ \E S \in Expired(rows) : collect_garbage(rows, files, S)
  /\ UNCHANGED <<setup, ring, meta, up, cipher, locked, archive, made, wiped>>

(* The popup asks for the thumbnail of an image that has none.             *)
View(t, i) ==
  /\ Begins(t, "view") /\ ~locked
  /\ rows[i] # None /\ Loads(i)
  /\ rows[i].content \in DOMAIN ThumbOf /\ ThumbOf[rows[i].content] \notin rows[i].refs
  /\ Wait(t, [Idle EXCEPT !.op = "view", !.pc = "thumb", !.row = i, !.queue = {rows[i].content}])
  /\ UNCHANGED <<setup, disk, up, cipher, locked, made, wiped>>

(* The picture is scaled, or could not be. The row is addressed by the     *)
(* number it had before.                                                   *)
Thumbnail(t, scaled) ==
  /\ Answered(t, "thumb")
  /\ \E c \in task[t].queue :
       LET fs == IF scaled THEN put(files, ThumbOf[c]) ELSE files
           rs == IF scaled THEN attach_blob(rows, task[t].row, ThumbOf[c]) ELSE rows
           failed == scaled /\ rows[task[t].row] = None
       IN IF task[t].op = "view" \/ failed
          THEN rows' = rs /\ files' = fs
          ELSE \E S \in Expired(rs) : collect_garbage(rs, fs, S)
  /\ Done(t)
  /\ UNCHANGED <<setup, ring, meta, up, cipher, locked, archive, made, wiped>>

-----------------------------------------------------------------------------
(* Letting go.                                                             *)

(* A deletion can be undone until a later collect_garbage finds it expired. *)
Delete(i) ==
  /\ up /\ turn = None /\ "delete" \in setup.ops
  /\ rows[i] # None /\ ~rows[i].gone
  /\ \E S \in Expired(rows) \ {{i}} :
       collect_garbage([rows EXCEPT ![i].gone = TRUE], files, S)
  /\ UNCHANGED <<setup, ring, meta, up, cipher, locked, task, turn, archive, made, wiped>>

Restore(i) ==
  /\ up /\ turn = None /\ "delete" \in setup.ops
  /\ rows[i] # None /\ rows[i].gone
  /\ rows' = [rows EXCEPT ![i].gone = FALSE]
  /\ UNCHANGED files
  /\ UNCHANGED <<setup, ring, meta, up, cipher, locked, task, turn, archive, made, wiped>>

(* Clearing tombstones every row that is not pinned and purges at once.    *)
Clear ==
  /\ up /\ turn = None /\ "clear" \in setup.ops
  /\ \E S \in SUBSET Ids(rows) \ {{}} : collect_garbage(rows, files, S)
  /\ UNCHANGED <<setup, ring, meta, up, cipher, locked, task, turn, archive, made, wiped>>

(* The hourly scan removes files no row refers to.                         *)
Maintain ==
  /\ up /\ turn = None
  /\ OnDisk \ Referenced(rows) # {}
  /\ files' = [b \in Blob |-> IF b \in Referenced(rows) THEN files[b] ELSE None]
  /\ UNCHANGED <<setup, ring, rows, meta, up, cipher, locked, task, turn, archive, made, wiped>>

-----------------------------------------------------------------------------
(* A new master key: everything is sealed again under it. The same steps   *)
(* serve a rotation and, over an empty history, the end of a wipe.         *)

RotateKey(t) ==
  /\ Begins(t, "rotate")
  /\ Wait(t, [Idle EXCEPT !.op = "rotate", !.pc = "load pending"])
  /\ UNCHANGED <<setup, disk, up, cipher, locked, made, wiped>>

(* An interrupted rotation goes on with the key it had.                    *)
LoadPending(t) ==
  /\ Answered(t, "load pending")
  /\ IF ring.pending # None
     THEN To(t, [task[t] EXCEPT !.pc = "mark", !.key = ring.pending]) /\ UNCHANGED made
     ELSE /\ made + 1 \in Key
          /\ Wait(t, [task[t] EXCEPT !.pc = "store pending", !.key = made + 1])
          /\ made' = made + 1
  /\ UNCHANGED <<setup, disk, up, cipher, locked, wiped>>

StorePending(t) ==
  /\ Answered(t, "store pending")
  /\ ring' = [ring EXCEPT !.pending = task[t].key]
  /\ To(t, [task[t] EXCEPT !.pc = "mark"])
  /\ UNCHANGED <<setup, rows, files, meta, up, cipher, locked, archive, made, wiped>>

Mark(t) ==
  /\ At(t, "mark")
  /\ meta' = [meta EXCEPT !.rotating = TRUE]
  /\ To(t, [task[t] EXCEPT !.pc = "rows"])
  /\ UNCHANGED <<setup, ring, rows, files, up, cipher, locked, archive, made, wiped>>

(* All previews and the fingerprint in one transaction, then the cipher.   *)
RekeyRows(t) ==
  /\ At(t, "rows")
  /\ IF \A i \in Ids(rows) : preview_opens(i, task[t].key)
     THEN /\ rows' = [i \in Id |-> IF rows[i] = None THEN None ELSE [rows[i] EXCEPT !.key = Sealed(task[t].key)]]
          /\ meta' = [meta EXCEPT !.print = task[t].key]
          /\ cipher' = [cipher EXCEPT !.rows = task[t].key]
          /\ To(t, [task[t] EXCEPT !.pc = "files", !.left = OnDisk])
     ELSE Done(t) /\ UNCHANGED <<rows, meta, cipher>>
  /\ UNCHANGED <<setup, ring, files, up, locked, archive, made, wiped>>

(* One file after another, each replaced by a rename; a file that neither  *)
(* key opens, or a full disk, ends the request.                            *)
RekeyFile(t, b) ==
  /\ At(t, "files") /\ b \in task[t].left
  /\ \/ /\ Opens(cipher.files, files[b]) \/ Opens(task[t].key, files[b])
        /\ files' = [files EXCEPT ![b] = Sealed(task[t].key)]
        /\ To(t, [task[t] EXCEPT !.left = @ \ {b}])
     \/ Done(t) /\ UNCHANGED files
  /\ UNCHANGED <<setup, ring, rows, meta, up, cipher, locked, archive, made, wiped>>

(* Mutant: the pending key is dropped before the live one is replaced.     *)
SwapBlobKey_Drops(t) ==
  /\ At(t, "files") /\ task[t].left = {}
  /\ cipher' = [cipher EXCEPT !.files = task[t].key]
  /\ Wait(t, [task[t] EXCEPT !.pc = "drop pending"])
  /\ UNCHANGED <<setup, disk, up, locked, made, wiped>>

SwapBlobKey(t) ==
  /\ At(t, "files") /\ task[t].left = {}
  /\ cipher' = [cipher EXCEPT !.files = task[t].key]
  /\ Wait(t, [task[t] EXCEPT !.pc = IF task[t].op = "rotate" THEN "store key" ELSE "drop pending"])
  /\ UNCHANGED <<setup, disk, up, locked, made, wiped>>

(* finish_rotation and wipe_and_replace: a rotation stores the key and     *)
(* then drops the pending one, a wipe drops the other items first.         *)
StoreKey(t) ==
  /\ Answered(t, "store key")
  /\ ring' = [ring EXCEPT !.primary = task[t].key]
  /\ IF task[t].op = "rotate"
     THEN Wait(t, [task[t] EXCEPT !.pc = "drop pending"]) /\ UNCHANGED <<locked, wiped>>
     ELSE Done(t) /\ locked' = FALSE /\ wiped' = (Ids(rows) = {})
  /\ UNCHANGED <<setup, rows, files, meta, up, cipher, archive, made>>

DropPending(t) ==
  /\ Answered(t, "drop pending")
  /\ ring' = [ring EXCEPT !.pending = None]
  /\ IF task[t].op = "rotate"
     THEN To(t, [task[t] EXCEPT !.pc = "unmark"])
     ELSE Wait(t, [task[t] EXCEPT !.pc = "drop backup"])
  /\ UNCHANGED <<setup, rows, files, meta, up, cipher, locked, archive, made, wiped>>

Unmark(t) ==
  /\ At(t, "unmark")
  /\ meta' = [meta EXCEPT !.rotating = FALSE]
  /\ Done(t)
  /\ UNCHANGED <<setup, ring, rows, files, up, cipher, locked, archive, made, wiped>>

-----------------------------------------------------------------------------
(* The panic wipe.                                                         *)

Wipe(t) ==
  /\ Begins(t, "wipe") /\ made + 1 \in Key
  /\ To(t, [Idle EXCEPT !.op = "wipe", !.pc = "erase"])
  /\ UNCHANGED <<setup, disk, up, cipher, locked, made, wiped>>

Erase(t) ==
  /\ At(t, "erase")
  /\ rows' = [i \in Id |-> None]
  /\ meta' = [meta EXCEPT !.rotating = FALSE, !.lock = FALSE]
  /\ To(t, [task[t] EXCEPT !.pc = "unlink", !.left = OnDisk])
  /\ UNCHANGED <<setup, ring, files, up, cipher, locked, archive, made, wiped>>

Unlink(t, b) ==
  /\ At(t, "unlink") /\ b \in task[t].left
  /\ files' = [files EXCEPT ![b] = None]
  /\ To(t, [task[t] EXCEPT !.left = @ \ {b}])
  /\ UNCHANGED <<setup, ring, rows, meta, up, cipher, locked, archive, made, wiped>>

FreshKey(t) ==
  /\ At(t, "unlink") /\ task[t].left = {}
  /\ To(t, [task[t] EXCEPT !.pc = "rows", !.key = made + 1])
  /\ made' = made + 1
  /\ UNCHANGED <<setup, disk, up, cipher, locked, wiped>>

-----------------------------------------------------------------------------
(* The lock password. Whoever changes one knows the old one.               *)

(* Refused while a rotation is marked: the key in the keyring may not be   *)
(* the one the history ends up under.                                      *)
SetPassword(t) ==
  /\ Begins(t, "set password") /\ ~meta.rotating
  /\ Wait(t, [Idle EXCEPT !.op = "set password", !.pc = "load key"])
  /\ UNCHANGED <<setup, disk, up, cipher, locked, made, wiped>>

LoadKey(t) ==
  /\ Answered(t, "load key")
  /\ meta' = [meta EXCEPT !.lock = TRUE]
  /\ Wait(t, [task[t] EXCEPT !.pc = "store backup", !.key = ring.primary])
  /\ UNCHANGED <<setup, ring, rows, files, up, cipher, locked, archive, made, wiped>>

StoreBackup(t) ==
  /\ Answered(t, "store backup")
  /\ ring' = [ring EXCEPT !.backup = task[t].key]
  /\ Done(t)
  /\ UNCHANGED <<setup, rows, files, meta, up, cipher, locked, archive, made, wiped>>

RemovePassword(t) ==
  /\ Begins(t, "remove password")
  /\ meta' = [meta EXCEPT !.lock = FALSE]
  /\ Wait(t, [Idle EXCEPT !.op = "remove password", !.pc = "drop backup"])
  /\ UNCHANGED <<setup, ring, rows, files, up, cipher, locked, archive, made, wiped>>

DropBackup(t) ==
  /\ Answered(t, "drop backup")
  /\ ring' = [ring EXCEPT !.backup = None]
  /\ IF task[t].op = "wipe"
     THEN Wait(t, [task[t] EXCEPT !.pc = "store key"]) /\ UNCHANGED locked
     ELSE Done(t) /\ locked' = FALSE
  /\ UNCHANGED <<setup, rows, files, meta, up, cipher, archive, made, wiped>>

(* By hand or after a while without requests.                              *)
EngageLock ==
  /\ up /\ turn = None /\ ~locked /\ meta.lock
  /\ locked' = TRUE
  /\ UNCHANGED <<setup, disk, up, cipher, task, turn, made, wiped>>

Unlock ==
  /\ up /\ turn = None /\ locked /\ meta.lock
  /\ locked' = FALSE
  /\ UNCHANGED <<setup, disk, up, cipher, task, turn, made, wiped>>

-----------------------------------------------------------------------------
Steps(t) ==
  \/ InsertRow(t) \/ WriteBlob(t) \/ AttachBlob(t) \/ Filled(t)
  \/ \E scaled \in BOOLEAN : Thumbnail(t, scaled)
  \/ LoadPending(t) \/ StorePending(t) \/ Mark(t) \/ RekeyRows(t) \/ SwapBlobKey(t)
  \/ \E b \in Blob : RekeyFile(t, b) \/ Unlink(t, b)
  \/ StoreKey(t) \/ DropPending(t) \/ Unmark(t) \/ Erase(t) \/ FreshKey(t)
  \/ LoadKey(t) \/ StoreBackup(t) \/ DropBackup(t)

Requests(t) ==
  \/ \E c \in Content : Store(t, c)
  \/ \E i \in Id : View(t, i)
  \/ Import(t) \/ RotateKey(t) \/ Wipe(t) \/ SetPassword(t) \/ RemovePassword(t)

Next ==
  \/ Start \/ Crash
  \/ \E t \in Task : Requests(t) \/ Steps(t) \/ KeyringFails(t)
  \/ \E i \in Id : Delete(i) \/ Restore(i)
  \/ Clear \/ Maintain \/ Export \/ EngageLock \/ Unlock

Spec == Init /\ [][Next]_vars

-----------------------------------------------------------------------------
(* Properties.                                                             *)

(* The variables have their types, and what is sealed is sealed with a key. *)
TypeOK ==
  /\ setup \in Setups
  /\ ring \in [primary : MaybeKey, pending : MaybeKey, backup : MaybeKey]
  /\ rows \in [Id -> Row \cup {None}]
  /\ files \in [Blob -> MaybeKey]
  /\ meta \in [print : MaybeKey, rotating : BOOLEAN, lock : BOOLEAN]
  /\ up \in BOOLEAN /\ locked \in BOOLEAN
  /\ cipher \in [rows : MaybeKey, files : MaybeKey]
  /\ task \in [Task -> TaskState]
  /\ turn \in Task \cup {None}
  /\ archive \subseteq Content
  /\ made \in 0..MAX_KEYS /\ wiped \in BOOLEAN

(* The keys a restarted or the running panod can still get at.             *)
Held == {ring.primary, ring.pending, cipher.rows, cipher.files} \ {None}

Readable(i) == rows[i].key \in Held /\ \A b \in rows[i].refs : files[b] \in Held

(* What the rows, the files and the keys in reach amount to.               *)
Kept ==
  [c \in Content |->
     LET R == IdOf(rows, c) IN
     IF R = {} THEN "absent"
     ELSE IF \E i \in R : ~Readable(i) THEN "lost"
     ELSE IF \A i \in R : BlobsOf[c] \subseteq rows[i].refs THEN "whole" ELSE "noted"]

Promise == INSTANCE Archive WITH kept <- Kept

(* Whatever the order of copies, deletions and key changes, and wherever   *)
(* the process dies in them, an entry that was stored stays readable with  *)
(* a key the keyring or the process still has, until it is let go on       *)
(* purpose: a rotation (Daemon::rotate_key) is invisible in the history.   *)
KeepsArchive == Promise!Spec

(* When the database is bound to another key than the live one in the      *)
(* keyring, that key is the keyring's pending one and the rotation is      *)
(* marked: rotate_key can take it up again and Status reports it. (A wipe  *)
(* is between the two only while it is under way.)                         *)
RotationResumes ==
  meta.print \notin {None, ring.primary} =>
    \/ meta.rotating /\ ring.pending = meta.print
    \/ \E t \in Task : task[t].op = "wipe"

(* After a crash panod can be started again: the key in the keyring is the *)
(* one the database is bound to, so that rotate-key can be run again to    *)
(* finish an interrupted rotation.                                         *)
Restartable == ~up => meta.print \in {None, ring.primary}

(* A panic wipe leaves nothing behind: until something is stored again, no *)
(* file is on disk.                                                        *)
WipedIsGone == wiped => OnDisk = {}
=============================================================================
