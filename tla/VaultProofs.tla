---------------------------- MODULE VaultProofs -----------------------------
(* For any contents, requests and orders of them: a rotation that was cut  *)
(* short can be taken up again, and the store implements Archive.          *)
(*                                                                         *)
(* The argument: every preview is sealed with the key the database is      *)
(* bound to, every file with that key or with the one panod opens files    *)
(* with, and unless a wipe is under way both are in the keyring.  A wipe   *)
(* puts the only copy of its key in memory first, so it has to finish:     *)
(* the theorems take that as their hypothesis.                             *)
(*                                                                         *)
(* At the end: a file of any older release is brought up to date however   *)
(* often that is interrupted, and the way back is there until it is used.  *)
EXTENDS Vault, Migration, FiniteSetTheorems, WellFoundedInduction, TLAPS

(* The keyring answers a wipe, and the process outlives it. *)
WipesFinish ==
  \A s \in Setups : "wipe" \in s.ops => ~s.dies /\ "wipe" \notin s.refused

-----------------------------------------------------------------------------
(* The requests. *)

Stretch == {"row", "put", "attach", "mark", "rows", "files", "unmark", "erase", "unlink"}
Storing == {"row", "put", "attach"}

OpFits(ts) ==
  /\ ts.pc \in Storing => ts.op \in {"store", "import"}
  /\ ts.pc = "thumb" => ts.op \in {"store", "view"}
  /\ ts.pc \in {"load pending", "store pending", "mark", "unmark"} => ts.op = "rotate"
  /\ ts.pc \in {"rows", "files", "store key", "drop pending"} => ts.op \in {"rotate", "wipe"}
  /\ ts.pc \in {"erase", "unlink"} => ts.op = "wipe"
  /\ ts.pc \in {"load key", "store backup"} => ts.op = "set password"
  /\ ts.pc = "drop backup" => ts.op \in {"remove password", "wipe"}

TaskInv ==
  \A t \in Task :
    /\ task[t].op \in setup.ops \cup {None}
    /\ OpFits(task[t])
    /\ task[t].pc \in Stretch => turn = t
    /\ ~up => task[t] = Idle
    /\ task[t].pc = "thumb" => task[t].queue \subseteq DOMAIN ThumbOf

OneMaintenance ==
  \A s, t \in Task : task[s].op \in Maintenance /\ task[t].op \in Maintenance => s = t

(* The table has room for the rest of the request. *)
Room ==
  /\ IsFiniteSet(archive)
  /\ \A t \in Task : task[t].pc \in Storing => IsFiniteSet(task[t].queue) /\ HasRoom(task[t].queue)

-----------------------------------------------------------------------------
(* The rows and the keys. *)

Rows == [Id -> Row \cup {None}]
Files == [Blob -> MaybeKey]

(* One row for a content, sealed with k; what it refers to is on disk. *)
Sound(rs, fs, k) ==
  /\ \A i, j \in Ids(rs) : rs[i].content = rs[j].content => i = j
  /\ \A i \in Ids(rs) : rs[i].key = k
  /\ \A i \in Ids(rs) : \A b \in rs[i].refs : fs[b] # None

RowInv == Sound(rows, files, meta.print)

Wiping == \E t \in Task : task[t].op = "wipe"

KeyInv ==
  /\ ring.primary = None => ring.pending = None /\ meta.print = None
  /\ up => ring.primary # None
  /\ up => cipher.rows = meta.print /\ cipher.rows # None /\ cipher.files # None
  /\ ~up => cipher = [rows |-> None, files |-> None]
  /\ ~Wiping => /\ meta.print = ring.primary \/ (ring.pending = meta.print /\ meta.rotating)
                /\ up => cipher.files \in {ring.primary, meta.print}
  /\ \A b \in Blob : files[b] \in {None, meta.print, IF up THEN cipher.files ELSE ring.primary}

(* A rotation: its key is the pending one until the live one is replaced. *)
Rotating(ts) ==
  /\ ts.pc = "store pending" => ring.pending = None /\ ts.key # None
  /\ ts.pc \in {"mark", "rows", "files", "store key"} => ring.pending = ts.key /\ ts.key # None
  /\ ts.pc \in {"rows", "files", "store key"} => meta.rotating
  /\ ts.pc = "files" => cipher.rows = ts.key /\ \A b \in Blob \ ts.left : files[b] \in {None, ts.key}
  /\ ts.pc = "store key" => cipher.rows = ts.key /\ cipher.files = ts.key
  /\ ts.pc = "drop pending" => ring.primary = cipher.rows /\ ring.primary = cipher.files
  /\ ts.pc = "unmark" => ring.pending = None

(* A wipe: nothing is left when its key comes, and everything after it is  *)
(* sealed with that key.                                                   *)
Erasing(ts) ==
  /\ ts.pc \in {"erase", "unlink"} => made + 1 \in Key
  /\ ts.pc \in {"unlink", "rows", "files"} => Ids(rows) = {} /\ OnDisk \subseteq ts.left
  /\ ts.pc \in {"rows", "files"} => ts.left = {}
  /\ ts.pc \in {"rows", "files", "drop pending", "drop backup", "store key"} => ts.key # None
  /\ ts.pc \in {"files", "drop pending", "drop backup", "store key"} => cipher.rows = ts.key
  /\ ts.pc \in {"drop pending", "drop backup", "store key"} => cipher.files = ts.key

MaintenanceInv ==
  \A t \in Task : /\ task[t].op = "rotate" => Rotating(task[t])
                  /\ task[t].op = "wipe" => Erasing(task[t])

Inv == TypeOK /\ TaskInv /\ OneMaintenance /\ Room /\ RowInv /\ KeyInv /\ MaintenanceInv

-----------------------------------------------------------------------------
(* The operators on rows and files. *)

(* The largest of some numbers, as NextId takes it, is one of them. *)
LEMMA MaxOf ==
  ASSUME NEW n \in Nat, NEW S, S \subseteq 0..n, S # {}
  PROVE  Max(S) \in S /\ \A y \in S : Max(S) >= y
<1> DEFINE R == OpToRel(<, Nat)
           T == {n - x : x \in S}
<1>1. \A x, y \in Nat : <<x, y>> \in R <=> x < y
  BY DEF OpToRel
<1>2. IsWellFoundedOn(R, Nat)
  BY NatLessThanWellFounded
<1>3. T \subseteq Nat /\ T # {}
  <2>1. \A x \in S : n - x \in Nat
    OBVIOUS
  <2> QED
    BY <2>1
<1> HIDE DEF R, T
<1>4. PICK m \in T : \A y \in T : ~(<<y, m>> \in R)
  BY <1>2, <1>3, WFMin
<1>5. PICK x \in S : m = n - x
  BY <1>4 DEF T
<1>6. \A y \in S : x >= y
  <2> TAKE y \in S
  <2>1. n - y \in T
    BY DEF T
  <2>2. ~(n - y < n - x)
    BY <1>1, <1>3, <1>4, <1>5, <2>1
  <2> QED
    BY <2>2
<1> QED
  BY <1>6 DEF Max

(* What the table holds. *)
LEMMA RowFacts ==
  ASSUME NEW rs \in Rows
  PROVE  /\ Ids(rs) \subseteq Id
         /\ \A i \in Ids(rs) : rs[i] \in Row
         /\ \A i \in Id \ Ids(rs) : rs[i] = None
BY VaultAssumption DEF Ids, Rows

LEMMA BlobsAreBlobs ==
  /\ \A c \in Content : BlobsOf[c] \subseteq Blob
  /\ \A c \in DOMAIN ThumbOf : ThumbOf[c] \in Blob
BY DEF Blob

(* The number of a new row is free, and within the bound where HasRoom     *)
(* says that there is room for one.                                        *)
LEMMA NextIdFree ==
  ASSUME NEW rs \in Rows
  PROVE  /\ Max(Ids(rs) \cup {0}) \in 0..MAX_ROWS
         /\ NextId(rs) \in 1..(MAX_ROWS + 1)
         /\ NextId(rs) \notin Ids(rs)
         /\ \A i \in Ids(rs) : i < NextId(rs)
<1>1. Ids(rs) \cup {0} \subseteq 0..MAX_ROWS /\ Ids(rs) \cup {0} # {}
  BY RowFacts, VaultAssumption DEF Id
<1> DEFINE m == Max(Ids(rs) \cup {0})
<1>2. m \in Ids(rs) \cup {0} /\ \A y \in Ids(rs) \cup {0} : m >= y
  BY <1>1, MaxOf, VaultAssumption
<1>3. NextId(rs) = m + 1
  BY DEF NextId
<1> HIDE DEF m
<1>4. m \in 0..MAX_ROWS /\ MAX_ROWS \in Nat
  BY <1>1, <1>2, VaultAssumption
<1>5. \A i \in Ids(rs) : i \in Nat /\ i <= m
  BY <1>1, <1>2, <1>4
<1> QED
  BY <1>3, <1>4, <1>5 DEF m

(* Inserting or bringing back a row, with room for it: there is then one   *)
(* row for the content, and the others are as they were.                   *)
LEMMA Upserted ==
  ASSUME NEW rs \in Rows, NEW fs \in Files, NEW c \in Content, cipher.rows \in Key,
         Sound(rs, fs, cipher.rows), IdOf(rs, c) = {} => NextId(rs) \in Id
  PROVE  LET new == upsert_entry(rs, c) IN
         /\ new \in Rows
         /\ Sound(new, fs, cipher.rows)
         /\ IdOf(new, c) # {} /\ IdOf(new, c) \subseteq Id
         /\ \A i \in Ids(rs) : i \in Ids(new) /\ new[i].content = rs[i].content /\ new[i].refs = rs[i].refs
         /\ Ids(new) = IF IdOf(rs, c) = {} THEN Ids(rs) \cup {NextId(rs)} ELSE Ids(rs)
         /\ IdOf(rs, c) = {} => new[NextId(rs)].content = c /\ new[NextId(rs)].refs = {}
<1> DEFINE new == upsert_entry(rs, c)
           n == NextId(rs)
           r == [content |-> c, key |-> Sealed(cipher.rows), refs |-> {}, gone |-> FALSE]
<1>1. /\ Ids(rs) \subseteq Id
      /\ \A i \in Ids(rs) : rs[i] \in Row
      /\ \A i \in Id \ Ids(rs) : rs[i] = None
  BY RowFacts
<1>2. CASE IdOf(rs, c) = {}
  <2>1. new = [rs EXCEPT ![n] = r] /\ n \in Id /\ n \notin Ids(rs) /\ r \in Row /\ r # None
    <3>1. r \in Row
      BY DEF Row, Sealed
    <3>2. r # None
      BY <3>1, VaultAssumption
    <3> QED
      BY <1>2, <3>1, <3>2, NextIdFree DEF upsert_entry
  <2>2. new[n] = r /\ \A i \in Id \ {n} : new[i] = rs[i]
    BY <2>1 DEF Rows
  <2>3. new \in Rows
    BY <2>1 DEF Rows
  <2> HIDE DEF new, n
  <2>4. Ids(new) = Ids(rs) \cup {n}
    BY <1>1, <2>1, <2>2 DEF Ids
  <2>5. r.content = c /\ r.key = cipher.rows /\ r.refs = {}
    BY DEF Sealed
  <2> HIDE DEF r
  <2>6. Sound(new, fs, cipher.rows)
    <3>1. \A i, j \in Ids(new) : new[i].content = new[j].content => i = j
      BY <1>1, <1>2, <2>1, <2>2, <2>4, <2>5 DEF Sound, IdOf
    <3>2. \A i \in Ids(new) : new[i].key = cipher.rows /\ \A b \in new[i].refs : fs[b] # None
      BY <1>1, <2>1, <2>2, <2>4, <2>5 DEF Sound
    <3> QED
      BY <3>1, <3>2 DEF Sound
  <2>7. n \in IdOf(new, c) /\ IdOf(new, c) \subseteq Id
    BY <1>1, <2>1, <2>2, <2>4, <2>5 DEF IdOf
  <2>8. \A i \in Ids(rs) : i \in Ids(new) /\ new[i] = rs[i]
    BY <1>1, <2>1, <2>2, <2>4
  <2> QED
    BY <1>2, <2>2, <2>3, <2>4, <2>5, <2>6, <2>7, <2>8 DEF n, new
<1>3. CASE IdOf(rs, c) # {}
  <2>1. new = [i \in Id |-> IF i \in IdOf(rs, c) /\ rs[i].gone
                            THEN [rs[i] EXCEPT !.key = Sealed(cipher.rows), !.gone = FALSE] ELSE rs[i]]
    BY <1>3 DEF upsert_entry
  <2> HIDE DEF new
  <2>2. ASSUME NEW i \in Ids(rs)
        PROVE  /\ new[i] \in Row
               /\ new[i].content = rs[i].content
               /\ new[i].refs = rs[i].refs
               /\ new[i].key = cipher.rows
    BY <1>1, <2>1, <2>2 DEF Row, Sound, Sealed
  <2>3. \A i \in Id \ Ids(rs) : new[i] = None
    BY <1>1, <2>1 DEF IdOf
  <2>4. new \in Rows
    BY <1>1, <2>1, <2>2, <2>3 DEF Rows
  <2>5. Ids(new) = Ids(rs)
    BY <1>1, <2>2, <2>3, VaultAssumption DEF Ids
  <2>6. Sound(new, fs, cipher.rows)
    BY <2>2, <2>5 DEF Sound
  <2>7. IdOf(new, c) = IdOf(rs, c)
    BY <2>2, <2>5 DEF IdOf
  <2> QED
    BY <1>1, <1>3, <2>2, <2>4, <2>5, <2>6, <2>7 DEF new, IdOf
<1> QED
  BY <1>2, <1>3

(* Writing a file keeps what is on disk and adds one under the blob key. *)
LEMMA BlobWritten ==
  ASSUME NEW fs \in Files, NEW b \in Blob, cipher.files \in Key
  PROVE  /\ put(fs, b) \in Files
         /\ put(fs, b)[b] # None
         /\ \A x \in Blob : put(fs, b)[x] \in {fs[x], cipher.files} /\ (fs[x] # None => put(fs, b)[x] # None)
BY VaultAssumption DEF put, Files, MaybeKey, Sealed

(* Row i may refer to more in new than in rs; nothing else is different. *)
Grows(rs, new, i) ==
  /\ Ids(new) = Ids(rs)
  /\ \A j \in Ids(rs) : /\ new[j].content = rs[j].content
                        /\ rs[j].refs \subseteq new[j].refs
                        /\ j # i => new[j] = rs[j]

(* A reference to a file that is there. *)
LEMMA Attached ==
  ASSUME NEW rs \in Rows, NEW fs \in Files, NEW k, NEW i, NEW b \in Blob, fs[b] # None, Sound(rs, fs, k),
         NEW new, new = attach_blob(rs, i, b)
  PROVE  /\ new \in Rows
         /\ Sound(new, fs, k)
         /\ Grows(rs, new, i)
<1>1. /\ Ids(rs) \subseteq Id
      /\ \A j \in Ids(rs) : rs[j] \in Row
      /\ \A j \in Id \ Ids(rs) : rs[j] = None
  BY RowFacts
<1>2. \A j \in Id : j # i => new[j] = rs[j]
  BY DEF attach_blob, Rows
<1>3. i \in Ids(rs) => /\ new[i] \in Row
                       /\ new[i].content = rs[i].content
                       /\ new[i].key = rs[i].key
                       /\ new[i].refs = rs[i].refs \cup {b}
  <2>1. i \in Ids(rs) => new[i] = [rs[i] EXCEPT !.refs = @ \cup {b}]
    BY <1>1, VaultAssumption DEF attach_blob, Rows, Ids
  <2> QED
    BY <1>1, <2>1 DEF Row
<1>4. i \in Id \ Ids(rs) => new[i] = None
  BY <1>1 DEF attach_blob, Rows
<1>5. new \in Rows
  <2>1. new = [j \in Id |-> new[j]]
    BY DEF attach_blob, Rows
  <2> QED
    BY <1>1, <1>2, <1>3, <1>4, <2>1 DEF Rows
<1>6. Ids(new) = Ids(rs)
  BY <1>1, <1>2, <1>3, <1>4, VaultAssumption DEF Ids
<1>7. Sound(new, fs, k)
  <2>1. \A x, y \in Ids(new) : new[x].content = new[y].content => x = y
    BY <1>1, <1>2, <1>3, <1>6 DEF Sound
  <2>2. \A x \in Ids(new) : new[x].key = k
    BY <1>1, <1>2, <1>3, <1>6 DEF Sound
  <2>3. \A x \in Ids(new) : \A y \in new[x].refs : fs[y] # None
    BY <1>1, <1>2, <1>3, <1>6 DEF Sound
  <2> QED
    BY <2>1, <2>2, <2>3 DEF Sound
<1> QED
  BY <1>1, <1>2, <1>3, <1>5, <1>6, <1>7 DEF Grows

(* Retention: the files of the rows that stay are spared. *)
LEMMA Collected ==
  ASSUME NEW rs \in Rows, NEW fs \in Files, NEW k, NEW S, Sound(rs, fs, k), collect_garbage(rs, fs, S)
  PROVE  /\ rows' \in Rows /\ files' \in Files
         /\ Sound(rows', files', k)
         /\ Ids(rows)' = Ids(rs) \ S
         /\ \A i \in Ids(rows)' : rows'[i] = rs[i]
         /\ \A b \in Blob : files'[b] \in {None, fs[b]}
<1>1. /\ Ids(rs) \subseteq Id
      /\ \A j \in Ids(rs) : rs[j] \in Row
      /\ \A j \in Id \ Ids(rs) : rs[j] = None
  BY RowFacts
<1>2. rows' = [i \in Id |-> IF i \in S THEN None ELSE rs[i]]
  BY DEF collect_garbage, purge
<1>3. rows' \in Rows
  BY <1>2 DEF Rows
<1>4. Ids(rows)' = Ids(rs) \ S
  BY <1>2 DEF Ids
<1>5. \A i \in Ids(rows)' : rows'[i] = rs[i]
  BY <1>1, <1>2, <1>4
<1>6. files' = [b \in Blob |-> IF b \in Referenced(rs) \ Referenced(rows') THEN None ELSE fs[b]]
  BY DEF collect_garbage
<1>7. files' \in Files /\ \A b \in Blob : files'[b] \in {None, fs[b]}
  BY <1>6 DEF Files, MaybeKey
<1>8. Sound(rows', files', k)
  <2>1. \A i, j \in Ids(rows)' : rows'[i].content = rows'[j].content => i = j
    BY <1>4, <1>5 DEF Sound
  <2>2. \A i \in Ids(rows)' : rows'[i].key = k
    BY <1>4, <1>5 DEF Sound
  <2>3. ASSUME NEW i \in Ids(rows)', NEW b \in rows'[i].refs
        PROVE  files'[b] # None
    <3>1. b \in Blob
      BY <1>1, <1>4, <1>5, <2>3 DEF Row
    <3>2. b \in Referenced(rows')
      BY <2>3 DEF Referenced, Ids
    <3>3. fs[b] # None
      BY <1>4, <1>5, <2>3 DEF Sound
    <3> QED
      BY <1>6, <3>1, <3>2, <3>3
  <2> QED
    BY <2>1, <2>2, <2>3 DEF Sound, Ids
<1> QED
  BY <1>3, <1>4, <1>5, <1>7, <1>8

-----------------------------------------------------------------------------
(* A request goes on, to ts. The others are not in a stretch of their own. *)
Goes(t, ts) ==
  /\ up /\ turn \in {t, None}
  /\ task' = [task EXCEPT ![t] = ts]
  /\ turn' \in {t, None}
  /\ UNCHANGED <<setup, up>>

LEMMA OthersWait ==
  ASSUME Inv, NEW t \in Task, NEW ts, Goes(t, ts)
  PROVE  /\ task'[t] = ts
         /\ \A s \in Task \ {t} : task'[s] = task[s] /\ task'[s].pc \notin Stretch
<1>1. task \in [Task -> TaskState]
  BY DEF Inv, TypeOK
<1>2. \A s \in Task \ {t} : turn # s
  BY VaultAssumption DEF Goes
<1> QED
  BY <1>1, <1>2 DEF Goes, Inv, TaskInv

(* What a request may go on to. *)
LEMMA RequestStep ==
  ASSUME Inv, NEW t \in Task, NEW ts, Goes(t, ts),
         ts.op \in setup.ops \cup {None}, OpFits(ts),
         ts.pc \in Stretch => turn' = t,
         ts.pc = "thumb" => ts.queue \subseteq DOMAIN ThumbOf,
         \/ ts.op \notin Maintenance \/ task[t].op \in Maintenance
         \/ \A s \in Task : task[s].op \notin Maintenance
  PROVE  TaskInv' /\ OneMaintenance'
<1>1. /\ task'[t] = ts
      /\ \A s \in Task \ {t} : task'[s] = task[s] /\ task'[s].pc \notin Stretch
  BY OthersWait
<1>2. OpFits(task'[t]) /\ \A s \in Task \ {t} : OpFits(task'[s])
  BY <1>1 DEF Inv, TaskInv
<1>3. \A s \in Task : task'[s].op \in setup'.ops \cup {None}
  BY <1>1 DEF Goes, Inv, TaskInv
<1>4. \A s \in Task : /\ task'[s].pc \in Stretch => turn' = s
                      /\ task'[s].pc = "thumb" => task'[s].queue \subseteq DOMAIN ThumbOf
  BY <1>1 DEF Inv, TaskInv
<1>5. TaskInv'
  BY <1>2, <1>3, <1>4 DEF Goes, TaskInv, OpFits
<1>6. OneMaintenance'
  BY <1>1 DEF Inv, OneMaintenance
<1> QED
  BY <1>5, <1>6

(* Where the requests are left alone. *)
LEMMA NoRequestStep ==
  ASSUME Inv, UNCHANGED <<setup, up, task, turn>>
  PROVE  TaskInv' /\ OneMaintenance'
BY DEF Inv, TaskInv, OneMaintenance, OpFits

(* A step that seals nothing with another key: only rows and files change, *)
(* and no maintenance request is in a stretch.                             *)
LEMMA HistoryStep ==
  ASSUME Inv, UNCHANGED <<ring, meta, cipher, up, made>>, up,
         \A s \in Task : \/ task'[s] = task[s] /\ task[s].pc \notin Stretch
                         \/ task[s].op \notin Maintenance /\ task'[s].op \notin Maintenance,
         \A b \in Blob : files'[b] \in {None, files[b], cipher.files}
  PROVE  KeyInv' /\ MaintenanceInv'
<1>1. Wiping' = Wiping
  BY DEF Wiping, Maintenance
<1>2. \A b \in Blob : files'[b] \in {None, meta.print, cipher.files}
  BY DEF Inv, KeyInv
<1>3. KeyInv'
  BY <1>1, <1>2 DEF Inv, KeyInv
<1>4. ASSUME NEW s \in Task, task'[s].op = "rotate"
      PROVE  Rotating(task[s])'
  <2>1. task'[s] = task[s] /\ task[s].pc \notin Stretch /\ Rotating(task[s])
    BY <1>4 DEF Inv, MaintenanceInv, Maintenance
  <2> QED
    BY <2>1 DEF Rotating, Stretch
<1>5. ASSUME NEW s \in Task, task'[s].op = "wipe"
      PROVE  Erasing(task[s])'
  <2>1. task'[s] = task[s] /\ task[s].pc \notin Stretch /\ Erasing(task[s])
    BY <1>5 DEF Inv, MaintenanceInv, Maintenance
  <2> QED
    BY <2>1 DEF Erasing, Stretch
<1> QED
  BY <1>3, <1>4, <1>5 DEF MaintenanceInv

(* Where nobody is storing there is nothing to have room for. *)
LEMMA NobodyStores ==
  ASSUME IsFiniteSet(archive'), \A s \in Task : task'[s].pc \notin Storing
  PROVE  Room'
BY DEF Room

(* Inv, from its parts in the next state. *)
LEMMA InvParts ==
  ASSUME TypeOK', TaskInv', OneMaintenance', Room', RowInv', KeyInv', MaintenanceInv'
  PROVE  Inv'
BY DEF Inv

-----------------------------------------------------------------------------
(* Storing. *)

(* Facts of a state that every step of a request starts from. *)
LEMMA UpFacts ==
  ASSUME Inv, up
  PROVE  /\ cipher.rows \in Key /\ cipher.files \in Key /\ cipher.rows = meta.print
         /\ rows \in Rows /\ files \in Files
         /\ Sound(rows, files, cipher.rows)
BY DEF Inv, TypeOK, KeyInv, MaybeKey, RowInv, Rows, Files

LEMMA IdleIsNone ==
  /\ Idle \in TaskState
  /\ Idle.op = None /\ Idle.pc = "idle" /\ Idle.key = None /\ Idle.left = {} /\ Idle.queue = {}
  /\ Idle.op \notin Maintenance /\ None \notin Op
BY VaultAssumption DEF Idle, TaskState, Op, Pc, MaybeKey

(* A request for contents C begins: a copy (Daemon::store) or an archive   *)
(* (Daemon::import).                                                       *)
LEMMA StoringBegins ==
  ASSUME Inv, NEW t \in Task, NEW op \in {"store", "import"}, NEW C \in SUBSET Content,
         IsFiniteSet(C), Begins(t, op), HasRoom(C),
         To(t, [Idle EXCEPT !.op = op, !.pc = "row", !.queue = C]),
         UNCHANGED <<setup, disk, up, cipher, locked, made, wiped>>
  PROVE  Inv'
<1> DEFINE ts == [Idle EXCEPT !.op = op, !.pc = "row", !.queue = C]
<1>1. ts \in TaskState /\ ts.op = op /\ ts.pc = "row" /\ ts.queue = C
  BY IdleIsNone DEF TaskState, Op, Pc
<1>2. Goes(t, ts)
  BY DEF Goes, Begins, To
<1> HIDE DEF ts
<1>3. /\ task'[t] = ts
      /\ \A s \in Task \ {t} : task'[s] = task[s] /\ task'[s].pc \notin Stretch
  BY <1>2, OthersWait
<1>4. TypeOK'
  BY <1>1, <1>2 DEF Inv, TypeOK, Goes, disk, Setup
<1>5. TaskInv' /\ OneMaintenance'
  BY <1>1, <1>2, RequestStep DEF OpFits, Storing, Begins, To, Maintenance
<1>6. Room'
  BY <1>1, <1>3 DEF Inv, Room, HasRoom, disk, Stretch, Storing
<1>7. RowInv'
  BY DEF Inv, RowInv, Sound, disk, Ids
<1>8. task[t].op \notin Maintenance /\ up
  BY IdleIsNone DEF Begins
<1>9. KeyInv' /\ MaintenanceInv'
  BY <1>1, <1>3, <1>8, HistoryStep DEF disk, Maintenance
<1> QED
  BY <1>4, <1>5, <1>6, <1>7, <1>9, InvParts

LEMMA StoreKeepsInv ==
  ASSUME Inv, NEW t \in Task, NEW c \in Content, Store(t, c)
  PROVE  Inv'
BY StoringBegins, FS_Singleton DEF Store

LEMMA ImportKeepsInv ==
  ASSUME Inv, NEW t \in Task, Import(t)
  PROVE  Inv'
BY StoringBegins DEF Import, Inv, TypeOK, Room

(* HasRoom: one row of the request's takes one place. *)
LEMMA RoomForOne ==
  ASSUME Inv, up, NEW C \in SUBSET Content, IsFiniteSet(C), HasRoom(C), NEW c \in C,
         rows' = upsert_entry(rows, c)
  PROVE  /\ IdOf(rows, c) = {} => NextId(rows) \in Id
         /\ IsFiniteSet(C \ {c})
         /\ HasRoom(C \ {c})'
<1> DEFINE New == {x \in C : IdOf(rows, x) = {}}
           Rest == {x \in C \ {c} : IdOf(rows', x) = {}}
           m == Max(Ids(rows) \cup {0})
<1>1. IsFiniteSet(New) /\ IsFiniteSet(New \ {c}) /\ IsFiniteSet(C \ {c})
  BY FS_Subset, FS_RemoveElement
<1>2. Cardinality(New) \in Nat /\ Cardinality(New \ {c}) \in Nat
  BY <1>1, FS_CardinalityType
<1>3. m \in 0..MAX_ROWS /\ NextId(rows) = m + 1 /\ MAX_ROWS \in Nat /\ m + Cardinality(New) <= MAX_ROWS
  BY UpFacts, NextIdFree, VaultAssumption DEF NextId, HasRoom
<1>4. IdOf(rows, c) = {} => Cardinality(New) = Cardinality(New \ {c}) + 1 /\ Cardinality(New) >= 1
  <2>1. IdOf(rows, c) = {} => c \in New
    OBVIOUS
  <2> HIDE DEF New
  <2>2. Cardinality(New \ {c}) = IF c \in New THEN Cardinality(New) - 1 ELSE Cardinality(New)
    BY <1>1, FS_RemoveElement
  <2> QED
    BY <1>2, <2>1, <2>2
<1>5. IdOf(rows, c) = {} => NextId(rows) \in Id
  BY <1>2, <1>3, <1>4 DEF Id
<1>6. /\ rows' \in Rows
      /\ \A i \in Ids(rows) : i \in Ids(rows)' /\ rows'[i].content = rows[i].content
      /\ Ids(rows)' = IF IdOf(rows, c) = {} THEN Ids(rows) \cup {NextId(rows)} ELSE Ids(rows)
  BY <1>5, UpFacts, Upserted DEF Ids
<1>7. Rest \subseteq New \ {c}
  <2> SUFFICES ASSUME NEW x \in Rest, NEW i \in IdOf(rows, x)
               PROVE  FALSE
    OBVIOUS
  <2>1. i \in Ids(rows') /\ rows'[i].content = x
    BY <1>6 DEF IdOf, Ids
  <2> QED
    BY <2>1 DEF IdOf
<1>8. IsFiniteSet(Rest) /\ Cardinality(Rest) \in Nat /\ Cardinality(Rest) <= Cardinality(New \ {c})
  BY <1>1, <1>7, FS_Subset, FS_CardinalityType
<1>9. Cardinality(New \ {c}) <= Cardinality(New)
  BY <1>1, <1>2, FS_Subset
<1> HIDE DEF New, Rest, m
<1>10. CASE IdOf(rows, c) = {}
  <2>1. Max(Ids(rows') \cup {0}) = m + 1
    <3> DEFINE S == Ids(rows') \cup {0}
    <3>1. S = Ids(rows) \cup {0, m + 1}
      BY <1>3, <1>6, <1>10 DEF Ids
    <3>2. \A i \in Ids(rows) : i \in Nat /\ i < m + 1
      <4>1. Ids(rows) \subseteq 1..MAX_ROWS
        BY UpFacts, RowFacts DEF Id
      <4>2. \A i \in Ids(rows) : i < NextId(rows)
        BY UpFacts, NextIdFree
      <4> QED
        BY <1>3, <4>1, <4>2
    <3>3. S \subseteq 0..MAX_ROWS /\ S # {}
      <4>1. Ids(rows') \subseteq 1..MAX_ROWS
        BY <1>6, RowFacts DEF Id
      <4> QED
        BY <1>3, <4>1
    <3>4. Max(S) \in S /\ \A y \in S : Max(S) >= y
      BY <3>3, <1>3, MaxOf
    <3> HIDE DEF S
    <3>5. Max(S) >= m + 1 /\ Max(S) <= m + 1
      BY <1>3, <3>1, <3>2, <3>4
    <3> QED
      BY <1>3, <3>1, <3>2, <3>4, <3>5 DEF S
  <2>2. m + 1 + Cardinality(Rest) <= MAX_ROWS
    BY <1>2, <1>3, <1>4, <1>8, <1>10
  <2> QED
    BY <1>1, <1>5, <2>1, <2>2 DEF HasRoom, Rest, IdOf, Ids
<1>11. CASE IdOf(rows, c) # {}
  <2>1. Max(Ids(rows') \cup {0}) = m
    BY <1>6, <1>11 DEF m, Ids
  <2>2. m + Cardinality(Rest) <= MAX_ROWS
    BY <1>2, <1>3, <1>8, <1>9
  <2> QED
    BY <1>1, <1>5, <2>1, <2>2 DEF HasRoom, Rest, IdOf, Ids
<1> QED
  BY <1>10, <1>11

(* Database::upsert_entry inside Daemon::store. *)
LEMMA InsertRowKeepsInv ==
  ASSUME Inv, NEW t \in Task, InsertRow(t)
  PROVE  Inv'
<1>1. PICK c \in task[t].queue :
        /\ rows' = upsert_entry(rows, c)
        /\ To(t, [task[t] EXCEPT !.pc = "put", !.row = CHOOSE i \in IdOf(rows', c) : TRUE,
                                 !.left = BlobsOf[c], !.queue = @ \ {c}])
  BY DEF InsertRow
<1> DEFINE i == CHOOSE i \in IdOf(rows', c) : TRUE
           ts == [task[t] EXCEPT !.pc = "put", !.row = i, !.left = BlobsOf[c], !.queue = @ \ {c}]
<1>2. /\ up /\ turn = t /\ task[t].pc = "row" /\ task[t] \in TaskState
      /\ task[t].op \in {"store", "import"} /\ task[t].op \in setup.ops \cup {None}
      /\ IsFiniteSet(task[t].queue) /\ HasRoom(task[t].queue)
  BY DEF InsertRow, At, Inv, TypeOK, TaskInv, OpFits, Storing, Room
<1>3. task[t].queue \subseteq Content /\ c \in Content
  BY <1>2 DEF TaskState
<1> PICK Q : Q = task[t].queue
  OBVIOUS
<1>4. /\ IdOf(rows, c) = {} => NextId(rows) \in Id
      /\ IsFiniteSet(Q \ {c})
      /\ HasRoom(Q \ {c})'
  BY <1>1, <1>2, <1>3, RoomForOne
<1>5. /\ rows' \in Rows /\ Sound(rows', files, cipher.rows)
      /\ IdOf(rows', c) # {} /\ IdOf(rows', c) \subseteq Id
  BY <1>1, <1>2, <1>3, <1>4, UpFacts, Upserted
<1>6. i \in 0..MAX_ROWS
  <2>1. i \in IdOf(rows', c)
    BY <1>5
  <2> HIDE DEF i
  <2> QED
    BY <1>5, <2>1, VaultAssumption DEF Id
<1>7. Goes(t, ts) /\ turn' = t
  BY <1>1, <1>2 DEF Goes, To, InsertRow
<1> HIDE DEF i
<1>8. ts \in TaskState /\ ts.op = task[t].op /\ ts.pc = "put" /\ ts.queue = Q \ {c}
  BY <1>2, <1>3, <1>6, BlobsAreBlobs DEF TaskState, Pc
<1> HIDE DEF ts
<1>9. /\ task'[t] = ts
      /\ \A s \in Task \ {t} : task'[s] = task[s] /\ task'[s].pc \notin Stretch
  BY <1>7, OthersWait
<1>10. TypeOK'
  BY <1>5, <1>7, <1>8 DEF Inv, TypeOK, Goes, InsertRow, Rows
<1>11. TaskInv' /\ OneMaintenance'
  BY <1>2, <1>7, <1>8, RequestStep DEF OpFits, Storing, Maintenance
<1>12. Room'
  BY <1>4, <1>8, <1>9 DEF Inv, Room, InsertRow, Stretch, Storing
<1>13. RowInv'
  BY <1>2, <1>5, UpFacts DEF RowInv, Sound, InsertRow, Ids
<1>14. KeyInv' /\ MaintenanceInv'
  BY <1>2, <1>8, <1>9, HistoryStep DEF InsertRow, Maintenance
<1> QED
  BY <1>10, <1>11, <1>12, <1>13, <1>14, InvParts

(* A step of a request that is not maintenance, to ts. *)
LEMMA StoringStep ==
  ASSUME Inv, NEW t \in Task, NEW ts \in TaskState, Goes(t, ts),
         ts.op \in {task[t].op, None}, task[t].op \notin Maintenance, OpFits(ts),
         ts.pc \in Stretch => turn' = t,
         ts.pc = "thumb" => ts.queue \subseteq DOMAIN ThumbOf,
         ts.pc \in Storing => /\ IsFiniteSet(ts.queue)
                              /\ \A C : C = ts.queue => HasRoom(C)',
         rows' \in Rows, files' \in Files, Sound(rows', files', meta.print),
         \A b \in Blob : files'[b] \in {None, files[b], cipher.files},
         UNCHANGED <<ring, meta, cipher, locked, archive, made>>, wiped' \in BOOLEAN
  PROVE  Inv'
<1>1. /\ task'[t] = ts
      /\ \A s \in Task \ {t} : task'[s] = task[s] /\ task'[s].pc \notin Stretch
  BY OthersWait
<1>2. TypeOK'
  BY DEF Inv, TypeOK, Goes, Rows, Files
<1>3. task[t].op \in setup.ops \cup {None} /\ None \notin Maintenance /\ up
  BY IdleIsNone DEF Inv, TaskInv, Goes
<1>4. TaskInv' /\ OneMaintenance'
  BY <1>3, RequestStep
<1>5. Room'
  BY <1>1 DEF Inv, Room, Stretch, Storing
<1>6. RowInv'
  BY DEF RowInv, Sound, Ids
<1>7. KeyInv' /\ MaintenanceInv'
  <2>1. \A s \in Task : \/ task'[s] = task[s] /\ task[s].pc \notin Stretch
                        \/ task[s].op \notin Maintenance /\ task'[s].op \notin Maintenance
    BY <1>1, <1>3
  <2> QED
    BY <1>3, <2>1, HistoryStep DEF Goes
<1> QED
  BY <1>2, <1>4, <1>5, <1>6, <1>7, InvParts

LEMMA WriteBlobKeepsInv ==
  ASSUME Inv, NEW t \in Task, WriteBlob(t)
  PROVE  Inv'
<1> DEFINE ts == [task[t] EXCEPT !.pc = "attach"]
<1>1. /\ up /\ turn = t /\ task[t].pc = "put" /\ task[t] \in TaskState
      /\ task[t].op \in {"store", "import"}
      /\ IsFiniteSet(task[t].queue) /\ HasRoom(task[t].queue)
  BY DEF WriteBlob, At, Inv, TypeOK, TaskInv, OpFits, Storing, Room
<1>2. PICK b \in Blob : files' = put(files, b)
  BY <1>1 DEF WriteBlob, TaskState
<1>3. ts \in TaskState /\ ts.op = task[t].op /\ ts.pc = "attach" /\ ts.queue = task[t].queue
  BY <1>1 DEF TaskState, Pc
<1>4. Goes(t, ts) /\ turn' = t
  BY <1>1 DEF Goes, To, WriteBlob
<1>5. /\ files' \in Files /\ Sound(rows', files', meta.print)
      /\ \A x \in Blob : files'[x] \in {None, files[x], cipher.files}
  <2>1. /\ files' \in Files
        /\ \A x \in Blob : files'[x] \in {files[x], cipher.files} /\ (files[x] # None => files'[x] # None)
    BY <1>1, <1>2, UpFacts, BlobWritten
  <2>2. \A i \in Ids(rows) : rows[i].refs \subseteq Blob
    BY <1>1, UpFacts, RowFacts DEF Row
  <2>3. Sound(rows, files', meta.print)
    BY <1>1, <2>1, <2>2, UpFacts DEF Sound
  <2> QED
    BY <2>1, <2>3 DEF WriteBlob
<1>6. \A C : C = ts.queue => HasRoom(C)'
  BY <1>1, <1>3 DEF HasRoom, IdOf, Ids, WriteBlob
<1>7. rows' \in Rows
  BY <1>1, UpFacts DEF WriteBlob
<1>8. OpFits(ts) /\ task[t].op \notin Maintenance
  BY <1>1, <1>3 DEF OpFits, Storing, Maintenance
<1>9. UNCHANGED <<ring, meta, cipher, locked, archive, made>> /\ wiped' \in BOOLEAN
  BY DEF WriteBlob, Inv, TypeOK
<1> HIDE DEF ts
<1> QED
  BY <1>1, <1>3, <1>4, <1>5, <1>6, <1>7, <1>8, <1>9, StoringStep

(* Database::attach_blob inside Daemon::store. *)
LEMMA AttachBlobKeepsInv ==
  ASSUME Inv, NEW t \in Task, AttachBlob(t)
  PROVE  Inv'
<1>1. /\ up /\ turn = t /\ task[t].pc = "attach" /\ task[t] \in TaskState
      /\ task[t].op \in {"store", "import"}
      /\ IsFiniteSet(task[t].queue) /\ HasRoom(task[t].queue)
  BY DEF AttachBlob, At, Inv, TypeOK, TaskInv, OpFits, Storing, Room
<1>2. PICK b \in task[t].left :
        /\ files[b] # None
        /\ rows' = attach_blob(rows, task[t].row, b)
        /\ To(t, [task[t] EXCEPT !.pc = "put", !.left = @ \ {b}])
  BY DEF AttachBlob
<1> DEFINE ts == [task[t] EXCEPT !.pc = "put", !.left = @ \ {b}]
<1>3. ts \in TaskState /\ ts.op = task[t].op /\ ts.pc = "put" /\ ts.queue = task[t].queue
  BY <1>1 DEF TaskState, Pc
<1>4. Goes(t, ts) /\ turn' = t
  BY <1>1, <1>2 DEF Goes, To, AttachBlob
<1>5. b \in Blob /\ files' = files
  BY <1>1 DEF TaskState, AttachBlob
<1>6. /\ rows' \in Rows /\ Sound(rows', files, meta.print)
      /\ Ids(rows') = Ids(rows)
      /\ \A j \in Ids(rows) : rows'[j].content = rows[j].content
  <2>1. Sound(rows, files, meta.print) /\ rows \in Rows /\ files \in Files
    BY <1>1, UpFacts
  <2>2. b \in Blob /\ files[b] # None /\ rows' = attach_blob(rows, task[t].row, b)
    BY <1>2, <1>5
  <2>3. rows' \in Rows /\ Sound(rows', files, meta.print) /\ Grows(rows, rows', task[t].row)
    BY <2>1, <2>2, Attached
  <2> QED
    BY <2>3 DEF Grows
<1>7. \A C : C = ts.queue => HasRoom(C)'
  <2>1. \A x : IdOf(rows', x) = IdOf(rows, x)
    BY <1>6 DEF IdOf
  <2>2. \A C : {x \in C : IdOf(rows', x) = {}} = {x \in C : IdOf(rows, x) = {}}
    BY <2>1
  <2>3. \A C : HasRoom(C)' <=> HasRoom(C)
    BY <1>6, <2>2 DEF HasRoom
  <2> QED
    BY <1>1, <1>3, <2>3
<1>8. OpFits(ts) /\ task[t].op \notin Maintenance
  BY <1>1, <1>3 DEF OpFits, Storing, Maintenance
<1>9. /\ UNCHANGED <<ring, meta, cipher, locked, archive, made>> /\ wiped' \in BOOLEAN
      /\ files' \in Files
  BY <1>1, UpFacts DEF AttachBlob, Inv, TypeOK
<1> HIDE DEF ts
<1> QED
  BY <1>1, <1>3, <1>4, <1>5, <1>6, <1>7, <1>8, <1>9, StoringStep

(* The end of an entry: the next one of an archive, the wait for a         *)
(* thumbnail, or retention.                                                *)
LEMMA FilledKeepsInv ==
  ASSUME Inv, NEW t \in Task, Filled(t)
  PROVE  Inv'
<1>1. /\ up /\ turn = t /\ task[t].pc = "put" /\ task[t] \in TaskState
      /\ task[t].op \in {"store", "import"}
      /\ IsFiniteSet(task[t].queue) /\ HasRoom(task[t].queue)
  BY DEF Filled, At, Inv, TypeOK, TaskInv, OpFits, Storing, Room
<1>2. /\ UNCHANGED <<setup, up, ring, meta, cipher, locked, archive, made>> /\ wiped' \in BOOLEAN
      /\ task[t].op \notin Maintenance
  BY <1>1 DEF Filled, Inv, TypeOK, Maintenance
<1>3. Sound(rows, files, meta.print) /\ rows \in Rows /\ files \in Files
  BY <1>1, UpFacts
<1>4. UNCHANGED <<rows, files>> =>
        /\ rows' \in Rows /\ files' \in Files /\ Sound(rows', files', meta.print)
        /\ \A b \in Blob : files'[b] \in {None, files[b], cipher.files}
  BY <1>3
<1>5. CASE Done(t) /\ UNCHANGED <<rows, files>>
  BY <1>1, <1>2, <1>4, <1>5, IdleIsNone, StoringStep DEF Goes, Done, Wait, OpFits, Stretch, Storing
<1>6. CASE Done(t) /\ \E S \in Expired(rows) : collect_garbage(rows, files, S)
  <2>1. /\ rows' \in Rows /\ files' \in Files /\ Sound(rows', files', meta.print)
        /\ \A b \in Blob : files'[b] \in {None, files[b], cipher.files}
    BY <1>3, <1>6, Collected
  <2> QED
    BY <1>1, <1>2, <1>6, <2>1, IdleIsNone, StoringStep DEF Goes, Done, Wait, OpFits, Stretch, Storing
<1>7. CASE To(t, [task[t] EXCEPT !.pc = "row"]) /\ UNCHANGED <<rows, files>>
  <2> DEFINE ts == [task[t] EXCEPT !.pc = "row"]
  <2>1. ts \in TaskState /\ ts.op = task[t].op /\ ts.pc = "row" /\ ts.queue = task[t].queue
    BY <1>1 DEF TaskState, Pc
  <2>2. Goes(t, ts) /\ turn' = t
    BY <1>1, <1>2, <1>7 DEF Goes, To
  <2> HIDE DEF ts
  <2>3. OpFits(ts)
    BY <1>1, <2>1 DEF OpFits, Storing
  <2>4. \A C : C = ts.queue => HasRoom(C)'
    BY <1>1, <1>7, <2>1 DEF HasRoom, IdOf, Ids
  <2> QED
    BY <1>1, <1>2, <1>4, <1>7, <2>1, <2>2, <2>3, <2>4, StoringStep
<1>8. CASE /\ task[t].op = "store" /\ rows[task[t].row].content \in DOMAIN ThumbOf
           /\ Wait(t, [task[t] EXCEPT !.pc = "thumb", !.queue = {rows[task[t].row].content}])
           /\ UNCHANGED <<rows, files>>
  <2> PICK c \in DOMAIN ThumbOf : c = rows[task[t].row].content
    BY <1>8
  <2> DEFINE ts == [task[t] EXCEPT !.pc = "thumb", !.queue = {c}]
  <2>1. ts \in TaskState /\ ts.op = task[t].op /\ ts.pc = "thumb" /\ ts.queue = {c}
    BY <1>1, VaultAssumption DEF TaskState, Pc
  <2>2. Goes(t, ts) /\ turn' = None
    BY <1>1, <1>2, <1>8 DEF Goes, Wait
  <2> HIDE DEF ts
  <2>3. OpFits(ts)
    BY <1>8, <2>1 DEF OpFits, Storing
  <2> QED
    BY <1>1, <1>2, <1>4, <1>8, <2>1, <2>2, <2>3, StoringStep DEF Stretch, Storing
<1> QED
  BY <1>1, <1>5, <1>6, <1>7, <1>8 DEF Filled

LEMMA ViewKeepsInv ==
  ASSUME Inv, NEW t \in Task, NEW i \in Id, View(t, i)
  PROVE  Inv'
<1> PICK c \in DOMAIN ThumbOf : c = rows[i].content
  BY DEF View
<1> DEFINE ts == [Idle EXCEPT !.op = "view", !.pc = "thumb", !.row = i, !.queue = {c}]
<1>1. /\ up /\ turn = None /\ task[t] = Idle /\ "view" \in setup.ops
      /\ UNCHANGED <<setup, disk, up, cipher, locked, made, wiped>>
  BY DEF View, Begins
<1>2. ts \in TaskState /\ ts.op = "view" /\ ts.pc = "thumb" /\ ts.queue = {c}
  <2>1. i \in 0..MAX_ROWS /\ c \in Content
    BY VaultAssumption DEF Id
  <2> QED
    BY <2>1, IdleIsNone DEF TaskState, Pc, Op
<1>3. Goes(t, ts)
  BY <1>1 DEF Goes, Wait, View
<1> HIDE DEF ts
<1>4. /\ task'[t] = ts
      /\ \A s \in Task \ {t} : task'[s] = task[s] /\ task'[s].pc \notin Stretch
  BY <1>3, OthersWait
<1>5. TypeOK'
  BY <1>1, <1>2, <1>3 DEF Inv, TypeOK, Goes, disk
<1>6. TaskInv' /\ OneMaintenance'
  BY <1>1, <1>2, <1>3, RequestStep DEF OpFits, Storing, Stretch, Maintenance
<1>7. Room'
  BY <1>1, <1>2, <1>4, NobodyStores DEF Inv, Room, Stretch, Storing, disk
<1>8. RowInv'
  BY <1>1 DEF Inv, RowInv, Sound, disk, Ids
<1>9. KeyInv' /\ MaintenanceInv'
  BY <1>1, <1>2, <1>4, IdleIsNone, HistoryStep DEF disk, Maintenance
<1> QED
  BY <1>5, <1>6, <1>7, <1>8, <1>9, InvParts

(* The thumbnail of the row that has the number by then. *)
LEMMA ThumbnailKeepsInv ==
  ASSUME Inv, NEW t \in Task, NEW scaled \in BOOLEAN, Thumbnail(t, scaled)
  PROVE  Inv'
<1>1. /\ up /\ turn = None /\ task[t].pc = "thumb" /\ task[t] \in TaskState
      /\ task[t].op \in {"store", "view"} /\ task[t].queue \subseteq DOMAIN ThumbOf
  BY DEF Thumbnail, Answered, Inv, TypeOK, TaskInv, OpFits
<1>2. /\ UNCHANGED <<setup, up, ring, meta, cipher, locked, archive, made>> /\ wiped' \in BOOLEAN
      /\ task[t].op \notin Maintenance
  BY <1>1 DEF Thumbnail, Inv, TypeOK, Maintenance
<1>3. PICK c \in task[t].queue :
       LET fs == IF scaled THEN put(files, ThumbOf[c]) ELSE files
           rs == IF scaled THEN attach_blob(rows, task[t].row, ThumbOf[c]) ELSE rows
       IN \/ rows' = rs /\ files' = fs
          \/ \E S \in Expired(rs) : collect_garbage(rs, fs, S)
  BY DEF Thumbnail
<1> DEFINE fs == IF scaled THEN put(files, ThumbOf[c]) ELSE files
           rs == IF scaled THEN attach_blob(rows, task[t].row, ThumbOf[c]) ELSE rows
<1>4. /\ fs \in Files /\ rs \in Rows /\ Sound(rs, fs, meta.print)
      /\ \A b \in Blob : fs[b] \in {files[b], cipher.files}
  <2>1. Sound(rows, files, meta.print) /\ rows \in Rows /\ files \in Files /\ cipher.files \in Key
    BY <1>1, UpFacts
  <2>2. ThumbOf[c] \in Blob
    BY <1>1, BlobsAreBlobs
  <2>3. CASE scaled
    <3>1. /\ fs \in Files /\ fs[ThumbOf[c]] # None
          /\ \A b \in Blob : fs[b] \in {files[b], cipher.files} /\ (files[b] # None => fs[b] # None)
      BY <2>1, <2>2, <2>3, BlobWritten
    <3>2. \A i \in Ids(rows) : rows[i].refs \subseteq Blob
      BY <2>1, RowFacts DEF Row
    <3>3. Sound(rows, fs, meta.print)
      BY <2>1, <3>1, <3>2 DEF Sound
    <3> HIDE DEF fs
    <3> QED
      BY <2>1, <2>2, <2>3, <3>1, <3>3, Attached
  <2> QED
    BY <2>1, <2>3
<1> HIDE DEF fs, rs
<1>5. /\ rows' \in Rows /\ files' \in Files /\ Sound(rows', files', meta.print)
      /\ \A b \in Blob : files'[b] \in {None, fs[b]}
  BY <1>3, <1>4, Collected DEF fs, rs
<1>6. \A b \in Blob : files'[b] \in {None, files[b], cipher.files}
  BY <1>4, <1>5
<1> QED
  BY <1>1, <1>2, <1>5, <1>6, IdleIsNone, StoringStep
     DEF Thumbnail, Goes, Done, Wait, OpFits, Stretch, Storing

-----------------------------------------------------------------------------
(* Letting go, and the requests that leave the store alone. *)

(* A step that is no request's: the rows and the files may be fewer. *)
LEMMA QuietStep ==
  ASSUME Inv, up, turn = None, rows' \in Rows, files' \in Files, Sound(rows', files', meta.print),
         \A b \in Blob : files'[b] \in {None, files[b]},
         UNCHANGED <<setup, up, task, turn, ring, meta, cipher, made, wiped>>,
         locked' \in BOOLEAN, archive' \subseteq Content, IsFiniteSet(archive')
  PROVE  Inv'
<1>1. \A s \in Task : task[s].pc \notin Stretch
  BY VaultAssumption DEF Inv, TaskInv
<1>2. TypeOK'
  BY DEF Inv, TypeOK, Rows, Files
<1>3. TaskInv' /\ OneMaintenance'
  BY NoRequestStep
<1>4. Room'
  BY <1>1, NobodyStores DEF Stretch, Storing
<1>5. RowInv'
  BY DEF RowInv, Sound, Ids
<1>6. KeyInv' /\ MaintenanceInv'
  BY <1>1, HistoryStep
<1> QED
  BY <1>2, <1>3, <1>4, <1>5, <1>6, InvParts

LEMMA LettingGoKeepsInv ==
  ASSUME Inv, Clear \/ Maintain \/ \E i \in Id : Delete(i) \/ Restore(i)
  PROVE  Inv'
<1>1. /\ up /\ turn = None
      /\ UNCHANGED <<setup, up, task, turn, ring, meta, cipher, locked, archive, made, wiped>>
  BY DEF Clear, Maintain, Delete, Restore
<1>2. Sound(rows, files, meta.print) /\ rows \in Rows /\ files \in Files
  BY <1>1, UpFacts
<1>3. locked' \in BOOLEAN /\ archive' \subseteq Content /\ IsFiniteSet(archive')
  BY <1>1 DEF Inv, TypeOK, Room
<1>4. /\ Ids(rows) \subseteq Id
      /\ \A j \in Ids(rows) : rows[j] \in Row
      /\ \A j \in Id \ Ids(rows) : rows[j] = None
  BY <1>2, RowFacts
<1>5. ASSUME NEW i \in Id, rows[i] # None, NEW gone \in BOOLEAN
      PROVE  /\ [rows EXCEPT ![i].gone = gone] \in Rows
             /\ Sound([rows EXCEPT ![i].gone = gone], files, meta.print)
  <2> DEFINE r == [rows[i] EXCEPT !.gone = gone]
             new == [rows EXCEPT ![i] = r]
  <2>1. i \in Ids(rows) /\ rows[i] \in Row
    BY <1>4, <1>5 DEF Ids
  <2>2. r \in Row /\ r.content = rows[i].content /\ r.key = rows[i].key /\ r.refs = rows[i].refs
    BY <1>5, <2>1 DEF Row
  <2> HIDE DEF r
  <2>3. new \in Rows /\ new[i] = r /\ \A j \in Id \ {i} : new[j] = rows[j]
    BY <1>2, <2>2 DEF Rows
  <2> HIDE DEF new
  <2>4. Ids(new) = Ids(rows)
    BY <1>4, <2>1, <2>2, <2>3, VaultAssumption DEF Ids
  <2>5. Sound(new, files, meta.print)
    <3>1. \A j \in Ids(rows) : /\ new[j].content = rows[j].content
                               /\ new[j].key = rows[j].key
                               /\ new[j].refs = rows[j].refs
      BY <1>4, <2>2, <2>3
    <3> QED
      BY <1>2, <2>4, <3>1 DEF Sound
  <2> QED
    BY <2>3, <2>5 DEF r, new
<1>6. CASE \E S : collect_garbage(rows, files, S)
  <2>1. /\ rows' \in Rows /\ files' \in Files /\ Sound(rows', files', meta.print)
        /\ \A b \in Blob : files'[b] \in {None, files[b]}
    BY <1>2, <1>6, Collected
  <2> QED
    BY <1>1, <1>3, <2>1, QuietStep
<1>7. ASSUME NEW i \in Id, Delete(i)
      PROVE  Inv'
  <2>1. PICK S : collect_garbage([rows EXCEPT ![i].gone = TRUE], files, S)
    BY <1>7 DEF Delete
  <2>2. [rows EXCEPT ![i].gone = TRUE] \in Rows /\ Sound([rows EXCEPT ![i].gone = TRUE], files, meta.print)
    BY <1>5, <1>7 DEF Delete
  <2>3. /\ rows' \in Rows /\ files' \in Files /\ Sound(rows', files', meta.print)
        /\ \A b \in Blob : files'[b] \in {None, files[b]}
    BY <1>2, <2>1, <2>2, Collected
  <2> QED
    BY <1>1, <1>3, <2>3, QuietStep
<1>8. ASSUME NEW i \in Id, Restore(i)
      PROVE  Inv'
  <2>1. rows' = [rows EXCEPT ![i].gone = FALSE] /\ files' = files /\ rows[i] # None
    BY <1>8 DEF Restore
  <2>2. rows' \in Rows /\ Sound(rows', files', meta.print)
    BY <1>5, <2>1
  <2> QED
    BY <1>1, <1>2, <1>3, <2>1, <2>2, QuietStep
<1>9. CASE Maintain
  <2>1. files' = [b \in Blob |-> IF b \in Referenced(rows) THEN files[b] ELSE None] /\ rows' = rows
    BY <1>9 DEF Maintain
  <2>2. files' \in Files /\ \A b \in Blob : files'[b] \in {None, files[b]}
    BY <1>2, <2>1 DEF Files, MaybeKey
  <2>3. \A i \in Ids(rows) : \A b \in rows[i].refs : files'[b] # None
    <3>1. \A i \in Ids(rows) : \A b \in rows[i].refs : b \in Blob /\ b \in Referenced(rows) /\ files[b] # None
      BY <1>2, <1>4 DEF Sound, Referenced, Row
    <3> QED
      BY <2>1, <3>1
  <2>4. Sound(rows', files', meta.print)
    BY <1>2, <2>1, <2>3 DEF Sound
  <2> QED
    BY <1>1, <1>2, <1>3, <2>1, <2>2, <2>4, QuietStep
<1> QED
  BY <1>6, <1>7, <1>8, <1>9 DEF Clear

LEMMA LockOrExportKeepsInv ==
  ASSUME Inv, Export \/ EngageLock \/ Unlock
  PROVE  Inv'
<1>1. /\ up /\ turn = None /\ UNCHANGED <<setup, up, task, turn, ring, rows, files, meta, cipher, made, wiped>>
  BY DEF Export, EngageLock, Unlock, disk
<1>2. Sound(rows, files, meta.print) /\ rows \in Rows /\ files \in Files
  BY <1>1, UpFacts
<1>3. IsFiniteSet(archive') /\ archive' \subseteq Content /\ locked' \in BOOLEAN
  <2>1. CASE EngageLock \/ Unlock
    BY <2>1 DEF EngageLock, Unlock, disk, Inv, TypeOK, Room
  <2>2. CASE Export
    <3> DEFINE J == {j \in Ids(rows) : ~rows[j].gone}
               f == [i \in J |-> rows[i].content]
    <3>1. archive' = {f[i] : i \in J}
      BY <2>2 DEF Export
    <3>2. J \subseteq Id /\ \A i \in J : rows[i] \in Row
      BY <1>2, RowFacts
    <3>3. IsFiniteSet(J)
      <4>1. IsFiniteSet(1..MAX_ROWS)
        BY FS_Interval, VaultAssumption
      <4> QED
        BY <3>2, <4>1, FS_Subset DEF Id
    <3>4. f \in Surjection(J, archive')
      BY <3>1 DEF Surjection
    <3>5. IsFiniteSet(archive')
      BY <3>3, <3>4, FS_Surjection
    <3>6. archive' \subseteq Content
      BY <3>1, <3>2 DEF Row
    <3> QED
      BY <2>2, <3>5, <3>6 DEF Export, Inv, TypeOK
  <2> QED
    BY <2>1, <2>2
<1> QED
  BY <1>1, <1>2, <1>3, QuietStep

-----------------------------------------------------------------------------
(* Maintenance. *)

(* The request is the only one of its kind, so whether a wipe is under way *)
(* depends on it.                                                          *)
Only(t) == task[t].op \in Maintenance \/ \A s \in Task : task[s].op \notin Maintenance

LEMMA WhoseWipe ==
  ASSUME Inv, NEW t \in Task, NEW ts, Goes(t, ts), Only(t)
  PROVE  /\ Wiping' <=> ts.op = "wipe"
         /\ Wiping <=> task[t].op = "wipe"
<1>1. /\ task'[t] = ts
      /\ \A s \in Task \ {t} : task'[s] = task[s]
  BY OthersWait
<1>2. \A s \in Task \ {t} : task[s].op \notin Maintenance
  BY DEF Only, Inv, OneMaintenance
<1> QED
  BY <1>1, <1>2 DEF Wiping, Maintenance

Typed ==
  /\ ring \in [primary : MaybeKey, pending : MaybeKey, backup : MaybeKey]
  /\ rows \in Rows /\ files \in Files
  /\ meta \in [print : MaybeKey, rotating : BOOLEAN, lock : BOOLEAN]
  /\ cipher \in [rows : MaybeKey, files : MaybeKey]
  /\ locked \in BOOLEAN /\ wiped \in BOOLEAN /\ made \in 0..MAX_KEYS

LEMMA MaintenanceStep ==
  ASSUME Inv, NEW t \in Task, NEW ts \in TaskState, Goes(t, ts), Only(t),
         ts.op \in setup.ops \cup {None}, OpFits(ts), ts.pc \in Stretch => turn' = t,
         ts.pc \notin Storing \cup {"thumb"}, archive' = archive,
         Typed', RowInv', KeyInv',
         ts.op = "rotate" => Rotating(ts)', ts.op = "wipe" => Erasing(ts)'
  PROVE  Inv'
<1>1. /\ task'[t] = ts
      /\ \A s \in Task \ {t} : task'[s] = task[s] /\ task'[s].pc \notin Stretch
  BY OthersWait
<1>2. \A s \in Task \ {t} : task[s].op \notin Maintenance
  BY DEF Only, Inv, OneMaintenance
<1>3. TypeOK'
  BY DEF Inv, TypeOK, Typed, Goes, Rows, Files
<1>4. TaskInv' /\ OneMaintenance'
  BY RequestStep DEF Only
<1>5. Room'
  BY <1>1, NobodyStores DEF Inv, Room, Stretch, Storing
<1>6. MaintenanceInv'
  <2>1. ASSUME NEW s \in Task, task'[s].op = "rotate"
        PROVE  Rotating(task[s])'
    BY <1>1, <1>2, <2>1 DEF Rotating, Maintenance
  <2>2. ASSUME NEW s \in Task, task'[s].op = "wipe"
        PROVE  Erasing(task[s])'
    BY <1>1, <1>2, <2>2 DEF Erasing, Maintenance
  <2> QED
    BY <2>1, <2>2 DEF MaintenanceInv
<1> QED
  BY <1>3, <1>4, <1>5, <1>6, InvParts

(* A request that only waits, or ends: the store and the keys stay. *)
LEMMA WaitingStep ==
  ASSUME Inv, NEW t \in Task, NEW ts \in TaskState, Goes(t, ts), Only(t),
         ts.op \in setup.ops \cup {None}, OpFits(ts), ts.pc \in Stretch => turn' = t,
         ts.pc \notin Storing \cup {"thumb"},
         UNCHANGED <<ring, rows, files, cipher, archive>>, made' \in 0..MAX_KEYS,
         meta' \in [print : MaybeKey, rotating : BOOLEAN, lock : BOOLEAN],
         meta'.print = meta.print, meta'.rotating = meta.rotating,
         locked' \in BOOLEAN, wiped' \in BOOLEAN,
         task[t].op = "wipe" => ts.op = "wipe",
         ts.op = "rotate" => Rotating(ts)', ts.op = "wipe" => Erasing(ts)'
  PROVE  Inv'
<1>1. Typed'
  BY DEF Typed, Inv, TypeOK, Rows, Files
<1>2. RowInv'
  BY DEF Inv, RowInv, Sound, Ids
<1>3. Wiping => Wiping'
  BY WhoseWipe
<1>4. KeyInv'
  BY <1>3 DEF Inv, KeyInv, Goes
<1> QED
  BY <1>1, <1>2, <1>4, MaintenanceStep

(* RotateKey, SetPassword, RemovePassword and Wipe. *)
LEMMA MaintenanceBegins ==
  ASSUME Inv, NEW t \in Task, RotateKey(t) \/ SetPassword(t) \/ RemovePassword(t) \/ Wipe(t)
  PROVE  Inv'
<1>1. /\ up /\ turn = None /\ task[t] = Idle /\ Only(t)
      /\ UNCHANGED <<setup, up, ring, rows, files, cipher, archive, made, locked, wiped>>
      /\ meta' \in [print : MaybeKey, rotating : BOOLEAN, lock : BOOLEAN]
      /\ meta'.print = meta.print /\ meta'.rotating = meta.rotating
      /\ made \in 0..MAX_KEYS /\ locked \in BOOLEAN /\ wiped \in BOOLEAN
  BY DEF RotateKey, SetPassword, RemovePassword, Wipe, Begins, Only, Maintenance, disk, Inv, TypeOK
<1>2. task[t].op # "wipe"
  BY <1>1, IdleIsNone DEF Op, Maintenance
<1>3. ASSUME NEW op \in Maintenance, NEW pc \in {"load pending", "load key", "drop backup", "erase"},
             NEW ts, ts = [Idle EXCEPT !.op = op, !.pc = pc], op \in setup.ops, OpFits(ts),
             task' = [task EXCEPT ![t] = ts], turn' \in {t, None}, pc = "erase" => turn' = t,
             op = "wipe" => pc = "erase" /\ made + 1 \in Key, op = "rotate" => pc = "load pending"
      PROVE  Inv'
  <2>1. ts \in TaskState /\ ts.op = op /\ ts.pc = pc
    BY <1>3, IdleIsNone DEF TaskState, Op, Pc
  <2>2. Goes(t, ts)
    BY <1>1, <1>3 DEF Goes
  <2>3. op = "rotate" => Rotating(ts)'
    BY <1>3, <2>1 DEF Rotating
  <2>4. op = "wipe" => Erasing(ts)'
    BY <1>1, <1>3, <2>1 DEF Erasing
  <2> QED
    BY <1>1, <1>2, <1>3, <2>1, <2>2, <2>3, <2>4, WaitingStep DEF Stretch, Storing
<1>4. CASE RotateKey(t)
  BY <1>3, <1>4, IdleIsNone DEF RotateKey, Begins, Wait, OpFits, Storing, Maintenance, Idle
<1>5. CASE SetPassword(t)
  BY <1>3, <1>5, IdleIsNone DEF SetPassword, Begins, Wait, OpFits, Storing, Maintenance, Idle
<1>6. CASE RemovePassword(t)
  BY <1>3, <1>6, IdleIsNone DEF RemovePassword, Begins, Wait, OpFits, Storing, Maintenance, Idle
<1>7. CASE Wipe(t)
  BY <1>3, <1>7, IdleIsNone DEF Wipe, Begins, To, OpFits, Storing, Maintenance, Idle
<1> QED
  BY <1>4, <1>5, <1>6, <1>7

MaintenancePc == Pc \ (Storing \cup {"idle", "thumb"})

(* Facts of a state that every step of a maintenance request starts from. *)
LEMMA MaintenanceFacts ==
  ASSUME Inv, up, NEW t \in Task, task[t].pc \in MaintenancePc
  PROVE  /\ task[t] \in TaskState /\ Only(t)
         /\ task[t].op \in setup.ops /\ task[t].op \in Maintenance
         /\ task[t].op = "rotate" => Rotating(task[t]) /\ ~Wiping
         /\ task[t].op = "wipe" => Erasing(task[t])
         /\ OpFits(task[t])
         /\ Typed /\ KeyInv /\ RowInv
         /\ ring.primary \in Key /\ cipher.files \in Key /\ cipher.rows \in Key /\ cipher.rows = meta.print
<1>1. task[t] \in TaskState /\ OpFits(task[t]) /\ task[t].op \in setup.ops \cup {None}
  BY DEF Inv, TypeOK, TaskInv
<1>2. task[t].op \in Maintenance
  BY <1>1 DEF OpFits, MaintenancePc, Pc, Storing, Maintenance
<1>3. task[t].op \in setup.ops
  BY <1>1, <1>2, IdleIsNone
<1>4. Typed /\ KeyInv /\ RowInv
  BY DEF Typed, Inv, TypeOK, Rows, Files
<1>5. ring.primary \in Key /\ cipher.files \in Key /\ cipher.rows \in Key /\ cipher.rows = meta.print
  BY <1>4 DEF Typed, KeyInv, MaybeKey
<1>6. task[t].op = "rotate" => ~Wiping
  BY DEF Inv, OneMaintenance, Wiping, Maintenance
<1>7. /\ task[t].op = "rotate" => Rotating(task[t])
      /\ task[t].op = "wipe" => Erasing(task[t])
  BY DEF Inv, MaintenanceInv
<1> QED
  BY <1>1, <1>2, <1>3, <1>4, <1>5, <1>6, <1>7 DEF Only

(* A locked keyring ends the request; Status still reports a rotation. *)
LEMMA KeyringFailsKeepsInv ==
  ASSUME Inv, WipesFinish, NEW t \in Task, KeyringFails(t)
  PROVE  Inv'
<1>1. /\ up /\ turn = None /\ task[t].pc \in MaintenancePc /\ task[t].op \in setup.refused
      /\ task' = [task EXCEPT ![t] = Idle] /\ turn' = None
      /\ UNCHANGED <<setup, ring, rows, files, meta, up, cipher, locked, archive, made, wiped>>
  BY DEF KeyringFails, Refused, MaintenancePc, Pc, Storing, Done, Wait, disk
<1>2. Only(t) /\ task[t].op \in setup.ops /\ Typed
  BY <1>1, MaintenanceFacts
<1>3. setup \in Setups
  BY DEF Inv, TypeOK
<1>4. task[t].op # "wipe"
  BY <1>1, <1>2, <1>3 DEF WipesFinish
<1>5. Goes(t, Idle) /\ OpFits(Idle)
  BY <1>1, IdleIsNone DEF Goes, OpFits, Storing
<1>6. /\ made' \in 0..MAX_KEYS /\ locked' \in BOOLEAN /\ wiped' \in BOOLEAN
      /\ meta' \in [print : MaybeKey, rotating : BOOLEAN, lock : BOOLEAN]
  BY <1>1, <1>2 DEF Typed
<1> QED
  BY <1>1, <1>2, <1>4, <1>5, <1>6, IdleIsNone, WaitingStep DEF Stretch, Storing, Op, Maintenance

LEMMA LoadPendingKeepsInv ==
  ASSUME Inv, NEW t \in Task, LoadPending(t)
  PROVE  Inv'
<1>1. /\ up /\ turn = None /\ task[t].pc = "load pending"
      /\ UNCHANGED <<setup, ring, rows, files, meta, up, cipher, locked, archive, wiped>>
  BY DEF LoadPending, Answered, disk
<1>2. /\ task[t] \in TaskState /\ Only(t) /\ task[t].op \in setup.ops /\ task[t].op = "rotate"
      /\ Typed
  BY <1>1, MaintenanceFacts DEF MaintenancePc, Pc, Storing, OpFits
<1>3. /\ locked' \in BOOLEAN /\ wiped' \in BOOLEAN
      /\ meta' \in [print : MaybeKey, rotating : BOOLEAN, lock : BOOLEAN]
  BY <1>1, <1>2 DEF Typed
<1>4. CASE ring.pending # None
  <2> PICK ts : ts = [task[t] EXCEPT !.pc = "mark", !.key = ring.pending]
    OBVIOUS
  <2>1. /\ task' = [task EXCEPT ![t] = ts] /\ turn' = t /\ made' = made
    BY <1>4 DEF LoadPending, To
  <2>2. ts \in TaskState /\ ts.op = "rotate" /\ ts.pc = "mark" /\ ts.key = ring.pending
    BY <1>2 DEF TaskState, Pc, Typed
  <2>3. Goes(t, ts)
    BY <1>1, <2>1 DEF Goes
  <2>4. OpFits(ts) /\ made' \in 0..MAX_KEYS
    BY <1>2, <2>1, <2>2 DEF OpFits, Storing, Typed
  <2>5. Rotating(ts)'
    BY <1>1, <1>4, <2>2 DEF Rotating
  <2> QED
    BY <1>1, <1>2, <1>3, <2>1, <2>2, <2>3, <2>4, <2>5, WaitingStep DEF Stretch, Storing
<1>5. CASE ring.pending = None
  <2> PICK k : k = made + 1
    OBVIOUS
  <2> PICK ts : ts = [task[t] EXCEPT !.pc = "store pending", !.key = k]
    OBVIOUS
  <2>1. /\ task' = [task EXCEPT ![t] = ts] /\ turn' = None /\ made' = k /\ k \in Key
    BY <1>5 DEF LoadPending, Wait
  <2>2. ts \in TaskState /\ ts.op = "rotate" /\ ts.pc = "store pending" /\ ts.key = k
    BY <1>2, <2>1 DEF TaskState, Pc, MaybeKey
  <2>3. Goes(t, ts)
    BY <1>1, <2>1 DEF Goes
  <2>4. OpFits(ts) /\ made' \in 0..MAX_KEYS
    BY <1>2, <2>1, <2>2, VaultAssumption DEF OpFits, Storing, Key
  <2>5. Rotating(ts)'
    BY <1>1, <1>5, <2>1, <2>2, VaultAssumption DEF Rotating
  <2> QED
    BY <1>1, <1>2, <1>3, <2>1, <2>2, <2>3, <2>4, <2>5, WaitingStep DEF Stretch, Storing
<1> QED
  BY <1>4, <1>5

LEMMA StorePendingKeepsInv ==
  ASSUME Inv, NEW t \in Task, StorePending(t)
  PROVE  Inv'
<1>1. /\ up /\ turn = None /\ task[t].pc = "store pending"
      /\ ring' = [ring EXCEPT !.pending = task[t].key]
      /\ task' = [task EXCEPT ![t] = [task[t] EXCEPT !.pc = "mark"]] /\ turn' = t
      /\ UNCHANGED <<setup, rows, files, meta, up, cipher, locked, archive, made, wiped>>
  BY DEF StorePending, Answered, To
<1>2. /\ task[t] \in TaskState /\ Only(t) /\ task[t].op \in setup.ops /\ task[t].op = "rotate"
      /\ Typed /\ KeyInv /\ RowInv /\ ~Wiping /\ Rotating(task[t])
      /\ cipher.rows \in Key /\ cipher.rows = meta.print
  BY <1>1, MaintenanceFacts DEF MaintenancePc, Pc, Storing, OpFits
<1> PICK ts : ts = [task[t] EXCEPT !.pc = "mark"]
  OBVIOUS
<1>3. ts \in TaskState /\ ts.op = "rotate" /\ ts.pc = "mark" /\ ts.key = task[t].key
  BY <1>2 DEF TaskState, Pc
<1>4. Goes(t, ts) /\ OpFits(ts)
  BY <1>1, <1>2, <1>3 DEF Goes, OpFits, Storing
<1>5. /\ ring'.primary = ring.primary /\ ring'.pending = ts.key /\ ts.key # None
      /\ ring' \in [primary : MaybeKey, pending : MaybeKey, backup : MaybeKey]
      /\ meta.print = ring.primary
  BY <1>1, <1>2, <1>3, VaultAssumption DEF Typed, Rotating, KeyInv, TaskState
<1>6. Typed' /\ RowInv'
  BY <1>1, <1>2, <1>5 DEF Typed, RowInv, Sound, Ids
<1>7. KeyInv'
  BY <1>1, <1>2, <1>5 DEF KeyInv
<1>8. Rotating(ts)'
  BY <1>3, <1>5 DEF Rotating
<1> QED
  BY <1>1, <1>2, <1>3, <1>4, <1>6, <1>7, <1>8, MaintenanceStep DEF Stretch, Storing

LEMMA MarkKeepsInv ==
  ASSUME Inv, NEW t \in Task, Mark(t)
  PROVE  Inv'
<1>1. /\ up /\ turn = t /\ task[t].pc = "mark"
      /\ meta' = [meta EXCEPT !.rotating = TRUE]
      /\ task' = [task EXCEPT ![t] = [task[t] EXCEPT !.pc = "rows"]] /\ turn' = t
      /\ UNCHANGED <<setup, ring, rows, files, up, cipher, locked, archive, made, wiped>>
  BY DEF Mark, At, To
<1>2. /\ task[t] \in TaskState /\ Only(t) /\ task[t].op \in setup.ops /\ task[t].op = "rotate"
      /\ Typed /\ KeyInv /\ RowInv /\ ~Wiping /\ Rotating(task[t])
  BY <1>1, MaintenanceFacts DEF MaintenancePc, Pc, Storing, OpFits
<1> PICK ts : ts = [task[t] EXCEPT !.pc = "rows"]
  OBVIOUS
<1>3. ts \in TaskState /\ ts.op = "rotate" /\ ts.pc = "rows" /\ ts.key = task[t].key
  BY <1>2 DEF TaskState, Pc
<1>4. Goes(t, ts) /\ OpFits(ts)
  BY <1>1, <1>2, <1>3 DEF Goes, OpFits, Storing
<1>5. /\ meta'.print = meta.print /\ meta'.rotating
      /\ meta' \in [print : MaybeKey, rotating : BOOLEAN, lock : BOOLEAN]
  BY <1>1, <1>2 DEF Typed
<1>6. Typed' /\ RowInv'
  BY <1>1, <1>2, <1>5 DEF Typed, RowInv, Sound, Ids
<1>7. KeyInv'
  BY <1>1, <1>2, <1>5 DEF KeyInv
<1>8. Rotating(ts)'
  BY <1>1, <1>2, <1>3, <1>5 DEF Rotating
<1> QED
  BY <1>1, <1>2, <1>3, <1>4, <1>6, <1>7, <1>8, MaintenanceStep DEF Stretch, Storing

(* Database::rekey: the previews and the fingerprint go to the new key     *)
(* together; the old key is still in the keyring, for the files.           *)
LEMMA RekeyRowsKeepsInv ==
  ASSUME Inv, NEW t \in Task, RekeyRows(t)
  PROVE  Inv'
<1>1. /\ up /\ turn = t /\ task[t].pc = "rows"
      /\ UNCHANGED <<setup, ring, files, up, locked, archive, made, wiped>>
  BY DEF RekeyRows, At
<1>2. /\ task[t] \in TaskState /\ Only(t) /\ task[t].op \in setup.ops /\ task[t].op \in {"rotate", "wipe"}
      /\ Typed /\ KeyInv /\ RowInv
      /\ task[t].op = "rotate" => Rotating(task[t]) /\ ~Wiping
      /\ task[t].op = "wipe" => Erasing(task[t])
      /\ cipher.rows \in Key /\ cipher.files \in Key /\ cipher.rows = meta.print
  BY <1>1, MaintenanceFacts DEF MaintenancePc, Pc, Storing, OpFits
<1>3. \A i \in Ids(rows) : preview_opens(i, task[t].key)
  BY <1>2, VaultAssumption DEF RowInv, Sound, preview_opens, Opens
<1> PICK k : k = task[t].key
  OBVIOUS
<1>4. k \in Key
  BY <1>1, <1>2 DEF Rotating, Erasing, TaskState, MaybeKey
<1> PICK ts : ts = [task[t] EXCEPT !.pc = "files", !.left = OnDisk]
  OBVIOUS
<1>5. /\ rows' = [i \in Id |-> IF rows[i] = None THEN None ELSE [rows[i] EXCEPT !.key = Sealed(k)]]
      /\ meta' = [meta EXCEPT !.print = k]
      /\ cipher' = [cipher EXCEPT !.rows = k]
      /\ task' = [task EXCEPT ![t] = ts] /\ turn' = t
  BY <1>3 DEF RekeyRows, To
<1>6. ts \in TaskState /\ ts.op = task[t].op /\ ts.pc = "files" /\ ts.key = k /\ ts.left = OnDisk
  BY <1>2 DEF TaskState, Pc, OnDisk
<1>7. Goes(t, ts) /\ OpFits(ts)
  BY <1>1, <1>2, <1>5, <1>6 DEF Goes, OpFits, Storing
<1>8. /\ meta'.print = k /\ meta'.rotating = meta.rotating
      /\ cipher'.rows = k /\ cipher'.files = cipher.files
      /\ meta' \in [print : MaybeKey, rotating : BOOLEAN, lock : BOOLEAN]
      /\ cipher' \in [rows : MaybeKey, files : MaybeKey]
  BY <1>2, <1>4, <1>5 DEF Typed, MaybeKey
<1>9. /\ rows' \in Rows /\ Ids(rows') = Ids(rows)
      /\ \A i \in Ids(rows) : /\ rows'[i].content = rows[i].content
                              /\ rows'[i].key = k
                              /\ rows'[i].refs = rows[i].refs
  <2>1. /\ Ids(rows) \subseteq Id
        /\ \A i \in Ids(rows) : rows[i] \in Row
        /\ \A i \in Id \ Ids(rows) : rows[i] = None
    BY <1>2, RowFacts DEF Typed
  <2>2. \A i \in Id \ Ids(rows) : rows'[i] = None
    BY <1>5, <2>1
  <2>3. ASSUME NEW i \in Ids(rows)
        PROVE  /\ rows'[i] \in Row
               /\ rows'[i].content = rows[i].content
               /\ rows'[i].key = k
               /\ rows'[i].refs = rows[i].refs
    <3>1. rows'[i] = [rows[i] EXCEPT !.key = k]
      BY <1>5, <2>1, VaultAssumption DEF Sealed
    <3> QED
      BY <1>4, <2>1, <3>1 DEF Row
  <2>4. rows' \in Rows
    BY <1>5, <2>1, <2>2, <2>3 DEF Rows
  <2>5. Ids(rows') = Ids(rows)
    BY <2>1, <2>2, <2>3, VaultAssumption DEF Ids
  <2> QED
    BY <2>3, <2>4, <2>5
<1>10. Typed' /\ RowInv'
  <2>1. Sound(rows', files, k)
    BY <1>2, <1>9 DEF RowInv, Sound
  <2> QED
    BY <1>1, <1>2, <1>8, <1>9, <2>1 DEF Typed, RowInv, Sound, Ids
<1>11. \A b \in Blob : files[b] \in {None, k, cipher.files}
  <2>1. CASE task[t].op = "wipe"
    BY <1>1, <1>2, <2>1 DEF Erasing, OnDisk
  <2>2. CASE task[t].op = "rotate"
    BY <1>1, <1>2, <2>2 DEF Rotating, KeyInv
  <2> QED
    BY <1>2, <2>1, <2>2
<1>12. KeyInv'
  <2>1. Wiping' <=> task[t].op = "wipe"
    BY <1>2, <1>6, <1>7, WhoseWipe
  <2>2. ~Wiping' => /\ ring.pending = k /\ meta.rotating
                    /\ cipher.files \in {ring.primary, k}
    BY <1>1, <1>2, <2>1 DEF Rotating, KeyInv
  <2> QED
    BY <1>1, <1>2, <1>4, <1>8, <1>11, <2>2, VaultAssumption DEF KeyInv
<1>13. ts.op = "rotate" => Rotating(ts)'
  BY <1>1, <1>2, <1>6, <1>8 DEF Rotating, OnDisk
<1>14. ts.op = "wipe" => Erasing(ts)'
  BY <1>1, <1>2, <1>6, <1>8, <1>9 DEF Erasing, OnDisk, Ids
<1> QED
  BY <1>1, <1>2, <1>5, <1>6, <1>7, <1>10, <1>12, <1>13, <1>14, MaintenanceStep DEF Stretch, Storing

(* BlobStore::rekey, one file; or the file system refuses and the request  *)
(* ends with both keys still at hand.                                      *)
LEMMA RekeyFileKeepsInv ==
  ASSUME Inv, NEW t \in Task, NEW b \in Blob, RekeyFile(t, b)
  PROVE  Inv'
<1>1. /\ up /\ turn = t /\ task[t].pc = "files" /\ b \in task[t].left
      /\ UNCHANGED <<setup, ring, rows, meta, up, cipher, locked, archive, made, wiped>>
  BY DEF RekeyFile, At
<1>2. /\ task[t] \in TaskState /\ Only(t) /\ task[t].op \in setup.ops /\ task[t].op \in {"rotate", "wipe"}
      /\ Typed /\ KeyInv /\ RowInv
      /\ task[t].op = "rotate" => Rotating(task[t]) /\ ~Wiping
      /\ task[t].op = "wipe" => Erasing(task[t])
      /\ cipher.rows \in Key /\ cipher.files \in Key /\ cipher.rows = meta.print
  BY <1>1, MaintenanceFacts DEF MaintenancePc, Pc, Storing, OpFits
<1>3. task[t].op = "rotate" /\ ~Wiping
  BY <1>1, <1>2 DEF Erasing
<1>4. CASE Done(t) /\ UNCHANGED files
  <2>1. Goes(t, Idle) /\ OpFits(Idle)
    BY <1>1, <1>4, IdleIsNone DEF Goes, Done, Wait, OpFits, Storing
  <2>2. /\ made' \in 0..MAX_KEYS /\ locked' \in BOOLEAN /\ wiped' \in BOOLEAN
        /\ meta' \in [print : MaybeKey, rotating : BOOLEAN, lock : BOOLEAN]
    BY <1>1, <1>2 DEF Typed
  <2> QED
    BY <1>1, <1>2, <1>3, <1>4, <2>1, <2>2, IdleIsNone, WaitingStep DEF Stretch, Storing, Op, Maintenance
<1>5. CASE /\ files' = [files EXCEPT ![b] = Sealed(task[t].key)]
           /\ To(t, [task[t] EXCEPT !.left = @ \ {b}])
  <2> PICK ts : ts = [task[t] EXCEPT !.left = @ \ {b}]
    OBVIOUS
  <2>1. ts \in TaskState /\ ts.op = "rotate" /\ ts.pc = "files" /\ ts.key = task[t].key /\ ts.left = task[t].left \ {b}
    BY <1>1, <1>2, <1>3 DEF TaskState
  <2>2. Goes(t, ts) /\ turn' = t /\ OpFits(ts)
    BY <1>1, <1>3, <1>5, <2>1 DEF Goes, To, OpFits, Storing
  <2>3. ts.key = meta.print /\ ts.key \in Key /\ \A x \in Blob \ task[t].left : files[x] \in {None, ts.key}
    BY <1>1, <1>2, <1>3, <2>1 DEF Rotating
  <2>4. files' \in Files /\ files'[b] = ts.key /\ \A x \in Blob \ {b} : files'[x] = files[x]
    BY <1>2, <1>5, <2>1, <2>3 DEF Typed, Files, Sealed, MaybeKey
  <2>5. Typed'
    BY <1>1, <1>2, <2>4 DEF Typed
  <2>6. RowInv'
    <3>1. \A i \in Ids(rows) : rows[i].refs \subseteq Blob
      BY <1>2, RowFacts DEF Typed, Row
    <3>2. Sound(rows, files', meta.print)
      BY <1>2, <2>3, <2>4, <3>1, VaultAssumption DEF RowInv, Sound
    <3> QED
      BY <1>1, <3>2 DEF RowInv, Sound, Ids
  <2>7. \A x \in Blob : files'[x] \in {None, meta.print, cipher.files}
    BY <1>1, <1>2, <2>3, <2>4 DEF KeyInv
  <2>8. KeyInv'
    BY <1>1, <1>2, <1>3, <2>7 DEF KeyInv
  <2>9. \A x \in Blob \ ts.left : files'[x] \in {None, ts.key}
    BY <2>1, <2>3, <2>4
  <2>10. Rotating(ts)'
    BY <1>1, <1>2, <1>3, <2>1, <2>9 DEF Rotating
  <2> QED
    BY <1>1, <1>2, <1>3, <2>1, <2>2, <2>5, <2>6, <2>8, <2>10, MaintenanceStep DEF Stretch, Storing
<1> QED
  BY <1>4, <1>5 DEF RekeyFile

(* Every file is under the new key before panod opens files with it. *)
LEMMA SwapBlobKeyKeepsInv ==
  ASSUME Inv, NEW t \in Task, SwapBlobKey(t)
  PROVE  Inv'
<1> PICK pc : pc = IF task[t].op = "rotate" THEN "store key" ELSE "drop pending"
  OBVIOUS
<1> PICK ts : ts = [task[t] EXCEPT !.pc = pc]
  OBVIOUS
<1>1. /\ up /\ turn = t /\ task[t].pc = "files" /\ task[t].left = {}
      /\ cipher' = [cipher EXCEPT !.files = task[t].key]
      /\ task' = [task EXCEPT ![t] = ts] /\ turn' = None
      /\ UNCHANGED <<setup, ring, rows, files, meta, up, locked, archive, made, wiped>>
  BY DEF SwapBlobKey, At, Wait, disk
<1>2. /\ task[t] \in TaskState /\ Only(t) /\ task[t].op \in setup.ops /\ task[t].op \in {"rotate", "wipe"}
      /\ Typed /\ KeyInv /\ RowInv
      /\ task[t].op = "rotate" => Rotating(task[t]) /\ ~Wiping
      /\ task[t].op = "wipe" => Erasing(task[t])
      /\ cipher.rows \in Key /\ cipher.files \in Key /\ cipher.rows = meta.print
  BY <1>1, MaintenanceFacts DEF MaintenancePc, Pc, Storing, OpFits
<1>3. /\ ts \in TaskState /\ ts.op = task[t].op /\ ts.key = task[t].key
      /\ \/ ts.op = "rotate" /\ ts.pc = "store key"
         \/ ts.op = "wipe" /\ ts.pc = "drop pending"
  BY <1>2 DEF TaskState, Pc
<1>4. Goes(t, ts) /\ OpFits(ts)
  BY <1>1, <1>3 DEF Goes, OpFits, Storing
<1>5. ts.key = meta.print /\ ts.key \in Key
  BY <1>1, <1>2, <1>3 DEF Rotating, Erasing
<1>6. /\ cipher' \in [rows : MaybeKey, files : MaybeKey]
      /\ cipher'.rows = cipher.rows /\ cipher'.files = ts.key
  BY <1>1, <1>2, <1>3, <1>5 DEF Typed, MaybeKey
<1>7. Typed' /\ RowInv'
  BY <1>1, <1>2, <1>6 DEF Typed, RowInv, Sound, Ids
<1>8. \A b \in Blob : files[b] \in {None, ts.key}
  BY <1>1, <1>2, <1>3 DEF Rotating, Erasing, OnDisk
<1>9. KeyInv'
  <2>1. Wiping' <=> task[t].op = "wipe"
    BY <1>2, <1>3, <1>4, WhoseWipe
  <2> QED
    BY <1>1, <1>2, <1>5, <1>6, <1>8, <2>1, VaultAssumption DEF KeyInv
<1>10. ts.op = "rotate" => Rotating(ts)'
  BY <1>1, <1>2, <1>3, <1>5, <1>6 DEF Rotating
<1>11. ts.op = "wipe" => Erasing(ts)'
  BY <1>1, <1>2, <1>3, <1>5, <1>6, VaultAssumption DEF Erasing
<1> QED
  BY <1>1, <1>2, <1>3, <1>4, <1>7, <1>9, <1>10, <1>11, MaintenanceStep DEF Stretch, Storing

(* The live key is replaced when nothing needs the old one any more. *)
LEMMA StoreKeyKeepsInv ==
  ASSUME Inv, NEW t \in Task, StoreKey(t)
  PROVE  Inv'
<1> PICK ts : ts = IF task[t].op = "rotate" THEN [task[t] EXCEPT !.pc = "drop pending"] ELSE Idle
  OBVIOUS
<1>1. /\ up /\ turn = None /\ task[t].pc = "store key"
      /\ ring' = [ring EXCEPT !.primary = task[t].key]
      /\ task' = [task EXCEPT ![t] = ts] /\ turn' = None
      /\ UNCHANGED <<setup, rows, files, meta, up, cipher, archive, made>>
  BY DEF StoreKey, Answered, Wait, Done
<1>2. /\ task[t] \in TaskState /\ Only(t) /\ task[t].op \in setup.ops /\ task[t].op \in {"rotate", "wipe"}
      /\ Typed /\ KeyInv /\ RowInv
      /\ task[t].op = "rotate" => Rotating(task[t]) /\ ~Wiping
      /\ task[t].op = "wipe" => Erasing(task[t])
      /\ cipher.rows \in Key /\ cipher.files \in Key /\ cipher.rows = meta.print
  BY <1>1, MaintenanceFacts DEF MaintenancePc, Pc, Storing, OpFits
<1>3. /\ ts \in TaskState
      /\ task[t].op = "rotate" => ts.op = "rotate" /\ ts.pc = "drop pending"
      /\ task[t].op = "wipe" => ts = Idle
  BY <1>2, IdleIsNone DEF TaskState, Pc
<1>4. Goes(t, ts) /\ OpFits(ts) /\ ts.op # "wipe" /\ ts.op \in setup.ops \cup {None}
  BY <1>1, <1>2, <1>3, IdleIsNone DEF Goes, OpFits, Storing, Op, Maintenance
<1>5. cipher.rows = task[t].key /\ cipher.files = task[t].key
  BY <1>1, <1>2 DEF Rotating, Erasing
<1>6. /\ ring' \in [primary : MaybeKey, pending : MaybeKey, backup : MaybeKey]
      /\ ring'.primary = cipher.rows /\ ring'.pending = ring.pending
  BY <1>1, <1>2, <1>5 DEF Typed, MaybeKey
<1>7. locked' \in BOOLEAN /\ wiped' \in BOOLEAN
  BY <1>2 DEF StoreKey, Typed
<1>8. Typed' /\ RowInv'
  BY <1>1, <1>2, <1>6, <1>7 DEF Typed, RowInv, Sound, Ids
<1>9. KeyInv'
  BY <1>1, <1>2, <1>5, <1>6, VaultAssumption DEF KeyInv
<1>10. ts.op = "rotate" => Rotating(ts)'
  BY <1>1, <1>2, <1>3, <1>5, <1>6, IdleIsNone DEF Rotating, Op, Maintenance
<1> QED
  BY <1>1, <1>2, <1>3, <1>4, <1>8, <1>9, <1>10, IdleIsNone, MaintenanceStep DEF Stretch, Storing

LEMMA DropPendingKeepsInv ==
  ASSUME Inv, NEW t \in Task, DropPending(t)
  PROVE  Inv'
<1> PICK ts : ts = [task[t] EXCEPT !.pc = IF task[t].op = "rotate" THEN "unmark" ELSE "drop backup"]
  OBVIOUS
<1>1. /\ up /\ turn = None /\ task[t].pc = "drop pending"
      /\ ring' = [ring EXCEPT !.pending = None]
      /\ task' = [task EXCEPT ![t] = ts] /\ turn' \in {t, None} /\ (task[t].op = "rotate" => turn' = t)
      /\ UNCHANGED <<setup, rows, files, meta, up, cipher, locked, archive, made, wiped>>
  BY DEF DropPending, Answered, Wait, To
<1>2. /\ task[t] \in TaskState /\ Only(t) /\ task[t].op \in setup.ops /\ task[t].op \in {"rotate", "wipe"}
      /\ Typed /\ KeyInv /\ RowInv
      /\ task[t].op = "rotate" => Rotating(task[t]) /\ ~Wiping
      /\ task[t].op = "wipe" => Erasing(task[t])
      /\ cipher.rows \in Key /\ cipher.files \in Key /\ cipher.rows = meta.print
  BY <1>1, MaintenanceFacts DEF MaintenancePc, Pc, Storing, OpFits
<1>3. /\ ts \in TaskState /\ ts.op = task[t].op /\ ts.key = task[t].key
      /\ \/ ts.op = "rotate" /\ ts.pc = "unmark"
         \/ ts.op = "wipe" /\ ts.pc = "drop backup"
  BY <1>2 DEF TaskState, Pc
<1>4. Goes(t, ts) /\ OpFits(ts)
  BY <1>1, <1>3 DEF Goes, OpFits, Storing
<1>5. /\ ring' \in [primary : MaybeKey, pending : MaybeKey, backup : MaybeKey]
      /\ ring'.primary = ring.primary /\ ring'.pending = None
  BY <1>1, <1>2 DEF Typed, MaybeKey
<1>6. Typed' /\ RowInv'
  BY <1>1, <1>2, <1>5 DEF Typed, RowInv, Sound, Ids
<1>7. KeyInv'
  <2>1. Wiping' <=> task[t].op = "wipe"
    BY <1>2, <1>3, <1>4, WhoseWipe
  <2>2. task[t].op = "rotate" => meta.print = ring.primary
    BY <1>1, <1>2 DEF Rotating
  <2> QED
    BY <1>1, <1>2, <1>5, <2>1, <2>2 DEF KeyInv
<1>8. ts.op = "rotate" => Rotating(ts)'
  BY <1>3, <1>5 DEF Rotating
<1>9. ts.op = "wipe" => Erasing(ts)'
  BY <1>1, <1>2, <1>3 DEF Erasing
<1> QED
  BY <1>1, <1>2, <1>3, <1>4, <1>6, <1>7, <1>8, <1>9, MaintenanceStep DEF Stretch, Storing

(* The marker goes when the database is bound to the live key. *)
LEMMA UnmarkKeepsInv ==
  ASSUME Inv, NEW t \in Task, Unmark(t)
  PROVE  Inv'
<1>1. /\ up /\ turn = t /\ task[t].pc = "unmark"
      /\ meta' = [meta EXCEPT !.rotating = FALSE]
      /\ task' = [task EXCEPT ![t] = Idle] /\ turn' = None
      /\ UNCHANGED <<setup, ring, rows, files, up, cipher, locked, archive, made, wiped>>
  BY DEF Unmark, At, Done, Wait
<1>2. /\ Only(t) /\ task[t].op = "rotate" /\ Typed /\ KeyInv /\ RowInv /\ ~Wiping /\ Rotating(task[t])
      /\ cipher.rows \in Key /\ cipher.rows = meta.print
  BY <1>1, MaintenanceFacts DEF MaintenancePc, Pc, Storing, OpFits
<1>3. Goes(t, Idle) /\ OpFits(Idle)
  BY <1>1, IdleIsNone DEF Goes, OpFits, Storing
<1>4. /\ meta'.print = meta.print
      /\ meta' \in [print : MaybeKey, rotating : BOOLEAN, lock : BOOLEAN]
      /\ meta.print = ring.primary
  BY <1>1, <1>2, VaultAssumption DEF Typed, Rotating, KeyInv
<1>5. Typed' /\ RowInv'
  BY <1>1, <1>2, <1>4 DEF Typed, RowInv, Sound, Ids
<1>6. KeyInv'
  BY <1>1, <1>2, <1>4 DEF KeyInv
<1> QED
  BY <1>1, <1>2, <1>3, <1>5, <1>6, IdleIsNone, MaintenanceStep DEF Stretch, Storing, Op, Maintenance

(* Database::wipe. *)
LEMMA EraseKeepsInv ==
  ASSUME Inv, NEW t \in Task, Erase(t)
  PROVE  Inv'
<1> PICK ts : ts = [task[t] EXCEPT !.pc = "unlink", !.left = OnDisk]
  OBVIOUS
<1>1. /\ up /\ turn = t /\ task[t].pc = "erase"
      /\ rows' = [i \in Id |-> None]
      /\ meta' = [meta EXCEPT !.rotating = FALSE, !.lock = FALSE]
      /\ task' = [task EXCEPT ![t] = ts] /\ turn' = t
      /\ UNCHANGED <<setup, ring, files, up, cipher, locked, archive, made, wiped>>
  BY DEF Erase, At, To
<1>2. /\ task[t] \in TaskState /\ Only(t) /\ task[t].op \in setup.ops /\ task[t].op = "wipe"
      /\ Typed /\ KeyInv /\ Erasing(task[t])
  BY <1>1, MaintenanceFacts DEF MaintenancePc, Pc, Storing, OpFits
<1>3. ts \in TaskState /\ ts.op = "wipe" /\ ts.pc = "unlink" /\ ts.left = OnDisk
  BY <1>2 DEF TaskState, Pc, OnDisk
<1>4. Goes(t, ts) /\ OpFits(ts)
  BY <1>1, <1>3 DEF Goes, OpFits, Storing
<1>5. /\ meta'.print = meta.print
      /\ meta' \in [print : MaybeKey, rotating : BOOLEAN, lock : BOOLEAN]
      /\ rows' \in Rows /\ Ids(rows') = {}
  BY <1>1, <1>2 DEF Typed, Rows, Ids
<1>6. Typed' /\ RowInv'
  BY <1>1, <1>2, <1>5 DEF Typed, RowInv, Sound, Ids
<1>7. KeyInv'
  <2>1. Wiping'
    BY <1>2, <1>3, <1>4, WhoseWipe
  <2> QED
    BY <1>1, <1>2, <1>5, <2>1 DEF KeyInv
<1>8. Erasing(ts)'
  BY <1>1, <1>2, <1>3, <1>5 DEF Erasing, OnDisk, Ids
<1> QED
  BY <1>1, <1>2, <1>3, <1>4, <1>6, <1>7, <1>8, MaintenanceStep DEF Stretch, Storing

(* BlobStore::wipe, one file. *)
LEMMA UnlinkKeepsInv ==
  ASSUME Inv, NEW t \in Task, NEW b \in Blob, Unlink(t, b)
  PROVE  Inv'
<1> PICK ts : ts = [task[t] EXCEPT !.left = @ \ {b}]
  OBVIOUS
<1>1. /\ up /\ turn = t /\ task[t].pc = "unlink"
      /\ files' = [files EXCEPT ![b] = None]
      /\ task' = [task EXCEPT ![t] = ts] /\ turn' = t
      /\ UNCHANGED <<setup, ring, rows, meta, up, cipher, locked, archive, made, wiped>>
  BY DEF Unlink, At, To
<1>2. /\ task[t] \in TaskState /\ Only(t) /\ task[t].op \in setup.ops /\ task[t].op = "wipe"
      /\ Typed /\ KeyInv /\ Erasing(task[t])
  BY <1>1, MaintenanceFacts DEF MaintenancePc, Pc, Storing, OpFits
<1>3. ts \in TaskState /\ ts.op = "wipe" /\ ts.pc = "unlink" /\ ts.left = task[t].left \ {b}
  BY <1>1, <1>2 DEF TaskState
<1>4. Goes(t, ts) /\ OpFits(ts)
  BY <1>1, <1>3 DEF Goes, OpFits, Storing
<1>5. files' \in Files /\ files'[b] = None /\ \A x \in Blob \ {b} : files'[x] = files[x]
  BY <1>1, <1>2 DEF Typed, Files, MaybeKey
<1>6. Ids(rows) = {} /\ OnDisk \subseteq task[t].left
  BY <1>1, <1>2 DEF Erasing
<1>7. Typed' /\ RowInv'
  BY <1>1, <1>2, <1>5, <1>6 DEF Typed, RowInv, Sound, Ids
<1>8. KeyInv'
  <2>1. Wiping'
    BY <1>2, <1>3, <1>4, WhoseWipe
  <2>2. \A x \in Blob : files'[x] \in {None, meta.print, cipher.files}
    BY <1>1, <1>2, <1>5 DEF KeyInv
  <2> QED
    BY <1>1, <1>2, <2>1, <2>2 DEF KeyInv
<1>9. Erasing(ts)'
  <2>1. \A x \in Blob : files'[x] # None => x \in ts.left
    BY <1>3, <1>5, <1>6 DEF OnDisk
  <2> QED
    BY <1>1, <1>2, <1>3, <1>6, <2>1 DEF Erasing, OnDisk, Ids
<1> QED
  BY <1>1, <1>2, <1>3, <1>4, <1>7, <1>8, <1>9, MaintenanceStep DEF Stretch, Storing

LEMMA FreshKeyKeepsInv ==
  ASSUME Inv, NEW t \in Task, FreshKey(t)
  PROVE  Inv'
<1> PICK k : k = made + 1
  OBVIOUS
<1> PICK ts : ts = [task[t] EXCEPT !.pc = "rows", !.key = k]
  OBVIOUS
<1>1. /\ up /\ turn = t /\ task[t].pc = "unlink" /\ task[t].left = {}
      /\ made' = k
      /\ task' = [task EXCEPT ![t] = ts] /\ turn' = t
      /\ UNCHANGED <<setup, ring, rows, files, meta, up, cipher, locked, archive, wiped>>
  BY DEF FreshKey, At, To, disk
<1>2. /\ task[t] \in TaskState /\ Only(t) /\ task[t].op \in setup.ops /\ task[t].op = "wipe"
      /\ Typed /\ Erasing(task[t])
  BY <1>1, MaintenanceFacts DEF MaintenancePc, Pc, Storing, OpFits
<1>3. k \in Key /\ k # None
  BY <1>1, <1>2, VaultAssumption DEF Erasing
<1>4. ts \in TaskState /\ ts.op = "wipe" /\ ts.pc = "rows" /\ ts.key = k /\ ts.left = {}
  BY <1>1, <1>2, <1>3 DEF TaskState, Pc, MaybeKey
<1>5. Goes(t, ts) /\ OpFits(ts)
  BY <1>1, <1>4 DEF Goes, OpFits, Storing
<1>6. /\ made' \in 0..MAX_KEYS /\ locked' \in BOOLEAN /\ wiped' \in BOOLEAN
      /\ meta' \in [print : MaybeKey, rotating : BOOLEAN, lock : BOOLEAN]
  BY <1>1, <1>2, <1>3, VaultAssumption DEF Typed, Key
<1>7. Erasing(ts)'
  BY <1>1, <1>2, <1>3, <1>4 DEF Erasing, OnDisk, Ids
<1> QED
  BY <1>1, <1>2, <1>4, <1>5, <1>6, <1>7, WaitingStep DEF Stretch, Storing

(* The lock's copy of the key is beside the other two items. *)
LEMMA BackupKeepsInv ==
  ASSUME Inv, NEW t \in Task, LoadKey(t) \/ StoreBackup(t) \/ DropBackup(t)
  PROVE  Inv'
<1> DEFINE O == task[t].op
<1> PICK ts : ts = IF LoadKey(t) THEN [task[t] EXCEPT !.pc = "store backup", !.key = ring.primary]
                   ELSE IF DropBackup(t) /\ O = "wipe" THEN [task[t] EXCEPT !.pc = "store key"] ELSE Idle
  OBVIOUS
<1>1. /\ up /\ turn = None /\ task[t].pc \in {"load key", "store backup", "drop backup"}
      /\ UNCHANGED <<setup, rows, files, up, cipher, archive, made, wiped>>
  BY DEF LoadKey, StoreBackup, DropBackup, Answered
<1>2. /\ task[t] \in TaskState /\ Only(t) /\ O \in setup.ops
      /\ task[t].pc \in {"load key", "store backup"} => O = "set password"
      /\ task[t].pc = "drop backup" => O \in {"remove password", "wipe"}
      /\ Typed /\ KeyInv /\ RowInv /\ (O = "wipe" => Erasing(task[t]))
      /\ cipher.rows \in Key /\ cipher.rows = meta.print
  BY <1>1, MaintenanceFacts DEF MaintenancePc, Pc, Storing, OpFits
<1>3. task' = [task EXCEPT ![t] = ts] /\ turn' = None
  BY <1>2 DEF LoadKey, StoreBackup, DropBackup, Answered, Wait, Done
<1>4. /\ ts \in TaskState
      /\ \/ ts.op = "set password" /\ ts.pc = "store backup" /\ O = "set password"
         \/ ts.op = "wipe" /\ ts.pc = "store key" /\ ts.key = task[t].key /\ O = "wipe"
         \/ ts = Idle /\ O # "wipe"
  BY <1>1, <1>2, IdleIsNone DEF LoadKey, StoreBackup, DropBackup, Answered, TaskState, Pc, Typed
<1>5. /\ Goes(t, ts) /\ OpFits(ts) /\ ts.op \in setup.ops \cup {None} /\ ts.op # "rotate"
      /\ ts.pc \notin Stretch \cup {"thumb"} /\ (O = "wipe" <=> ts.op = "wipe")
  BY <1>1, <1>2, <1>3, <1>4, IdleIsNone DEF Goes, OpFits, Storing, Stretch, Op, Maintenance
<1>6. /\ ring' \in [primary : MaybeKey, pending : MaybeKey, backup : MaybeKey]
      /\ ring'.primary = ring.primary /\ ring'.pending = ring.pending
      /\ meta' \in [print : MaybeKey, rotating : BOOLEAN, lock : BOOLEAN]
      /\ meta'.print = meta.print /\ meta'.rotating = meta.rotating
      /\ locked' \in BOOLEAN
  BY <1>2 DEF LoadKey, StoreBackup, DropBackup, Typed, TaskState, MaybeKey
<1>7. Typed' /\ RowInv'
  BY <1>1, <1>2, <1>6 DEF Typed, RowInv, Sound, Ids
<1>8. KeyInv'
  <2>1. Wiping' <=> Wiping
    BY <1>2, <1>5, WhoseWipe
  <2> QED
    BY <1>1, <1>2, <1>6, <2>1 DEF KeyInv
<1>9. ts.op = "wipe" => Erasing(ts)'
  <2>1. ts.op = "wipe" => /\ task[t].pc = "drop backup" /\ Erasing(task[t])
                          /\ ts.pc = "store key" /\ ts.key = task[t].key
    BY <1>1, <1>2, <1>4, IdleIsNone DEF Op, Maintenance
  <2> QED
    BY <1>1, <2>1 DEF Erasing
<1> QED
  BY <1>1, <1>2, <1>4, <1>5, <1>7, <1>8, <1>9, MaintenanceStep DEF Stretch, Storing

-----------------------------------------------------------------------------
(* Start and death, and the invariant. *)

(* panod starts with the live key, or with a new one for a new store. *)
LEMMA StartKeepsInv ==
  ASSUME Inv, Start
  PROVE  Inv'
<1>1. PICK k \in bring_up_key :
        /\ check_key(k)
        /\ ring' = [ring EXCEPT !.primary = k]
        /\ meta' = [meta EXCEPT !.print = k]
        /\ cipher' = [rows |-> k, files |-> k]
        /\ made' = IF k > made THEN k ELSE made
  BY DEF Start
<1>2. PICK S : collect_garbage(rows, files, S)
  BY DEF Start
<1>3. ~up /\ up' /\ UNCHANGED <<setup, locked, task, turn, archive, wiped>>
  BY DEF Start, Inv, TypeOK
<1>4. Typed
  BY DEF Typed, Inv, TypeOK, Rows, Files
<1>5. k \in Key /\ k # None
  BY <1>4, VaultAssumption DEF bring_up_key, Typed, MaybeKey
<1>6. \A s \in Task : task[s] = Idle
  BY <1>3 DEF Inv, TaskInv
<1>7. ~Wiping /\ ~Wiping'
  BY <1>3, <1>6, IdleIsNone DEF Wiping, Op, Maintenance
<1>8. meta.print \in {None, k} /\ (ring.primary # None => k = ring.primary)
  BY <1>1 DEF check_key, bring_up_key
<1>9. \A b \in Blob : files[b] \in {None, k}
  BY <1>3, <1>7, <1>8 DEF Inv, KeyInv
<1>10. Sound(rows, files, k)
  <2>1. Sound(rows, files, meta.print) /\ \A i \in Ids(rows) : rows[i].key \in Key
    BY <1>4, RowFacts DEF Inv, RowInv, Typed, Row
  <2>2. \A i \in Ids(rows) : rows[i].key = k
    BY <1>8, <2>1, VaultAssumption DEF Sound
  <2> QED
    BY <2>1, <2>2 DEF Sound
<1>11. /\ rows' \in Rows /\ files' \in Files /\ Sound(rows', files', k)
       /\ \A b \in Blob : files'[b] \in {None, k}
  BY <1>2, <1>4, <1>9, <1>10, Collected DEF Typed
<1>12. /\ ring' \in [primary : MaybeKey, pending : MaybeKey, backup : MaybeKey]
       /\ meta' \in [print : MaybeKey, rotating : BOOLEAN, lock : BOOLEAN]
       /\ cipher' \in [rows : MaybeKey, files : MaybeKey]
       /\ made' \in 0..MAX_KEYS
       /\ ring'.primary = k /\ meta'.print = k /\ cipher'.rows = k /\ cipher'.files = k
  BY <1>1, <1>4, <1>5, VaultAssumption DEF Typed, MaybeKey, Key
<1>13. TypeOK'
  BY <1>3, <1>11, <1>12 DEF Inv, TypeOK, Rows, Files
<1>14. TaskInv' /\ OneMaintenance'
  BY <1>3, <1>6, IdleIsNone DEF TaskInv, OneMaintenance, OpFits, Storing, Stretch
<1>15. Room'
  BY <1>3, <1>6, IdleIsNone, NobodyStores DEF Storing, Inv, Room
<1>16. RowInv'
  BY <1>11, <1>12 DEF RowInv, Sound, Ids
<1>17. KeyInv'
  BY <1>3, <1>5, <1>11, <1>12 DEF KeyInv
<1>18. MaintenanceInv'
  BY <1>3, <1>6, IdleIsNone DEF MaintenanceInv, Op, Maintenance
<1> QED
  BY <1>13, <1>14, <1>15, <1>16, <1>17, <1>18, InvParts

(* The keyring has every key that something on disk is sealed with. *)
LEMMA CrashKeepsInv ==
  ASSUME Inv, WipesFinish, Crash
  PROVE  Inv'
<1>1. /\ up /\ setup.dies /\ ~up'
      /\ cipher' = [rows |-> None, files |-> None]
      /\ locked' = FALSE /\ turn' = None
      /\ \A s \in Task : task'[s] = Idle
      /\ task' = [s \in Task |-> Idle]
      /\ UNCHANGED <<setup, ring, rows, files, meta, archive, made, wiped>>
  BY DEF Crash, disk
<1>2. ~Wiping /\ ~Wiping'
  <2>1. "wipe" \notin setup.ops \cup {None}
    BY <1>1, IdleIsNone DEF WipesFinish, Inv, TypeOK, Op, Maintenance
  <2> QED
    BY <1>1, <2>1, IdleIsNone DEF Wiping, Inv, TaskInv, Op, Maintenance
<1>3. TypeOK'
  <2>1. task' \in [Task -> TaskState] /\ turn' \in Task \cup {None}
    BY <1>1, IdleIsNone
  <2>2. cipher' \in [rows : MaybeKey, files : MaybeKey]
    BY <1>1 DEF MaybeKey
  <2>3. locked' \in BOOLEAN /\ up' \in BOOLEAN
    BY DEF Crash
  <2> QED
    BY <1>1, <2>1, <2>2, <2>3 DEF Inv, TypeOK
<1>4. TaskInv' /\ OneMaintenance'
  BY <1>1, IdleIsNone DEF TaskInv, OneMaintenance, OpFits, Storing, Stretch
<1>5. Room'
  BY <1>1, IdleIsNone, NobodyStores DEF Storing, Inv, Room
<1>6. RowInv'
  BY <1>1 DEF Inv, RowInv, Sound, Ids
<1>7. KeyInv'
  BY <1>1, <1>2 DEF Inv, KeyInv
<1>8. MaintenanceInv'
  BY <1>1, IdleIsNone DEF MaintenanceInv, Op, Maintenance
<1> QED
  BY <1>3, <1>4, <1>5, <1>6, <1>7, <1>8, InvParts

LEMMA InitInv ==
  ASSUME Init
  PROVE  Inv
<1>1. TypeOK
  <2>1. task \in [Task -> TaskState] /\ turn \in Task \cup {None}
    BY IdleIsNone DEF Init
  <2>2. made \in 0..MAX_KEYS
    BY VaultAssumption DEF Init
  <2>3. /\ rows \in [Id -> Row \cup {None}] /\ files \in [Blob -> MaybeKey]
        /\ ring \in [primary : MaybeKey, pending : MaybeKey, backup : MaybeKey]
        /\ meta \in [print : MaybeKey, rotating : BOOLEAN, lock : BOOLEAN]
        /\ cipher \in [rows : MaybeKey, files : MaybeKey]
    BY DEF Init, MaybeKey
  <2> QED
    BY <2>1, <2>2, <2>3 DEF Init, TypeOK
<1>2. Ids(rows) = {}
  BY DEF Init, Ids
<1>3. \A s \in Task : task[s] = Idle
  BY DEF Init
<1>4. TaskInv /\ OneMaintenance /\ MaintenanceInv /\ ~Wiping
  BY <1>3, IdleIsNone
     DEF Init, TaskInv, OneMaintenance, MaintenanceInv, Wiping, OpFits, Storing, Stretch, Op, Maintenance
<1>5. Room
  BY <1>3, IdleIsNone, FS_EmptySet DEF Init, Room, Storing
<1>6. RowInv
  BY <1>2 DEF RowInv, Sound
<1>7. KeyInv
  BY <1>4 DEF Init, KeyInv
<1> QED
  BY <1>1, <1>4, <1>5, <1>6, <1>7 DEF Inv

LEMMA InvStep ==
  ASSUME Inv, WipesFinish, [Next]_vars
  PROVE  Inv'
<1>1. CASE UNCHANGED vars
  <2>1. UNCHANGED <<setup, ring, rows, files, meta, archive, up, cipher, locked, task, turn, made, wiped>>
    BY <1>1 DEF vars, disk
  <2>2. TypeOK'
    BY <2>1 DEF Inv, TypeOK
  <2>3. TaskInv' /\ OneMaintenance'
    BY <2>1, NoRequestStep
  <2>4. Room'
    BY <2>1 DEF Inv, Room, HasRoom, IdOf, Ids
  <2>5. RowInv'
    BY <2>1 DEF Inv, RowInv, Sound, Ids
  <2>6. KeyInv'
    BY <2>1 DEF Inv, KeyInv, Wiping
  <2>7. MaintenanceInv'
    BY <2>1 DEF Inv, MaintenanceInv, Rotating, Erasing, OnDisk, Ids
  <2> QED
    BY <2>2, <2>3, <2>4, <2>5, <2>6, <2>7, InvParts
<1>2. ASSUME NEW t \in Task, Requests(t)
      PROVE  Inv'
  BY <1>2, StoreKeepsInv, ViewKeepsInv, ImportKeepsInv, MaintenanceBegins DEF Requests
<1>3. ASSUME NEW t \in Task, Steps(t)
      PROVE  Inv'
  BY <1>3, InsertRowKeepsInv, WriteBlobKeepsInv, AttachBlobKeepsInv, FilledKeepsInv, ThumbnailKeepsInv,
     LoadPendingKeepsInv, StorePendingKeepsInv, MarkKeepsInv, RekeyRowsKeepsInv, SwapBlobKeyKeepsInv,
     RekeyFileKeepsInv, UnlinkKeepsInv, StoreKeyKeepsInv, DropPendingKeepsInv, UnmarkKeepsInv,
     EraseKeepsInv, FreshKeyKeepsInv, BackupKeepsInv
     DEF Steps
<1>4. CASE Clear \/ Maintain \/ \E i \in Id : Delete(i) \/ Restore(i)
  BY <1>4, LettingGoKeepsInv
<1>5. CASE Export \/ EngageLock \/ Unlock
  BY <1>5, LockOrExportKeepsInv
<1> QED
  BY <1>1, <1>2, <1>3, <1>4, <1>5, StartKeepsInv, CrashKeepsInv, KeyringFailsKeepsInv DEF Next

(* Of every history of requests and crashes: Inv holds. *)
THEOREM InvHolds ==
  ASSUME WipesFinish
  PROVE  Spec => []Inv
<1>1. Init => Inv
  BY InitInv
<1>2. Inv /\ [Next]_vars => Inv'
  BY InvStep
<1> QED
  BY <1>1, <1>2, PTL DEF Spec

(* Daemon::rotate_key, cut short anywhere by a crash, a keyring that       *)
(* refuses or a full disk, can be taken up again: the key the database is  *)
(* bound to is the live one, or the pending one of a marked rotation.      *)
THEOREM RotationCanResume ==
  ASSUME WipesFinish
  PROVE  Spec => []RotationResumes
<1>1. Inv => RotationResumes
  BY DEF Inv, KeyInv, Wiping, RotationResumes
<1> QED
  BY <1>1, InvHolds, PTL

-----------------------------------------------------------------------------
(* The store implements Archive. *)

(* What is kept, where every row can be read. *)
Plain(rs) ==
  [c \in Content |-> IF IdOf(rs, c) = {} THEN "absent"
                     ELSE IF \A i \in IdOf(rs, c) : BlobsOf[c] \subseteq rs[i].refs THEN "whole" ELSE "noted"]

Single(rs) == \A i, j \in Ids(rs) : rs[i].content = rs[j].content => i = j

(* No entry is lost: the keys at hand open every row and every file a row  *)
(* refers to.                                                              *)
LEMMA NothingLost ==
  ASSUME Inv
  PROVE  Kept = Plain(rows) /\ rows \in Rows /\ Single(rows)
<1>1. rows \in Rows /\ files \in Files /\ Sound(rows, files, meta.print) /\ Single(rows)
  BY DEF Inv, TypeOK, RowInv, Sound, Single, Rows, Files
<1>2. ~up => ~Wiping
  BY IdleIsNone DEF Inv, TaskInv, Wiping, Op, Maintenance
<1>3. meta.print # None => meta.print \in Held
  BY <1>2 DEF Inv, KeyInv, Held
<1>4. \A b \in Blob : files[b] # None => files[b] \in Held
  BY <1>3 DEF Inv, KeyInv, Held
<1>5. \A i \in Ids(rows) : Readable(i)
  <2>1. \A i \in Ids(rows) : rows[i].key \in Key /\ rows[i].refs \subseteq Blob
    BY <1>1, RowFacts DEF Row
  <2> QED
    BY <1>1, <1>3, <1>4, <2>1, VaultAssumption DEF Readable, Sound
<1>6. \A c \in Content : ~\E i \in IdOf(rows, c) : ~Readable(i)
  BY <1>5 DEF IdOf
<1>7. \A c \in Content : Kept[c] = Plain(rows)[c]
  BY <1>6 DEF Kept, Plain
<1> QED
  BY <1>1, <1>7 DEF Kept, Plain

(* Rows go, and those that stay keep their content and their references. *)
LEMMA Forgets ==
  ASSUME NEW rs \in Rows, NEW new \in Rows, Single(rs), Ids(new) \subseteq Ids(rs),
         \A i \in Ids(new) : new[i].content = rs[i].content /\ new[i].refs = rs[i].refs
  PROVE  \E S \in SUBSET Content :
           Plain(new) = [c \in Content |-> IF c \in S THEN "absent" ELSE Plain(rs)[c]]
<1> DEFINE S == {c \in Content : IdOf(new, c) = {}}
<1>1. ASSUME NEW c \in Content, IdOf(new, c) # {}
      PROVE  Plain(new)[c] = Plain(rs)[c]
  <2>1. PICK i \in Ids(new) : IdOf(new, c) = {i} /\ IdOf(rs, c) = {i}
    BY <1>1 DEF IdOf, Single
  <2> QED
    BY <2>1 DEF Plain
<1>2. \A c \in S : Plain(new)[c] = "absent"
  BY DEF Plain
<1>3. Plain(new) = [c \in Content |-> Plain(new)[c]]
  BY DEF Plain
<1>4. \A c \in Content : Plain(new)[c] = IF c \in S THEN "absent" ELSE Plain(rs)[c]
  BY <1>1, <1>2
<1> HIDE DEF S
<1>5. Plain(new) = [c \in Content |-> IF c \in S THEN "absent" ELSE Plain(rs)[c]]
  BY <1>3, <1>4
<1> QED
  BY <1>5 DEF S

(* A reference is added to a row. *)
LEMMA Fills ==
  ASSUME NEW rs \in Rows, NEW new \in Rows, Single(rs), NEW i, Grows(rs, new, i)
  PROVE  \/ Plain(new) = Plain(rs)
         \/ \E c \in Content : /\ Plain(rs)[c] = "noted"
                               /\ Plain(new) = [d \in Content |-> IF d = c THEN "whole" ELSE Plain(rs)[d]]
<1>1. \A c \in Content : IdOf(new, c) = IdOf(rs, c)
  BY DEF IdOf, Grows
<1>2. \A c \in Content : i \notin IdOf(rs, c) => Plain(new)[c] = Plain(rs)[c]
  <2> SUFFICES ASSUME NEW c \in Content, i \notin IdOf(rs, c)
               PROVE  Plain(new)[c] = Plain(rs)[c]
    OBVIOUS
  <2>1. \A j \in IdOf(rs, c) : new[j] = rs[j]
    BY DEF IdOf, Grows
  <2> QED
    BY <1>1, <2>1 DEF Plain
<1>3. \A c, d \in Content : i \in IdOf(rs, c) /\ i \in IdOf(rs, d) => c = d
  BY DEF IdOf
<1>4. \A c \in Content : /\ Plain(new)[c] = "absent" <=> Plain(rs)[c] = "absent"
                         /\ Plain(rs)[c] = "whole" => Plain(new)[c] = "whole"
                         /\ Plain(new)[c] \in {"absent", "noted", "whole"}
                         /\ Plain(rs)[c] \in {"absent", "noted", "whole"}
  <2> SUFFICES ASSUME NEW c \in Content
               PROVE  /\ Plain(new)[c] = "absent" <=> Plain(rs)[c] = "absent"
                      /\ Plain(rs)[c] = "whole" => Plain(new)[c] = "whole"
                      /\ Plain(new)[c] \in {"absent", "noted", "whole"}
                      /\ Plain(rs)[c] \in {"absent", "noted", "whole"}
    OBVIOUS
  <2>1. \A j \in IdOf(rs, c) : rs[j].refs \subseteq new[j].refs
    BY DEF IdOf, Grows
  <2>2. (\A j \in IdOf(rs, c) : BlobsOf[c] \subseteq rs[j].refs) => \A j \in IdOf(rs, c) : BlobsOf[c] \subseteq new[j].refs
    BY <2>1
  <2> QED
    BY <1>1, <2>2 DEF Plain
<1>5. /\ Plain(new) = [c \in Content |-> Plain(new)[c]]
      /\ Plain(rs) = [c \in Content |-> Plain(rs)[c]]
  BY DEF Plain
<1>6. CASE \A c \in Content : Plain(new)[c] = Plain(rs)[c]
  BY <1>5, <1>6
<1>7. CASE \E c \in Content : Plain(new)[c] # Plain(rs)[c]
  <2>1. PICK c \in Content : Plain(new)[c] # Plain(rs)[c]
    BY <1>7
  <2>2. Plain(rs)[c] = "noted" /\ Plain(new)[c] = "whole"
    BY <1>4, <2>1
  <2>3. \A d \in Content : d # c => Plain(new)[d] = Plain(rs)[d]
    BY <1>2, <1>3, <2>1
  <2>4. Plain(new) = [d \in Content |-> IF d = c THEN "whole" ELSE Plain(rs)[d]]
    BY <1>5, <2>2, <2>3
  <2> QED
    BY <2>2, <2>4
<1> QED
  BY <1>6, <1>7

LEMMA NothingLostNext ==
  ASSUME Inv'
  PROVE  Kept' = Plain(rows') /\ rows' \in Rows
<1>1. (Inv => Kept = Plain(rows))'
  BY NothingLost, PTL
<1> QED
  BY <1>1 DEF Inv, TypeOK, Rows, Plain, IdOf, Ids

(* A step that first may fill an entry (the table is then rs) and then     *)
(* lets go of some.                                                        *)
LEMMA ArchiveStep ==
  ASSUME Inv, Inv', NEW rs \in Rows, Single(rs),
         \/ Plain(rs) = Plain(rows)
         \/ \E c \in Content : /\ Plain(rows)[c] = "noted"
                               /\ Plain(rs) = [d \in Content |-> IF d = c THEN "whole" ELSE Plain(rows)[d]],
         Ids(rows') \subseteq Ids(rs),
         \A i \in Ids(rows') : rows'[i].content = rs[i].content /\ rows'[i].refs = rs[i].refs
  PROVE  Promise!Next
<1>1. Kept = Plain(rows) /\ rows \in Rows
  BY NothingLost
<1>2. Kept' = Plain(rows') /\ rows' \in Rows
  BY NothingLostNext
<1>3. PICK S \in SUBSET Content :
        Plain(rows') = [c \in Content |-> IF c \in S THEN "absent" ELSE Plain(rs)[c]]
  BY <1>2, Forgets
<1>4. CASE Plain(rs) = Plain(rows)
  <2>1. Promise!Forget(S)
    BY <1>1, <1>2, <1>3, <1>4 DEF Promise!Forget
  <2> QED
    BY <2>1 DEF Promise!Next
<1>5. ASSUME NEW c \in Content, Plain(rows)[c] = "noted",
             Plain(rs) = [d \in Content |-> IF d = c THEN "whole" ELSE Plain(rows)[d]]
      PROVE  Promise!Next
  <2>1. Kept' = [d \in Content |-> IF d \in S THEN "absent" ELSE IF d = c THEN "whole" ELSE Kept[d]]
    BY <1>1, <1>2, <1>3, <1>5
  <2>2. Promise!Fill(c, S)
    BY <1>1, <1>5, <2>1 DEF Promise!Fill
  <2> QED
    BY <2>2 DEF Promise!Next
<1> QED
  BY <1>4, <1>5

LEMMA SameRowsStep ==
  ASSUME Inv, Inv', rows' = rows
  PROVE  Kept' = Kept
BY NothingLost, NothingLostNext

LEMMA CollectingStep ==
  ASSUME Inv, Inv', \E S : collect_garbage(rows, files, S)
  PROVE  Promise!Next
<1>1. PICK S : collect_garbage(rows, files, S)
  OBVIOUS
<1>2. rows \in Rows /\ files \in Files /\ Sound(rows, files, meta.print) /\ Single(rows)
  BY NothingLost DEF Inv, TypeOK, RowInv, Files
<1>3. Ids(rows)' = Ids(rows) \ S /\ \A i \in Ids(rows)' : rows'[i] = rows[i]
  BY <1>1, <1>2, Collected
<1> QED
  BY <1>2, <1>3, ArchiveStep DEF Ids

(* Inserting a row begins an entry; bringing one back is not to be seen. *)
LEMMA InsertRowNotes ==
  ASSUME Inv, Inv', NEW t \in Task, InsertRow(t)
  PROVE  Promise!Next
<1>1. PICK c \in task[t].queue : rows' = upsert_entry(rows, c)
  BY DEF InsertRow
<1>2. /\ up /\ task[t] \in TaskState /\ IsFiniteSet(task[t].queue) /\ HasRoom(task[t].queue)
  BY DEF InsertRow, At, Inv, TypeOK, Room, Storing
<1>3. task[t].queue \subseteq Content /\ c \in Content
  BY <1>2 DEF TaskState
<1>4. IdOf(rows, c) = {} => NextId(rows) \in Id
  BY <1>1, <1>2, <1>3, RoomForOne
<1>5. /\ Kept = Plain(rows) /\ rows \in Rows /\ Single(rows) /\ Kept' = Plain(rows') /\ rows' \in Rows
      /\ files \in Files /\ cipher.rows \in Key /\ Sound(rows, files, cipher.rows)
  BY <1>2, NothingLost, NothingLostNext, UpFacts
<1>6. /\ \A i \in Ids(rows) : i \in Ids(rows') /\ rows'[i].content = rows[i].content /\ rows'[i].refs = rows[i].refs
      /\ Ids(rows') = IF IdOf(rows, c) = {} THEN Ids(rows) \cup {NextId(rows)} ELSE Ids(rows)
      /\ IdOf(rows, c) = {} => rows'[NextId(rows)].content = c /\ rows'[NextId(rows)].refs = {}
  BY <1>1, <1>3, <1>4, <1>5, Upserted
<1>7. CASE IdOf(rows, c) # {}
  BY <1>5, <1>6, <1>7, ArchiveStep
<1>8. CASE IdOf(rows, c) = {}
  <2> PICK n : n = NextId(rows)
    OBVIOUS
  <2>1. IdOf(rows', c) = {n}
    BY <1>6, <1>8 DEF IdOf
  <2>2. \A d \in Content \ {c} : /\ IdOf(rows', d) = IdOf(rows, d)
                                 /\ \A i \in IdOf(rows, d) : rows'[i].refs = rows[i].refs
    BY <1>6, <1>8 DEF IdOf
  <2>3. \A d \in Content \ {c} : Plain(rows')[d] = Plain(rows)[d]
    BY <2>2 DEF Plain
  <2>4. Plain(rows)[c] = "absent" /\ Plain(rows')[c] = "noted"
    <3>1. ~(BlobsOf[c] \subseteq rows'[n].refs)
      BY <1>3, <1>6, <1>8, VaultAssumption
    <3> QED
      BY <1>3, <1>8, <2>1, <3>1 DEF Plain
  <2>5. Plain(rows') = [d \in Content |-> Plain(rows')[d]] /\ Plain(rows) = [d \in Content |-> Plain(rows)[d]]
    BY DEF Plain
  <2>6. Plain(rows') = [Plain(rows) EXCEPT ![c] = "noted"]
    BY <2>3, <2>4, <2>5
  <2>7. Promise!Note(c)
    BY <1>5, <2>4, <2>6 DEF Promise!Note
  <2> QED
    BY <1>3, <2>7 DEF Promise!Next
<1> QED
  BY <1>7, <1>8

LEMMA AttachBlobFills ==
  ASSUME Inv, Inv', NEW t \in Task, AttachBlob(t)
  PROVE  Promise!Next
<1>1. PICK b \in task[t].left : files[b] # None /\ rows' = attach_blob(rows, task[t].row, b)
  BY DEF AttachBlob
<1>2. b \in Blob
  BY DEF Inv, TypeOK, TaskState
<1>3. /\ rows \in Rows /\ Single(rows) /\ files \in Files /\ Sound(rows, files, meta.print)
  BY NothingLost DEF Inv, TypeOK, RowInv, Files
<1>4. rows' \in Rows /\ Sound(rows', files, meta.print) /\ Grows(rows, rows', task[t].row)
  BY <1>1, <1>2, <1>3, Attached
<1>5. Single(rows')
  BY <1>4 DEF Single, Sound
<1>6. \/ Plain(rows') = Plain(rows)
      \/ \E c \in Content : /\ Plain(rows)[c] = "noted"
                            /\ Plain(rows') = [d \in Content |-> IF d = c THEN "whole" ELSE Plain(rows)[d]]
  BY <1>3, <1>4, Fills
<1> QED
  BY <1>4, <1>5, <1>6, ArchiveStep

LEMMA ThumbnailFills ==
  ASSUME Inv, Inv', NEW t \in Task, NEW scaled \in BOOLEAN, Thumbnail(t, scaled)
  PROVE  Promise!Next
<1>1. up /\ task[t].queue \subseteq DOMAIN ThumbOf
  BY DEF Thumbnail, Answered, Inv, TaskInv
<1>2. /\ rows \in Rows /\ Single(rows) /\ files \in Files /\ Sound(rows, files, meta.print)
      /\ cipher.files \in Key
  BY <1>1, NothingLost, UpFacts
<1>3. PICK c \in task[t].queue :
       LET fs == IF scaled THEN put(files, ThumbOf[c]) ELSE files
           rs == IF scaled THEN attach_blob(rows, task[t].row, ThumbOf[c]) ELSE rows
       IN \/ rows' = rs
          \/ \E S : collect_garbage(rs, fs, S)
  BY DEF Thumbnail
<1> PICK fs : fs = IF scaled THEN put(files, ThumbOf[c]) ELSE files
  OBVIOUS
<1> PICK rs : rs = IF scaled THEN attach_blob(rows, task[t].row, ThumbOf[c]) ELSE rows
  OBVIOUS
<1>4. /\ fs \in Files /\ rs \in Rows /\ Sound(rs, fs, meta.print)
      /\ \/ Plain(rs) = Plain(rows)
         \/ \E d \in Content : /\ Plain(rows)[d] = "noted"
                               /\ Plain(rs) = [e \in Content |-> IF e = d THEN "whole" ELSE Plain(rows)[e]]
  <2>1. CASE scaled
    <3>1. ThumbOf[c] \in Blob
      BY <1>1, BlobsAreBlobs
    <3>2. /\ fs \in Files /\ fs[ThumbOf[c]] # None
          /\ \A b \in Blob : files[b] # None => fs[b] # None
      BY <1>2, <2>1, <3>1, BlobWritten
    <3>3. \A i \in Ids(rows) : rows[i].refs \subseteq Blob
      BY <1>2, RowFacts DEF Row
    <3>4. Sound(rows, fs, meta.print)
      BY <1>2, <3>2, <3>3 DEF Sound
    <3>5. rs = attach_blob(rows, task[t].row, ThumbOf[c])
      BY <2>1
    <3>6. rs \in Rows /\ Sound(rs, fs, meta.print) /\ Grows(rows, rs, task[t].row)
      BY <1>2, <3>1, <3>2, <3>4, <3>5, Attached
    <3> QED
      BY <1>2, <3>2, <3>6, Fills
  <2> QED
    BY <1>2, <2>1
<1>5. Single(rs)
  BY <1>4 DEF Sound, Single
<1>6. Ids(rows') \subseteq Ids(rs) /\ \A i \in Ids(rows') : rows'[i] = rs[i]
  <2>1. CASE rows' = rs
    BY <2>1
  <2>2. ASSUME NEW S, collect_garbage(rs, fs, S)
        PROVE  Ids(rows') \subseteq Ids(rs) /\ \A i \in Ids(rows') : rows'[i] = rs[i]
    <3>1. Ids(rows)' = Ids(rs) \ S /\ \A i \in Ids(rows)' : rows'[i] = rs[i]
      BY <1>4, <2>2, Collected
    <3> QED
      BY <3>1 DEF Ids
  <2> QED
    BY <1>3, <2>1, <2>2
<1> QED
  BY <1>4, <1>5, <1>6, ArchiveStep

(* The tables differ in no more than which rows are deleted. *)
Alike(rs, new) ==
  /\ new \in Rows /\ Ids(new) = Ids(rs)
  /\ \A j \in Ids(rs) : /\ new[j].content = rs[j].content
                        /\ new[j].refs = rs[j].refs
                        /\ new[j].key = rs[j].key

(* The remaining steps that touch the table. *)
LEMMA OtherRowSteps ==
  ASSUME Inv, Inv', 
         \/ \E i \in Id : Delete(i) \/ Restore(i)
         \/ \E t \in Task : Filled(t) \/ RekeyRows(t) \/ Erase(t)
  PROVE  Promise!Next \/ Kept' = Kept
<1>1. /\ rows \in Rows /\ Single(rows) /\ files \in Files /\ Sound(rows, files, meta.print)
      /\ rows' \in Rows
  BY NothingLost, NothingLostNext DEF Inv, TypeOK, RowInv, Files
<1>2. /\ Ids(rows) \subseteq Id
      /\ \A j \in Ids(rows) : rows[j] \in Row
      /\ \A j \in Id \ Ids(rows) : rows[j] = None
  BY <1>1, RowFacts
<1>3. ASSUME NEW i \in Ids(rows), NEW rs,
             rs = [rows EXCEPT ![i].gone = TRUE] \/ rs = [rows EXCEPT ![i].gone = FALSE]
      PROVE  Alike(rows, rs)
  <2>1. rs[i] \in Row /\ rs[i].content = rows[i].content /\ rs[i].refs = rows[i].refs /\ rs[i].key = rows[i].key
    <3>1. rs[i] = [rows[i] EXCEPT !.gone = TRUE] \/ rs[i] = [rows[i] EXCEPT !.gone = FALSE]
      BY <1>1, <1>2, <1>3 DEF Rows
    <3> QED
      BY <1>2, <3>1 DEF Row
  <2>2. \A j \in Id \ {i} : rs[j] = rows[j]
    BY <1>1, <1>3 DEF Rows
  <2>3. rs \in Rows
    BY <1>1, <1>2, <1>3, <2>1 DEF Rows
  <2>4. Ids(rs) = Ids(rows)
    BY <1>2, <2>1, <2>2, VaultAssumption DEF Ids
  <2> QED
    BY <1>2, <2>1, <2>2, <2>3, <2>4 DEF Alike
<1>4. ASSUME NEW i \in Id, Delete(i)
      PROVE  Promise!Next
  <2> PICK rs : rs = [rows EXCEPT ![i].gone = TRUE]
    OBVIOUS
  <2>1. PICK S : collect_garbage(rs, files, S)
    BY <1>4 DEF Delete
  <2>2. i \in Ids(rows)
    BY <1>4 DEF Delete, Ids
  <2>3. Alike(rows, rs)
    BY <1>3, <2>2
  <2>4. rs \in Rows /\ Sound(rs, files, meta.print)
    <3>1. rs \in Rows /\ Ids(rs) = Ids(rows)
      BY <2>3 DEF Alike
    <3>2. \A j \in Ids(rows) : /\ rs[j].content = rows[j].content
                               /\ rs[j].key = rows[j].key
                               /\ rs[j].refs = rows[j].refs
      BY <2>3 DEF Alike
    <3>3. Sound(rows, files, meta.print)
      BY <1>1
    <3> QED
      BY <3>1, <3>2, <3>3 DEF Sound
  <2>5. Ids(rows)' = Ids(rs) \ S /\ \A j \in Ids(rows)' : rows'[j] = rs[j]
    BY <1>1, <2>1, <2>3, <2>4, Collected
  <2>6. /\ Ids(rows') \subseteq Ids(rows)
        /\ \A j \in Ids(rows') : rows'[j].content = rows[j].content /\ rows'[j].refs = rows[j].refs
    <3>1. Ids(rows') = Ids(rows) \ S /\ \A j \in Ids(rows') : rows'[j] = rs[j]
      BY <2>3, <2>5 DEF Alike, Ids
    <3> QED
      BY <2>3, <3>1 DEF Alike
  <2> QED
    BY <1>1, <2>6, ArchiveStep
<1>5. ASSUME NEW i \in Id, Restore(i)
      PROVE  Promise!Next
  <2>1. i \in Ids(rows) /\ rows' = [rows EXCEPT ![i].gone = FALSE]
    BY <1>5 DEF Restore, Ids
  <2>2. Alike(rows, rows')
    BY <1>3, <2>1
  <2> QED
    BY <1>1, <2>2, ArchiveStep DEF Alike
<1>6. ASSUME NEW t \in Task, Filled(t)
      PROVE  Promise!Next \/ Kept' = Kept
  BY <1>6, CollectingStep, SameRowsStep DEF Filled
<1>7. ASSUME NEW t \in Task, RekeyRows(t)
      PROVE  Promise!Next \/ Kept' = Kept
  <2>1. \/ rows' = rows
        \/ \E k : rows' = [i \in Id |-> IF rows[i] = None THEN None ELSE [rows[i] EXCEPT !.key = k]]
    BY <1>7 DEF RekeyRows, Sealed
  <2>2. ASSUME NEW k, rows' = [i \in Id |-> IF rows[i] = None THEN None ELSE [rows[i] EXCEPT !.key = k]]
        PROVE  Promise!Next
    <3>1. \A i \in Id \ Ids(rows) : rows'[i] = None
      BY <1>2, <2>2
    <3>2. Ids(rows') \subseteq Ids(rows)
      BY <3>1 DEF Ids
    <3>3. \A i \in Ids(rows) : rows'[i] = [rows[i] EXCEPT !.key = k]
      BY <1>2, <2>2, VaultAssumption
    <3>4. \A i \in Ids(rows) : rows'[i].content = rows[i].content /\ rows'[i].refs = rows[i].refs
      BY <1>2, <3>3 DEF Row
    <3> QED
      BY <1>1, <3>2, <3>4, ArchiveStep
  <2> QED
    BY <2>1, <2>2, SameRowsStep
<1>8. ASSUME NEW t \in Task, Erase(t)
      PROVE  Promise!Next
  <2>1. Ids(rows') = {}
    BY <1>8 DEF Erase, Ids
  <2> QED
    BY <1>1, <2>1, ArchiveStep
<1> QED
  BY <1>4, <1>5, <1>6, <1>7, <1>8

LEMMA KeptStep ==
  ASSUME Inv, Inv', [Next]_vars
  PROVE  [Promise!Next]_Kept
<1>1. CASE rows' = rows
  BY <1>1, SameRowsStep
<1>2. CASE Start \/ Clear
  BY <1>2, CollectingStep DEF Start, Clear
<1>3. ASSUME NEW t \in Task, Steps(t)
      PROVE  rows' = rows \/ Promise!Next \/ Kept' = Kept
  <2>1. CASE \/ InsertRow(t) \/ AttachBlob(t) \/ Filled(t) \/ RekeyRows(t) \/ Erase(t)
             \/ \E scaled \in BOOLEAN : Thumbnail(t, scaled)
    BY <2>1, InsertRowNotes, AttachBlobFills, ThumbnailFills, OtherRowSteps
  <2>2. CASE \/ WriteBlob(t) \/ LoadPending(t) \/ StorePending(t) \/ Mark(t) \/ SwapBlobKey(t)
             \/ \E b \in Blob : RekeyFile(t, b) \/ Unlink(t, b)
             \/ StoreKey(t) \/ DropPending(t) \/ Unmark(t) \/ FreshKey(t)
             \/ LoadKey(t) \/ StoreBackup(t) \/ DropBackup(t)
    BY <2>2 DEF WriteBlob, LoadPending, StorePending, Mark, SwapBlobKey, RekeyFile, Unlink, StoreKey,
                DropPending, Unmark, FreshKey, LoadKey, StoreBackup, DropBackup, disk
  <2> QED
    BY <1>3, <2>1, <2>2 DEF Steps
<1>4. ASSUME NEW t \in Task, Requests(t) \/ KeyringFails(t)
      PROVE  rows' = rows
  BY <1>4 DEF Requests, KeyringFails, Store, View, Import, RotateKey, Wipe, SetPassword, RemovePassword, disk
<1>5. CASE \/ UNCHANGED vars
           \/ Crash \/ Maintain \/ Export \/ EngageLock \/ Unlock
  <2>1. rows' = rows
    BY <1>5 DEF vars, disk, Crash, Maintain, Export, EngageLock, Unlock
  <2> QED
    BY <1>1, <2>1
<1>6. CASE \E i \in Id : Delete(i) \/ Restore(i)
  BY <1>6, OtherRowSteps
<1> QED
  BY <1>1, <1>2, <1>3, <1>4, <1>5, <1>6 DEF Next

(* Whatever the order of copies, deletions, rotations and crashes, an      *)
(* entry stays whole and readable until it is let go: panod's store        *)
(* implements Archive.                                                     *)
THEOREM ImplementsArchive ==
  ASSUME WipesFinish
  PROVE  Spec => KeepsArchive
<1>1. Init => Promise!Init
  <2> SUFFICES ASSUME Init PROVE Promise!Init
    OBVIOUS
  <2>1. Kept = Plain(rows)
    BY InitInv, NothingLost
  <2>2. \A c \in Content : IdOf(rows, c) = {}
    BY DEF Init, IdOf, Ids
  <2> QED
    BY <2>1, <2>2 DEF Plain, Promise!Init
<1>2. Inv /\ Inv' /\ [Next]_vars => [Promise!Next]_Kept
  BY KeptStep
<1>3. Spec => []Inv
  BY InvHolds
<1> QED
  BY <1>1, <1>2, <1>3, PTL DEF Spec, KeepsArchive, Promise!Spec

-----------------------------------------------------------------------------
(* The schema of the file across releases (Migration).  The invariant says *)
(* of a file between two commits that it is sound for the version it has,  *)
(* of the opener what it has done so far, and of the copies that there is  *)
(* one of what was last written as soon as the file has another version.   *)

(* The rows as the sync feed numbers them: apart, and up to the counter.   *)
Numbers(f) ==
  /\ \A i, j \in DOMAIN f.rows : f.rows[i].seq = f.rows[j].seq => i = j
  /\ \A i \in DOMAIN f.rows : f.rows[i].seq \in 1..f.counter

DbRow == [deleted : BOOLEAN, seq : Nat]

DbFile ==
  [version : {0} \cup Versions, columns : SUBSET Nat, parts : SUBSET {"tables", "search", "triggers"},
   bound : BOOLEAN, rows : UNION {[S -> DbRow] : S \in SUBSET (1..MaxId)}, counter : Nat,
   index : SUBSET (1..MaxId)]

(* A file between two commits: one without a version is new and was made   *)
(* by this release, one with a version has exactly its columns.            *)
FileOK(f) ==
  /\ f \in DbFile
  /\ f.version = 0 =>
       /\ f.rows = NewFile.rows
       /\ "tables" \in f.parts => f.columns = Columns(SCHEMA_VERSION)
  /\ f.version # 0 => f.columns = Columns(f.version)
  /\ f.index = Live(f.rows)
  /\ f.version >= Numbered => Numbers(f)

Copied(v) == copies[v] \notin {NoFile, Partial}

CopiesOK ==
  /\ DOMAIN copies = Versions
  /\ \A v \in Versions : Copied(v) => FileOK(copies[v]) /\ copies[v].version = v

OpenerPc == {"down", "create", "stamp", "bind", "check key", "backup", "vacuum", "migrate", "newer",
             "serving"}

Opener == [at : OpenerPc, release : {0} \cup Releases, stored : {0} \cup Versions, step : {0} \cup Versions]

(* Where the process is in Database::prepare, and what it has done.        *)
New == opener.stored = 0 /\ db.version = 0 /\ opener.release = SCHEMA_VERSION
Upgrades == opener.stored = db.version /\ db.version # 0 /\ db.version < opener.release /\ db.bound
Current == db.version = opener.release /\ db.version # 0

OpenerOK ==
  /\ opener \in Opener
  /\ ~Doing("down") => opener.release # 0
  /\ Doing("create") => New \/ (Current /\ db.bound /\ opener.stored # 0)
  /\ Doing("stamp") => New /\ Missing = {}
  /\ Doing("bind") => Current /\ Missing = {}
  /\ Doing("check key") =>
       opener.stored = db.version /\ db.version # 0 /\ db.version <= opener.release
  /\ Doing("check key") \/ Doing("backup") \/ Doing("vacuum") =>
       opener.step = db.version /\ base.version <= opener.stored
  /\ Doing("backup") \/ Doing("vacuum") => Upgrades
  /\ Doing("migrate") =>
       /\ opener.step = db.version /\ db.version # 0 /\ db.version <= opener.release /\ db.bound
       /\ base.version <= opener.stored /\ opener.stored <= db.version /\ opener.stored # 0
       /\ Copied(opener.stored) /\ Deleted(copies[opener.stored].rows) = base.rows
  /\ Doing("serving") => Current /\ Missing = {} /\ db.bound

(* What was written last is still there, and under the version it was      *)
(* written at as soon as the file has another one.                         *)
BaseOK ==
  /\ base.version \in {0} \cup Versions
  /\ base.version <= db.version
  /\ Deleted(db.rows) = base.rows
  /\ base.version \notin {0, db.version} =>
       Copied(base.version) /\ Deleted(copies[base.version].rows) = base.rows

(* The invariant of the file across releases.                              *)
DbInv == FileOK(db) /\ CopiesOK /\ OpenerOK /\ BaseOK

LEMMA VersionFacts ==
  /\ Old \in Nat /\ SCHEMA_VERSION \in Nat /\ 0 < Old /\ Old < SCHEMA_VERSION /\ Old < Numbered
  /\ Versions \subseteq Nat /\ 0 \notin Versions
  /\ Releases \subseteq Versions /\ 0 \notin Releases
  /\ \A v \in Versions : Old <= v /\ v <= SCHEMA_VERSION
  /\ Numbered = 5
BY MigrationAssumption DEF Versions, Releases, Numbered

LEMMA VersionIsNat ==
  ASSUME NEW v \in {0} \cup Versions
  PROVE  v \in Nat
BY MigrationAssumption DEF Versions

(* The last row id.                                                        *)
LEMMA LastId ==
  ASSUME NEW S \in SUBSET (1..MaxId)
  PROVE  /\ Last(S) \in 0..MaxId
         /\ \A i \in S : i <= Last(S)
<1>1. S \cup {0} \subseteq 0..MaxId /\ S \cup {0} # {}
  BY MigrationAssumption
<1>2. Max(S \cup {0}) \in S \cup {0} /\ \A y \in S \cup {0} : Max(S \cup {0}) >= y
  BY <1>1, MaxOf, MigrationAssumption
<1>3. Last(S) \in 0..MaxId /\ \A y \in S : Last(S) >= y
  BY <1>1, <1>2 DEF Last
<1> QED
  BY <1>3, MigrationAssumption

-----------------------------------------------------------------------------
(* What prepare does to a file.                                            *)
LEMMA FileFacts ==
  ASSUME NEW f, FileOK(f)
  PROVE  /\ f.version \in {0} \cup Versions /\ f.version \in Nat
         /\ f.columns \in SUBSET Nat /\ f.parts \in SUBSET {"tables", "search", "triggers"}
         /\ f.bound \in BOOLEAN
         /\ DOMAIN f.rows \in SUBSET (1..MaxId) /\ f.rows \in [DOMAIN f.rows -> DbRow]
         /\ f.counter \in Nat /\ f.index \in SUBSET (1..MaxId)
<1>1. f \in DbFile
  BY DEF FileOK
<1>2. f.rows \in UNION {[S -> DbRow] : S \in SUBSET (1..MaxId)}
  BY <1>1 DEF DbFile
<1>3. PICK S \in SUBSET (1..MaxId) : f.rows \in [S -> DbRow]
  BY <1>2
<1>4. DOMAIN f.rows = S
  BY <1>3
<1>5. DOMAIN f.rows \in SUBSET (1..MaxId) /\ f.rows \in [DOMAIN f.rows -> DbRow]
  BY <1>3, <1>4
<1>6. f.bound \in BOOLEAN
  BY <1>1 DEF DbFile
<1>7. /\ f.version \in {0} \cup Versions /\ f.version \in Nat
      /\ f.columns \in SUBSET Nat /\ f.parts \in SUBSET {"tables", "search", "triggers"}
      /\ f.counter \in Nat /\ f.index \in SUBSET (1..MaxId)
  <2>1. /\ f.version \in {0} \cup Versions /\ f.counter \in Nat
        /\ f.columns \in SUBSET Nat /\ f.parts \in SUBSET {"tables", "search", "triggers"}
        /\ f.index \in SUBSET (1..MaxId)
    BY <1>1 DEF DbFile
  <2>2. f.version \in Nat
    BY <2>1, VersionIsNat
  <2> QED
    BY <2>1, <2>2
<1> QED
  BY <1>5, <1>6, <1>7

(* A file put together from its parts.                                     *)
LEMMA FileIs ==
  ASSUME NEW v \in {0} \cup Versions, NEW cs \in SUBSET Nat,
         NEW ps \in SUBSET {"tables", "search", "triggers"}, NEW b \in BOOLEAN,
         NEW S \in SUBSET (1..MaxId), NEW rs \in [S -> DbRow], NEW n \in Nat
  PROVE  [version |-> v, columns |-> cs, parts |-> ps, bound |-> b, rows |-> rs, counter |-> n,
          index |-> Live(rs)] \in DbFile
<1>1. rs \in UNION {[T -> DbRow] : T \in SUBSET (1..MaxId)}
  OBVIOUS
<1>2. Live(rs) \in SUBSET (1..MaxId)
  BY DEF Live
<1> QED
  BY <1>1, <1>2 DEF DbFile

(* Two sound files may differ in the version, its columns, what has been   *)
(* created and whether they are bound to a key.                            *)
LEMMA SameRows ==
  ASSUME NEW f, FileOK(f), NEW g \in DbFile,
         g.rows = f.rows, g.counter = f.counter, g.index = f.index,
         g.version = 0 => f.version = 0 /\ ("tables" \in g.parts => g.columns = Columns(SCHEMA_VERSION)),
         g.version # 0 => g.columns = Columns(g.version),
         g.version >= Numbered => f.version >= Numbered \/ f.rows = NewFile.rows
  PROVE  FileOK(g) /\ Deleted(g.rows) = Deleted(f.rows)
<1>1. g.index = Live(g.rows)
  BY DEF FileOK
<1>2. g.version >= Numbered => Numbers(g)
  <2> HAVE g.version >= Numbered
  <2>1. CASE f.version >= Numbered
    BY <2>1 DEF FileOK, Numbers
  <2>2. CASE f.rows = NewFile.rows
    BY <2>2 DEF NewFile, Numbers
  <2> QED
    BY <2>1, <2>2
<1> QED
  BY <1>1, <1>2 DEF FileOK

LEMMA FilesAreFiles ==
  ASSUME NEW f, FileOK(f)
  PROVE  f \notin {NoFile, Partial}
<1>1. "version" \in DOMAIN f
  BY DEF FileOK, DbFile
<1>2. "version" \notin DOMAIN NoFile /\ "version" \notin DOMAIN Partial
  BY DEF NoFile, Partial
<1> QED
  BY <1>1, <1>2

LEMMA BoundFile ==
  ASSUME NEW f, FileOK(f), NEW g, g = [f EXCEPT !.bound = TRUE]
  PROVE  /\ FileOK(g) /\ Deleted(g.rows) = Deleted(f.rows)
         /\ g.version = f.version /\ g.parts = f.parts /\ g.bound
<1>1. f \in DbFile
  BY DEF FileOK
<1>2. g \in DbFile
  BY <1>1 DEF DbFile
<1>3. /\ g.rows = f.rows /\ g.counter = f.counter /\ g.index = f.index /\ g.version = f.version
      /\ g.parts = f.parts /\ g.columns = f.columns
  BY <1>1 DEF DbFile
<1>4. g.bound
  BY <1>1 DEF DbFile
<1>5. FileOK(g) /\ Deleted(g.rows) = Deleted(f.rows)
  <2>1. g.version = 0 => f.version = 0 /\ ("tables" \in g.parts => g.columns = Columns(SCHEMA_VERSION))
    BY <1>3 DEF FileOK
  <2>2. g.version # 0 => g.columns = Columns(g.version)
    BY <1>3 DEF FileOK
  <2> QED
    BY <1>2, <1>3, <2>1, <2>2, SameRows
<1> QED
  BY <1>3, <1>4, <1>5

LEMMA StampedFile ==
  ASSUME NEW f, FileOK(f), f.version = 0, "tables" \in f.parts,
         NEW g, g = [f EXCEPT !.version = SCHEMA_VERSION]
  PROVE  /\ FileOK(g) /\ Deleted(g.rows) = Deleted(f.rows)
         /\ g.version = SCHEMA_VERSION /\ g.parts = f.parts
<1>1. f \in DbFile /\ f.rows = NewFile.rows /\ f.columns = Columns(SCHEMA_VERSION)
  BY DEF FileOK
<1>2. SCHEMA_VERSION \in Versions /\ SCHEMA_VERSION # 0
  BY VersionFacts DEF Releases
<1>3. g \in DbFile
  BY <1>1, <1>2 DEF DbFile
<1>4. /\ g.rows = f.rows /\ g.counter = f.counter /\ g.index = f.index /\ g.version = SCHEMA_VERSION
      /\ g.parts = f.parts /\ g.columns = f.columns
  BY <1>1 DEF DbFile
<1>5. FileOK(g) /\ Deleted(g.rows) = Deleted(f.rows)
  BY <1>1, <1>2, <1>3, <1>4, SameRows
<1> QED
  BY <1>4, <1>5

(* init, for a file without a version and for one that is up to date.      *)
LEMMA CreatedFile ==
  ASSUME NEW f, FileOK(f), NEW part \in Parts(opener.release),
         f.version = opener.release \/ (f.version = 0 /\ opener.release = SCHEMA_VERSION),
         opener.release # 0,
         NEW g, g = init(f, part)
  PROVE  /\ FileOK(g) /\ Deleted(g.rows) = Deleted(f.rows)
         /\ g.version = f.version /\ g.bound = f.bound
<1>1. f \in DbFile /\ part \in {"tables", "search", "triggers"}
  BY DEF FileOK, Parts
<1>2. f.columns \in SUBSET Nat /\ Columns(opener.release) \in SUBSET Nat
  BY <1>1 DEF DbFile, Columns
<1>c. PICK cs \in SUBSET Nat : cs = IF part = "tables" THEN Columns(opener.release) ELSE f.columns
  BY <1>2
<1>p. PICK ps \in SUBSET {"tables", "search", "triggers"} : ps = f.parts \cup {part}
  BY <1>1 DEF DbFile
<1>3. g = [f EXCEPT !.parts = ps, !.columns = cs]
  BY <1>c, <1>p DEF init
<1>4. g \in DbFile
  BY <1>1, <1>3 DEF DbFile
<1>5. /\ g.rows = f.rows /\ g.counter = f.counter /\ g.index = f.index /\ g.version = f.version
      /\ g.parts = ps /\ g.columns = cs
  BY <1>1, <1>3 DEF DbFile
<1>6. g.bound = f.bound
  BY <1>1, <1>3 DEF DbFile
<1>7. g.version = 0 => f.version = 0 /\ ("tables" \in g.parts => g.columns = Columns(SCHEMA_VERSION))
  <2>1. SUFFICES ASSUME g.version = 0, "tables" \in g.parts
                 PROVE  g.columns = Columns(SCHEMA_VERSION)
    BY <1>5
  <2>2. f.version = 0
    BY <1>5, <2>1
  <2>3. CASE part = "tables"
    <3>1. cs = Columns(opener.release)
      BY <1>c, <2>3
    <3>2. opener.release = SCHEMA_VERSION
      BY <2>2
    <3> QED
      BY <1>5, <3>1, <3>2
  <2>4. CASE part # "tables"
    <3>1. cs = f.columns /\ "tables" \in f.parts
      BY <1>c, <1>p, <1>5, <2>1, <2>4
    <3> QED
      BY <1>5, <2>2, <3>1 DEF FileOK
  <2> QED
    BY <2>3, <2>4
<1>8. g.version # 0 => g.columns = Columns(g.version)
  BY <1>5, <1>c DEF FileOK
<1>9. FileOK(g) /\ Deleted(g.rows) = Deleted(f.rows)
  BY <1>4, <1>5, <1>7, <1>8, SameRows
<1> QED
  BY <1>5, <1>6, <1>9

(* The steps of MIGRATIONS: rows are kept, and where they are numbered the *)
(* ids are their numbers.                                                  *)
LEMMA NumberedRows ==
  ASSUME NEW f, FileOK(f), NEW rs, rs = [i \in DOMAIN f.rows |-> [f.rows[i] EXCEPT !.seq = i]]
  PROVE  /\ rs \in [DOMAIN f.rows -> DbRow]
         /\ \A i \in DOMAIN f.rows : rs[i].seq = i /\ rs[i].seq \in 1..Last(DOMAIN f.rows)
         /\ Last(DOMAIN f.rows) \in Nat
         /\ Live(rs) = Live(f.rows) /\ Deleted(rs) = Deleted(f.rows)
<1>1. DOMAIN f.rows \in SUBSET (1..MaxId) /\ f.rows \in [DOMAIN f.rows -> DbRow]
  BY FileFacts
<1>2. \A i \in DOMAIN f.rows : f.rows[i] \in DbRow /\ i \in Nat
  BY <1>1
<1>3. \A i \in DOMAIN f.rows : [f.rows[i] EXCEPT !.seq = i] \in DbRow
  BY <1>2 DEF DbRow
<1>4. DOMAIN rs = DOMAIN f.rows /\ rs \in [DOMAIN f.rows -> DbRow]
  BY <1>3
<1>5. \A i \in DOMAIN f.rows : rs[i].seq = i
  BY <1>2 DEF DbRow
<1>6. \A i \in DOMAIN f.rows : rs[i].deleted = f.rows[i].deleted
  BY <1>2 DEF DbRow
<1>7. Last(DOMAIN f.rows) \in 0..MaxId /\ \A i \in DOMAIN f.rows : i <= Last(DOMAIN f.rows)
  BY <1>1, LastId
<1>8. \A i \in DOMAIN f.rows : i \in 1..Last(DOMAIN f.rows)
  BY <1>1, <1>7, MigrationAssumption
<1>9. Live(rs) = Live(f.rows)
  BY <1>4, <1>6 DEF Live
<1>10. Deleted(rs) = Deleted(f.rows)
  BY <1>4, <1>6 DEF Deleted
<1>11. Last(DOMAIN f.rows) \in Nat
  BY <1>7, MigrationAssumption
<1>12. \A i \in DOMAIN f.rows : rs[i].seq = i /\ rs[i].seq \in 1..Last(DOMAIN f.rows)
  BY <1>5, <1>8
<1> QED
  BY <1>4, <1>9, <1>10, <1>11, <1>12

LEMMA StepRuns ==
  ASSUME NEW f, FileOK(f), f.version # 0
  PROVE  Runs(f, f.version + 1)
<1>1. f.columns = Columns(f.version) /\ f.version \in Nat
  BY FileFacts DEF FileOK
<1> QED
  BY <1>1 DEF Runs, Columns

LEMMA MigratedFile ==
  ASSUME NEW f, FileOK(f), f.version # 0, NEW v \in Versions, v = f.version + 1,
         NEW g, g = Stamped(Step(f, v), v)
  PROVE  /\ FileOK(g) /\ Deleted(g.rows) = Deleted(f.rows)
         /\ g.version = v /\ g.bound = f.bound
<1>1. f \in DbFile /\ f.columns = Columns(f.version) /\ f.index = Live(f.rows) /\ v \in Nat /\ v # 0
  BY VersionFacts DEF FileOK
<1>2. f.version \in {0} \cup Versions /\ f.version \in Nat
  BY FileFacts
<1>3. Columns(f.version) \cup {v} = Columns(v)
  <2>1. f.version >= 1
    BY <1>2
  <2> QED
    BY <1>2, <2>1 DEF Columns
<1>c. PICK cs \in SUBSET Nat : cs = Columns(v)
  BY <1>2 DEF Columns
<1>h. PICK h : h = [f EXCEPT !.columns = cs]
  OBVIOUS
<1>4. h = [f EXCEPT !.columns = @ \cup {v}]
  BY <1>1, <1>3, <1>c, <1>h
<1>5. h \in DbFile
  BY <1>1, <1>h DEF DbFile
<1>6. /\ h.rows = f.rows /\ h.counter = f.counter /\ h.index = f.index
      /\ h.columns = cs /\ h.parts = f.parts
  BY <1>1, <1>h DEF DbFile
<1>7. h.bound = f.bound
  BY <1>1, <1>h DEF DbFile
<1>8. CASE v # Numbered
  <2>1. Step(f, v) = IF v = 3 THEN rebuild_search_index(h) ELSE h
    BY <1>4, <1>8 DEF Step
  <2>2. rebuild_search_index(h) = h
    <3>1. h.index = Live(h.rows)
      BY <1>1, <1>6
    <3> QED
      BY <1>5, <3>1 DEF rebuild_search_index, DbFile
  <2>3. g = [h EXCEPT !.version = v]
    BY <2>1, <2>2 DEF Stamped
  <2>4. g \in DbFile
    BY <1>5, <2>3 DEF DbFile
  <2>5. /\ g.rows = f.rows /\ g.counter = f.counter /\ g.index = f.index
        /\ g.columns = cs /\ g.parts = f.parts /\ g.version = v
    BY <1>5, <1>6, <2>3 DEF DbFile
  <2>6. g.bound = f.bound
    BY <1>5, <1>7, <2>3 DEF DbFile
  <2>7. g.version >= Numbered => f.version >= Numbered
    BY <1>2, <1>8, <2>5 DEF Numbered
  <2>8. FileOK(g) /\ Deleted(g.rows) = Deleted(f.rows)
    BY <1>1, <1>c, <2>4, <2>5, <2>7, SameRows
  <2> QED
    BY <2>5, <2>6, <2>8
<1>9. CASE v = Numbered
  <2>s. PICK rs : rs = [i \in DOMAIN f.rows |-> [f.rows[i] EXCEPT !.seq = i]]
    OBVIOUS
  <2>n. PICK n : n = Last(DOMAIN f.rows)
    OBVIOUS
  <2>p. PICK ps \in SUBSET {"tables", "search", "triggers"} : ps = f.parts \cup {"triggers"}
    BY <1>1 DEF DbFile
  <2>1. Step(f, v) = number_rows(h)
    BY <1>4, <1>9 DEF Step, Numbered
  <2>2. number_rows(h) = [h EXCEPT !.rows = rs, !.counter = n, !.parts = ps]
    BY <1>6, <2>s, <2>n, <2>p DEF number_rows
  <2>3. g = [[h EXCEPT !.rows = rs, !.counter = n, !.parts = ps] EXCEPT !.version = v]
    BY <2>1, <2>2 DEF Stamped
  <2>4. /\ rs \in [DOMAIN f.rows -> DbRow]
        /\ \A i \in DOMAIN f.rows : rs[i].seq = i /\ rs[i].seq \in 1..n
        /\ n \in Nat /\ Live(rs) = Live(f.rows) /\ Deleted(rs) = Deleted(f.rows)
    BY <2>s, <2>n, NumberedRows
  <2>5. rs \in UNION {[S -> DbRow] : S \in SUBSET (1..MaxId)}
    BY <2>4, FileFacts
  <2>6. g \in DbFile
    BY <1>5, <2>3, <2>4, <2>5 DEF DbFile
  <2>7. /\ g.rows = rs /\ g.counter = n /\ g.index = f.index
        /\ g.columns = cs /\ g.version = v
    BY <1>5, <1>6, <2>3 DEF DbFile
  <2>8. g.bound = f.bound
    BY <1>5, <1>7, <2>3 DEF DbFile
  <2>9. DOMAIN rs = DOMAIN f.rows
    BY <2>4
  <2>10. Numbers(g)
    BY <2>4, <2>7, <2>9 DEF Numbers
  <2>11. FileOK(g)
    BY <1>1, <1>c, <2>4, <2>6, <2>7, <2>10 DEF FileOK
  <2> QED
    BY <2>4, <2>7, <2>8, <2>11
<1> QED
  BY <1>8, <1>9

(* A write with the triggers: the row takes the next number.               *)
LEMMA TriggeredFile ==
  ASSUME NEW h \in DbFile, h.version # 0, h.columns = Columns(h.version), h.index = Live(h.rows),
         NEW i \in DOMAIN h.rows, h.version >= Numbered => "triggers" \in h.parts,
         h.version >= Numbered =>
           /\ \A j, k \in DOMAIN h.rows \ {i} : h.rows[j].seq = h.rows[k].seq => j = k
           /\ \A j \in DOMAIN h.rows \ {i} : h.rows[j].seq \in 1..h.counter,
         NEW g, g = Triggered(h, i)
  PROVE  FileOK(g) /\ g.version = h.version /\ g.parts = h.parts /\ g.bound = h.bound
<1>1. CASE "triggers" \notin h.parts
  <2>1. g = h
    BY <1>1 DEF Triggered
  <2> QED
    BY <1>1, <2>1 DEF FileOK
<1>2. CASE "triggers" \in h.parts
  <2>d. PICK S \in SUBSET (1..MaxId) : h.rows \in [S -> DbRow] /\ DOMAIN h.rows = S
    BY DEF DbFile
  <2>n. h.counter \in Nat
    BY DEF DbFile
  <2>s. PICK rs : rs = [h.rows EXCEPT ![i] = [h.rows[i] EXCEPT !.seq = h.counter + 1]]
    OBVIOUS
  <2>1. g = [h EXCEPT !.counter = h.counter + 1, !.rows = rs]
    BY <1>2, <2>s DEF Triggered
  <2>2. h.rows[i] \in DbRow
    BY <2>d
  <2>c. PICK c \in Nat : c = h.counter + 1
    BY <2>n
  <2>r. PICK r : r = [h.rows[i] EXCEPT !.seq = c]
    OBVIOUS
  <2>3. r \in DbRow /\ r.seq = h.counter + 1
    BY <2>2, <2>r, <2>c DEF DbRow
  <2>4. r.deleted = h.rows[i].deleted
    BY <2>2, <2>r DEF DbRow
  <2>5. rs \in [S -> DbRow] /\ rs[i] = r /\ \A j \in S \ {i} : rs[j] = h.rows[j]
    BY <2>d, <2>s, <2>r, <2>c, <2>3
  <2>6. Live(rs) = Live(h.rows)
    BY <2>d, <2>4, <2>5 DEF Live
  <2>7. g \in DbFile
    <3>1. rs \in UNION {[T -> DbRow] : T \in SUBSET (1..MaxId)}
      BY <2>5
    <3> QED
      BY <2>1, <2>c, <3>1 DEF DbFile
  <2>8. /\ g.rows = rs /\ g.counter = h.counter + 1 /\ g.index = h.index
        /\ g.columns = h.columns /\ g.version = h.version /\ g.parts = h.parts
    BY <2>1 DEF DbFile
  <2>9. g.bound = h.bound
    BY <2>1 DEF DbFile
  <2>10. h.version >= Numbered => Numbers(g)
    <3> HAVE h.version >= Numbered
    <3>1. \A j \in S \ {i} : rs[j].seq \in 1..h.counter
      BY <2>d, <2>5
    <3>2. \A j \in S : rs[j].seq \in 1..(h.counter + 1)
      BY <2>n, <2>3, <2>5, <3>1
    <3>3. \A j \in S \ {i} : rs[j].seq # rs[i].seq
      BY <2>n, <2>3, <2>5, <3>1
    <3>4. \A j, k \in S \ {i} : rs[j].seq = rs[k].seq => j = k
      BY <2>d, <2>5
    <3>5. \A j, k \in S : rs[j].seq = rs[k].seq => j = k
      BY <3>3, <3>4
    <3>6. DOMAIN g.rows = S
      BY <2>5, <2>8
    <3>7. \A j \in DOMAIN g.rows : g.rows[j].seq \in 1..g.counter
      BY <2>8, <3>2, <3>6
    <3>8. \A j, k \in DOMAIN g.rows : g.rows[j].seq = g.rows[k].seq => j = k
      BY <2>8, <3>5, <3>6
    <3> QED
      BY <3>7, <3>8 DEF Numbers
  <2>11. FileOK(g)
    BY <2>6, <2>7, <2>8, <2>10 DEF FileOK
  <2> QED
    BY <2>8, <2>9, <2>11
<1> QED
  BY <1>1, <1>2

-----------------------------------------------------------------------------
(* The steps.                                                              *)
LEMMA GoFacts ==
  ASSUME OpenerOK, NEW pc \in OpenerPc, Go(pc)
  PROVE  /\ opener' \in Opener /\ opener'.at = pc
         /\ opener'.release = opener.release /\ opener'.stored = opener.stored
         /\ opener'.step = opener.step
BY DEF OpenerOK, Opener, Go

LEMMA OpenerFacts ==
  ASSUME OpenerOK
  PROVE  /\ opener.at \in OpenerPc /\ opener.release \in {0} \cup Releases
         /\ opener.stored \in {0} \cup Versions /\ opener.step \in {0} \cup Versions
         /\ opener.release \in Nat /\ opener.stored \in Nat /\ opener.step \in Nat
<1>1. /\ opener.at \in OpenerPc /\ opener.release \in {0} \cup Releases
      /\ opener.stored \in {0} \cup Versions /\ opener.step \in {0} \cup Versions
  BY DEF OpenerOK, Opener
<1>2. opener.release \in {0} \cup Versions
  BY <1>1, VersionFacts
<1> QED
  BY <1>1, <1>2, VersionIsNat

LEMMA DbInitInv ==
  ASSUME DbInit
  PROVE  DbInv
<1>1. FileOK(db)
  <2>1. CASE db = NewFile
    <3>e. PICK e : e = [i \in {} |-> 0]
      OBVIOUS
    <3>1. e \in UNION {[S -> DbRow] : S \in SUBSET (1..MaxId)}
      <4>1. e \in [{} -> DbRow]
        BY <3>e
      <4> QED
        BY <4>1
    <3>2. db = [version |-> 0, columns |-> {}, parts |-> {}, bound |-> FALSE, rows |-> e, counter |-> 0,
                index |-> {}]
      BY <2>1, <3>e DEF NewFile
    <3>3. db \in DbFile
      BY <3>1, <3>2 DEF DbFile
    <3>4. db.rows = NewFile.rows /\ db.version = 0 /\ db.parts = {} /\ db.rows = e /\ db.index = {}
      BY <2>1, <3>2
    <3>5. Live(e) = {}
      BY <3>e DEF Live
    <3> QED
      BY <3>3, <3>4, <3>5 DEF FileOK, Numbered
  <2>2. ASSUME NEW S \in SUBSET (1..MaxId), NEW d \in [S -> BOOLEAN], NEW b \in BOOLEAN,
               db = OldFile(d, b)
        PROVE  FileOK(db)
    <3>s. PICK rs : rs = [i \in DOMAIN d |-> [deleted |-> d[i], seq |-> 0]]
      OBVIOUS
    <3>1. \A i \in S : [deleted |-> d[i], seq |-> 0] \in DbRow
      <4> TAKE i \in S
      <4>1. d[i] \in BOOLEAN
        OBVIOUS
      <4> QED
        BY <4>1 DEF DbRow
    <3>2. DOMAIN rs = S /\ rs \in [S -> DbRow]
      BY <3>s, <3>1
    <3>3. \A i \in S : rs[i].deleted = d[i]
      BY <3>s
    <3>4. Live(rs) = {i \in DOMAIN d : ~d[i]}
      BY <3>2, <3>3 DEF Live
    <3>5. Columns(Old) \in SUBSET Nat /\ Parts(Old) \in SUBSET {"tables", "search", "triggers"}
      BY MigrationAssumption DEF Columns, Parts
    <3>6. Old \in Versions /\ Old # 0 /\ ~(Old >= Numbered)
      BY VersionFacts DEF Releases
    <3>7. db = [version |-> Old, columns |-> Columns(Old), parts |-> Parts(Old), bound |-> b,
                rows |-> rs, counter |-> 0, index |-> Live(rs)]
      BY <2>2, <3>s, <3>4 DEF OldFile
    <3>8. db \in DbFile
      BY <3>2, <3>5, <3>6, <3>7, FileIs
    <3> QED
      BY <3>6, <3>7, <3>8 DEF FileOK
  <2> QED
    BY <2>1, <2>2 DEF DbInit
<1>2. CopiesOK
  BY DEF DbInit, CopiesOK, Copied
<1>3. OpenerOK
  BY DEF DbInit, OpenerOK, Opener, Down, Doing, OpenerPc
<1>4. BaseOK
  <2>1. base.version = db.version /\ base.rows = Deleted(db.rows)
    BY DEF DbInit
  <2>2. db.version \in {0} \cup Versions /\ db.version \in Nat
    BY <1>1, FileFacts
  <2> QED
    BY <2>1, <2>2 DEF BaseOK
<1> QED
  BY <1>1, <1>2, <1>3, <1>4 DEF DbInv

(* A step that leaves file, copies and what was written last alone.        *)
LEMMA OpenerStep ==
  ASSUME DbInv, OpenerOK', UNCHANGED <<db, copies, base>>
  PROVE  DbInv'
<1>1. FileOK(db')
  BY DEF DbInv
<1>2. CopiesOK'
  BY DEF DbInv, CopiesOK, Copied
<1>3. BaseOK'
  BY DEF DbInv, BaseOK, Copied
<1> QED
  BY <1>1, <1>2, <1>3 DEF DbInv

(* A step that writes the file and leaves its rows as they are.            *)
LEMMA FileStep ==
  ASSUME DbInv, OpenerOK', FileOK(db'), Deleted(db'.rows) = Deleted(db.rows),
         db'.version = db.version, UNCHANGED <<copies, base>>
  PROVE  DbInv'
<1>1. CopiesOK'
  BY DEF DbInv, CopiesOK, Copied
<1>2. BaseOK'
  BY DEF DbInv, BaseOK, Copied
<1> QED
  BY <1>1, <1>2 DEF DbInv

LEMMA PrepareKeepsInv ==
  ASSUME DbInv, NEW r \in Releases, Prepare(r)
  PROVE  DbInv'
<1>1. db.version \in {0} \cup Versions /\ db.version \in Nat /\ r \in Nat /\ r # 0
  <2>1. db.version \in {0} \cup Versions /\ db.version \in Nat
    BY FileFacts DEF DbInv
  <2>2. r \in Versions /\ r # 0
    BY VersionFacts
  <2> QED
    BY <2>1, <2>2, VersionIsNat
<1>2. base.version \in Nat /\ base.version <= db.version
  BY VersionIsNat DEF DbInv, BaseOK
<1>3. UNCHANGED <<db, copies, base>>
  BY DEF Prepare
<1>4. opener' \in Opener /\ opener'.release = r /\ opener'.stored = db.version /\ opener'.step = db.version
  BY <1>1 DEF Prepare, Opener, OpenerPc
<1>5. CASE db.version = 0
  <2>0. r = SCHEMA_VERSION
    BY <1>5 DEF Prepare
  <2>3. ~(db.version > r)
    BY <1>1, <1>5
  <2>1. opener'.at = "create"
    BY <1>5, <2>3 DEF Prepare
  <2>2. OpenerOK'
    BY <1>1, <1>3, <1>4, <1>5, <2>0, <2>1 DEF OpenerOK, Doing, New
  <2> QED
    BY <1>3, <2>2, OpenerStep
<1>6. CASE db.version # 0 /\ db.version > r
  <2>1. opener'.at = "newer"
    BY <1>6 DEF Prepare
  <2>2. OpenerOK'
    BY <1>1, <1>4, <2>1 DEF OpenerOK, Doing
  <2> QED
    BY <1>3, <2>2, OpenerStep
<1>7. CASE db.version # 0 /\ ~(db.version > r)
  <2>1. opener'.at = "check key"
    BY <1>7 DEF Prepare
  <2>2. /\ opener'.stored = db'.version /\ db'.version # 0 /\ db'.version <= opener'.release
        /\ opener'.step = db'.version /\ base'.version <= opener'.stored
    BY <1>1, <1>2, <1>3, <1>4, <1>7
  <2>3. OpenerOK'
    BY <1>1, <1>4, <2>1, <2>2 DEF OpenerOK, Doing
  <2> QED
    BY <1>3, <2>3, OpenerStep
<1> QED
  BY <1>5, <1>6, <1>7

LEMMA DownKeepsInv ==
  ASSUME DbInv, opener' = Down, UNCHANGED <<db, copies, base>>
  PROVE  DbInv'
<1>1. OpenerOK'
  BY DEF OpenerOK, Opener, Down, Doing, OpenerPc
<1> QED
  BY <1>1, OpenerStep

LEMMA CreateKeepsInv ==
  ASSUME DbInv, Create
  PROVE  DbInv'
<1>1. PICK part \in Missing : db' = init(db, part)
  BY DEF Create
<1>2. UNCHANGED <<opener, copies, base>> /\ opener.at = "create"
  BY DEF Create, Doing
<1>3. /\ FileOK(db) /\ OpenerOK /\ opener.release # 0
      /\ New \/ (Current /\ db.bound /\ opener.stored # 0)
  BY <1>2 DEF DbInv, OpenerOK, Doing
<1>4. part \in Parts(opener.release)
  BY DEF Missing
<1>5. /\ FileOK(db') /\ Deleted(db'.rows) = Deleted(db.rows)
      /\ db'.version = db.version /\ db'.bound = db.bound
  <2>1. db.version = opener.release \/ (db.version = 0 /\ opener.release = SCHEMA_VERSION)
    BY <1>3 DEF New, Current
  <2> QED
    BY <1>1, <1>3, <1>4, <2>1, CreatedFile
<1>6. OpenerOK'
  <2>1. (New \/ (Current /\ db.bound /\ opener.stored # 0))'
    BY <1>2, <1>3, <1>5 DEF New, Current
  <2> QED
    BY <1>2, <1>3, <2>1 DEF OpenerOK, Doing
<1> QED
  BY <1>2, <1>5, <1>6, FileStep

LEMMA CreatedKeepsInv ==
  ASSUME DbInv, Created
  PROVE  DbInv'
<1>1. UNCHANGED <<db, copies, base>> /\ opener.at = "create" /\ Missing = {}
  BY DEF Created, Doing
<1>2. OpenerOK /\ opener.release # 0 /\ (New \/ (Current /\ db.bound /\ opener.stored # 0))
  BY <1>1 DEF DbInv, OpenerOK, Doing
<1>3. CASE opener.stored = 0
  <2>1. Go("stamp")
    BY <1>3 DEF Created
  <2>2. /\ opener' \in Opener /\ opener'.at = "stamp" /\ opener'.release = opener.release
        /\ opener'.stored = opener.stored
    BY <1>2, <2>1, GoFacts DEF OpenerPc
  <2>3. New' /\ Missing' = {}
    BY <1>1, <1>2, <1>3, <2>2 DEF New, Missing
  <2>4. OpenerOK'
    BY <1>2, <2>2, <2>3 DEF OpenerOK, Doing
  <2> QED
    BY <1>1, <2>4, OpenerStep
<1>4. CASE opener.stored # 0
  <2>1. Go("serving")
    BY <1>4 DEF Created
  <2>2. /\ opener' \in Opener /\ opener'.at = "serving" /\ opener'.release = opener.release
        /\ opener'.stored = opener.stored
    BY <1>2, <2>1, GoFacts DEF OpenerPc
  <2>3. Current' /\ Missing' = {}
    BY <1>1, <1>2, <1>4, <2>2 DEF New, Current, Missing
  <2>4. db'.bound
    BY <1>1, <1>2, <1>4 DEF New
  <2>5. OpenerOK'
    BY <1>2, <2>2, <2>3, <2>4 DEF OpenerOK, Doing
  <2> QED
    BY <1>1, <2>5, OpenerStep
<1> QED
  BY <1>3, <1>4

LEMMA StampKeepsInv ==
  ASSUME DbInv, set_schema_version
  PROVE  DbInv'
<1>1. /\ opener.at = "stamp" /\ db' = [db EXCEPT !.version = opener.release] /\ Go("bind")
      /\ UNCHANGED <<copies, base>>
  BY DEF set_schema_version, Doing
<1>2. FileOK(db) /\ OpenerOK /\ New /\ Missing = {} /\ opener.release # 0
  BY <1>1 DEF DbInv, OpenerOK, Doing
<1>3. "tables" \in db.parts
  BY <1>2 DEF Missing, Parts
<1>4. db' = [db EXCEPT !.version = SCHEMA_VERSION] /\ db.version = 0
  BY <1>1, <1>2 DEF New
<1>5. /\ FileOK(db') /\ Deleted(db'.rows) = Deleted(db.rows)
      /\ db'.version = SCHEMA_VERSION /\ db'.parts = db.parts
  BY <1>2, <1>3, <1>4, StampedFile
<1>6. /\ opener' \in Opener /\ opener'.at = "bind" /\ opener'.release = opener.release
  BY <1>1, <1>2, GoFacts DEF OpenerPc
<1>7. Current' /\ Missing' = {}
  BY <1>2, <1>5, <1>6 DEF New, Current, Missing
<1>8. OpenerOK'
  BY <1>2, <1>6, <1>7 DEF OpenerOK, Doing
<1>9. CopiesOK'
  BY <1>1 DEF DbInv, CopiesOK, Copied
<1>10. BaseOK'
  <2>1. base.version \in Nat /\ base.version <= 0 /\ Deleted(db.rows) = base.rows
    BY <1>4, VersionIsNat DEF DbInv, BaseOK
  <2>2. base'.version = 0 /\ base'.rows = base.rows
    BY <1>1, <2>1
  <2>3. 0 <= db'.version
    BY <1>5, MigrationAssumption
  <2> QED
    BY <1>5, <2>1, <2>2, <2>3 DEF BaseOK
<1> QED
  BY <1>5, <1>8, <1>9, <1>10 DEF DbInv

LEMMA BindKeepsInv ==
  ASSUME DbInv, bind_key
  PROVE  DbInv'
<1>1. opener.at = "bind" /\ db' = [db EXCEPT !.bound = TRUE] /\ Go("serving") /\ UNCHANGED <<copies, base>>
  BY DEF bind_key, Doing
<1>2. FileOK(db) /\ OpenerOK /\ Current /\ Missing = {} /\ opener.release # 0
  BY <1>1 DEF DbInv, OpenerOK, Doing
<1>3. /\ FileOK(db') /\ Deleted(db'.rows) = Deleted(db.rows)
      /\ db'.version = db.version /\ db'.parts = db.parts /\ db'.bound
  BY <1>1, <1>2, BoundFile
<1>4. opener' \in Opener /\ opener'.at = "serving" /\ opener'.release = opener.release
  BY <1>1, <1>2, GoFacts DEF OpenerPc
<1>5. Current' /\ Missing' = {}
  BY <1>2, <1>3, <1>4 DEF Current, Missing
<1>6. OpenerOK'
  BY <1>2, <1>3, <1>4, <1>5 DEF OpenerOK, Doing
<1> QED
  BY <1>1, <1>3, <1>6, FileStep

LEMMA CheckKeyKeepsInv ==
  ASSUME DbInv, CheckKey
  PROVE  DbInv'
<1>1. opener.at = "check key" /\ db' = [db EXCEPT !.bound = TRUE] /\ UNCHANGED <<copies, base>>
  BY DEF CheckKey, Doing
<1>2. /\ FileOK(db) /\ OpenerOK /\ opener.release # 0
      /\ opener.stored = db.version /\ db.version # 0 /\ db.version <= opener.release
      /\ opener.step = db.version /\ base.version <= opener.stored
  BY <1>1 DEF DbInv, OpenerOK, Doing
<1>3. /\ FileOK(db') /\ Deleted(db'.rows) = Deleted(db.rows)
      /\ db'.version = db.version /\ db'.parts = db.parts /\ db'.bound
  BY <1>1, <1>2, BoundFile
<1>4. opener.stored \in Nat /\ opener.release \in Nat
  BY <1>2, OpenerFacts
<1>5. CASE opener.stored < opener.release
  <2>1. Go("backup")
    BY <1>5 DEF CheckKey
  <2>2. /\ opener' \in Opener /\ opener'.at = "backup" /\ opener'.release = opener.release
        /\ opener'.stored = opener.stored /\ opener'.step = opener.step
    BY <1>2, <2>1, GoFacts DEF OpenerPc
  <2>3. Upgrades' /\ opener'.step = db'.version /\ base'.version <= opener'.stored
    BY <1>1, <1>2, <1>3, <1>5, <2>2 DEF Upgrades
  <2>4. OpenerOK'
    BY <1>2, <2>2, <2>3 DEF OpenerOK, Doing
  <2> QED
    BY <1>1, <1>3, <2>4, FileStep
<1>6. CASE ~(opener.stored < opener.release)
  <2>1. Go("create")
    BY <1>6 DEF CheckKey
  <2>2. /\ opener' \in Opener /\ opener'.at = "create" /\ opener'.release = opener.release
        /\ opener'.stored = opener.stored
    BY <1>2, <2>1, GoFacts DEF OpenerPc
  <2>3. Current' /\ opener'.stored # 0
    BY <1>2, <1>3, <1>4, <1>6, <2>2 DEF Current
  <2>4. OpenerOK'
    BY <1>2, <1>3, <2>2, <2>3 DEF OpenerOK, Doing
  <2> QED
    BY <1>1, <1>3, <2>4, FileStep
<1> QED
  BY <1>5, <1>6

(* The backup: the copy of the version the file is at is made anew.        *)
LEMMA CopiesStep ==
  ASSUME DbInv, opener.stored = db.version, NEW c, c \in {NoFile, Partial} \/ c = db,
         db.version # 0, copies' = [copies EXCEPT ![Name(opener.stored)] = c], UNCHANGED <<db, base>>
  PROVE  CopiesOK' /\ BaseOK'
<1>1. FileOK(db) /\ db.version \in Versions
  BY FileFacts DEF DbInv
<1>2. DOMAIN copies' = Versions /\ copies'[db.version] = c
  BY <1>1 DEF DbInv, CopiesOK, Name
<1>3. \A v \in Versions \ {db.version} : copies'[v] = copies[v]
  BY DEF DbInv, CopiesOK, Name
<1>4. CopiesOK'
  <2>1. ASSUME NEW v \in Versions, Copied(v)'
        PROVE  FileOK(copies'[v]) /\ copies'[v].version = v
    <3>1. CASE v = db.version
      BY <1>1, <1>2, <2>1, <3>1 DEF Copied
    <3>2. CASE v # db.version
      BY <1>3, <2>1, <3>2 DEF DbInv, CopiesOK, Copied
    <3> QED
      BY <3>1, <3>2
  <2> QED
    BY <1>2, <2>1 DEF CopiesOK
<1>5. BaseOK'
  <2>1. /\ base.version \in {0} \cup Versions /\ base.version <= db.version /\ Deleted(db.rows) = base.rows
        /\ base.version \notin {0, db.version} =>
             Copied(base.version) /\ Deleted(copies[base.version].rows) = base.rows
    BY DEF DbInv, BaseOK
  <2>2. base.version \notin {0, db.version} => copies'[base.version] = copies[base.version]
    BY <1>3, <2>1
  <2> QED
    BY <2>1, <2>2 DEF BaseOK, Copied
<1> QED
  BY <1>4, <1>5

LEMMA BackupFacts ==
  ASSUME DbInv, opener.at \in {"backup", "vacuum"}
  PROVE  /\ FileOK(db) /\ OpenerOK /\ opener.release # 0 /\ Upgrades
         /\ opener.step = db.version /\ base.version <= opener.stored
BY DEF DbInv, OpenerOK, Doing

LEMMA RemoveBackupKeepsInv ==
  ASSUME DbInv, RemoveBackup
  PROVE  DbInv'
<1>1. /\ opener.at = "backup" /\ Go("vacuum") /\ UNCHANGED <<db, base>>
      /\ copies' = [copies EXCEPT ![Name(opener.stored)] = NoFile]
  BY DEF RemoveBackup, Doing
<1>2. /\ FileOK(db) /\ OpenerOK /\ opener.release # 0 /\ Upgrades
      /\ opener.step = db.version /\ base.version <= opener.stored
  BY <1>1, BackupFacts
<1>3. CopiesOK' /\ BaseOK'
  BY <1>1, <1>2, CopiesStep DEF Upgrades
<1>4. /\ opener' \in Opener /\ opener'.at = "vacuum" /\ opener'.release = opener.release
      /\ opener'.stored = opener.stored /\ opener'.step = opener.step
  BY <1>1, <1>2, GoFacts DEF OpenerPc
<1>5. Upgrades' /\ opener'.step = db'.version /\ base'.version <= opener'.stored
  BY <1>1, <1>2, <1>4 DEF Upgrades
<1>6. OpenerOK'
  BY <1>2, <1>4, <1>5 DEF OpenerOK, Doing
<1> QED
  BY <1>1, <1>2, <1>3, <1>6 DEF DbInv

LEMMA VacuumBeginsKeepsInv ==
  ASSUME DbInv, VacuumBegins
  PROVE  DbInv'
<1>1. /\ opener.at = "vacuum" /\ UNCHANGED <<db, base, opener>>
      /\ copies' = [copies EXCEPT ![Name(opener.stored)] = Partial]
  BY DEF VacuumBegins, Doing
<1>2. /\ FileOK(db) /\ OpenerOK /\ opener.release # 0 /\ Upgrades
      /\ opener.step = db.version /\ base.version <= opener.stored
  BY <1>1, BackupFacts
<1>3. CopiesOK' /\ BaseOK'
  BY <1>1, <1>2, CopiesStep DEF Upgrades
<1>4. Upgrades' /\ opener'.step = db'.version /\ base'.version <= opener'.stored
  BY <1>1, <1>2 DEF Upgrades
<1>5. OpenerOK'
  BY <1>1, <1>2, <1>4 DEF OpenerOK, Doing
<1> QED
  BY <1>1, <1>2, <1>3, <1>5 DEF DbInv

LEMMA VacuumEndsKeepsInv ==
  ASSUME DbInv, VacuumEnds
  PROVE  DbInv'
<1>1. /\ opener.at = "vacuum" /\ Go("migrate") /\ UNCHANGED <<db, base>>
      /\ copies' = [copies EXCEPT ![Name(opener.stored)] = db]
  BY DEF VacuumEnds, Doing
<1>2. /\ FileOK(db) /\ OpenerOK /\ opener.release # 0 /\ Upgrades
      /\ opener.step = db.version /\ base.version <= opener.stored
  BY <1>1, BackupFacts
<1>3. CopiesOK' /\ BaseOK'
  BY <1>1, <1>2, CopiesStep DEF Upgrades
<1>4. /\ opener' \in Opener /\ opener'.at = "migrate" /\ opener'.release = opener.release
      /\ opener'.stored = opener.stored /\ opener'.step = opener.step
  BY <1>1, <1>2, GoFacts DEF OpenerPc
<1>5. Copied(opener.stored)' /\ Deleted(copies'[opener'.stored].rows) = base'.rows
  <2>1. opener.stored \in Versions /\ DOMAIN copies = Versions
    BY <1>2, FileFacts DEF Upgrades, DbInv, CopiesOK
  <2>2. copies'[opener'.stored] = db
    BY <1>1, <1>4, <2>1 DEF Name
  <2>3. db \notin {NoFile, Partial}
    BY <1>2, FilesAreFiles
  <2>4. Deleted(db.rows) = base.rows
    BY DEF DbInv, BaseOK
  <2> QED
    BY <1>1, <2>2, <2>3, <2>4 DEF Copied
<1>6. /\ opener'.step = db'.version /\ db'.version # 0 /\ db'.version <= opener'.release
      /\ base'.version <= opener'.stored /\ opener'.stored <= db'.version /\ opener'.stored # 0
  <2>1. db.version \in Nat /\ opener.release \in Nat
    BY <1>2, FileFacts, OpenerFacts
  <2> QED
    BY <1>1, <1>2, <1>4, <2>1 DEF Upgrades
<1>7. db'.bound
  BY <1>1, <1>2 DEF Upgrades
<1>8. OpenerOK'
  BY <1>2, <1>4, <1>5, <1>6, <1>7 DEF OpenerOK, Doing
<1> QED
  BY <1>1, <1>2, <1>3, <1>8 DEF DbInv

(* A step of MIGRATIONS: from here on the copy is what leads back.         *)
LEMMA MigrateKeepsInv ==
  ASSUME DbInv, Migrate
  PROVE  DbInv'
<1>1. opener.at = "migrate" /\ opener.step < opener.release /\ UNCHANGED <<copies, base>>
  BY DEF Migrate, Doing
<1>2. /\ FileOK(db) /\ OpenerOK /\ opener.release # 0
      /\ opener.step = db.version /\ db.version # 0 /\ db.version <= opener.release
      /\ base.version <= opener.stored /\ opener.stored <= db.version /\ opener.stored # 0
      /\ Copied(opener.stored) /\ Deleted(copies[opener.stored].rows) = base.rows
  BY <1>1 DEF DbInv, OpenerOK, Doing
<1>b. db.bound
  BY <1>1 DEF DbInv, OpenerOK, Doing
<1>3. /\ db.version \in Nat /\ db.version \in Versions /\ opener.release \in Nat /\ opener.stored \in Nat
      /\ opener.release \in Versions
  BY <1>2, FileFacts, OpenerFacts, VersionFacts
<1>v. PICK v : v = db.version + 1
  OBVIOUS
<1>4. v \in Versions /\ v <= opener.release /\ v # 0 /\ v \in Nat
  BY <1>1, <1>2, <1>3, <1>v, MigrationAssumption DEF Versions
<1>5. Runs(db, v)
  BY <1>2, <1>v, StepRuns
<1>6. db' = Stamped(Step(db, v), v) /\ opener' = [opener EXCEPT !.step = v]
  BY <1>2, <1>5, <1>v DEF Migrate
<1>7. FileOK(db') /\ Deleted(db'.rows) = Deleted(db.rows) /\ db'.version = v /\ db'.bound = db.bound
  BY <1>2, <1>4, <1>6, <1>v, MigratedFile
<1>8. /\ opener' \in Opener /\ opener'.at = "migrate" /\ opener'.step = v
      /\ opener'.release = opener.release /\ opener'.stored = opener.stored
  BY <1>1, <1>2, <1>4, <1>6 DEF OpenerOK, Opener
<1>9. OpenerOK'
  <2>1. /\ opener'.step = db'.version /\ db'.version # 0 /\ db'.version <= opener'.release
        /\ base'.version <= opener'.stored /\ opener'.stored <= db'.version /\ opener'.stored # 0
    BY <1>1, <1>2, <1>3, <1>4, <1>7, <1>8, <1>v
  <2>2. Copied(opener.stored)' /\ Deleted(copies'[opener'.stored].rows) = base'.rows
    BY <1>1, <1>2, <1>8 DEF Copied
  <2>3. db'.bound
    BY <1>b, <1>7
  <2> QED
    BY <1>2, <1>8, <2>1, <2>2, <2>3 DEF OpenerOK, Doing
<1>10. CopiesOK'
  BY <1>1 DEF DbInv, CopiesOK, Copied
<1>11. BaseOK'
  <2>1. /\ base.version \in {0} \cup Versions /\ base.version <= db.version /\ Deleted(db.rows) = base.rows
        /\ base.version \notin {0, db.version} =>
             Copied(base.version) /\ Deleted(copies[base.version].rows) = base.rows
    BY DEF DbInv, BaseOK
  <2>2. base.version \in Nat
    BY <2>1, VersionIsNat
  <2>3. base.version = db.version => base.version = opener.stored
    BY <1>2, <1>3, <2>2
  <2>4. base.version # 0 => Copied(base.version) /\ Deleted(copies[base.version].rows) = base.rows
    BY <1>2, <2>1, <2>3
  <2>5. base'.version <= db'.version
    BY <1>1, <1>3, <1>7, <1>v, <2>1, <2>2
  <2> QED
    BY <1>1, <1>7, <2>1, <2>4, <2>5 DEF BaseOK, Copied
<1> QED
  BY <1>7, <1>9, <1>10, <1>11 DEF DbInv

LEMMA MigratedKeepsInv ==
  ASSUME DbInv, Migrated
  PROVE  DbInv'
<1>1. opener.at = "migrate" /\ opener.step = opener.release /\ UNCHANGED <<db, copies, base>>
  BY DEF Migrated, Doing
<1>2. /\ OpenerOK /\ opener.release # 0 /\ opener.step = db.version /\ db.version # 0
      /\ opener.stored # 0
  BY <1>1 DEF DbInv, OpenerOK, Doing
<1>b. db.bound
  BY <1>1 DEF DbInv, OpenerOK, Doing
<1>3. Go("create")
  BY <1>1, <1>2 DEF Migrated
<1>4. /\ opener' \in Opener /\ opener'.at = "create" /\ opener'.release = opener.release
      /\ opener'.stored = opener.stored
  BY <1>2, <1>3, GoFacts DEF OpenerPc
<1>5. Current' /\ opener'.stored # 0
  BY <1>1, <1>2, <1>4 DEF Current
<1>6. db'.bound
  BY <1>1, <1>b
<1>7. OpenerOK'
  BY <1>2, <1>4, <1>5, <1>6 DEF OpenerOK, Doing
<1> QED
  BY <1>1, <1>7, OpenerStep

-----------------------------------------------------------------------------
(* Using the file.                                                         *)
LEMMA ServingFacts ==
  ASSUME DbInv, Doing("serving")
  PROVE  /\ FileOK(db) /\ OpenerOK /\ opener.release # 0 /\ Current /\ Missing = {} /\ db.bound
         /\ db.version # 0 /\ db.version \in Versions /\ db.version \in Nat
         /\ db.version >= Numbered => "triggers" \in db.parts
<1>1. FileOK(db) /\ OpenerOK /\ opener.release # 0 /\ Current /\ Missing = {} /\ opener.at = "serving"
  BY DEF DbInv, OpenerOK, Doing
<1>2. db.bound
  BY DEF DbInv, OpenerOK
<1>3. db.version # 0 /\ db.version \in Versions /\ db.version \in Nat
  BY <1>1, FileFacts DEF Current
<1>4. db.version >= Numbered => "triggers" \in db.parts
  BY <1>1 DEF Current, Missing, Parts
<1> QED
  BY <1>1, <1>2, <1>3, <1>4

LEMMA WriteKeepsInv ==
  ASSUME DbInv, Doing("serving"), NEW g, FileOK(g), g.version = db.version, g.parts = db.parts,
         g.bound = db.bound, Written(g)
  PROVE  DbInv'
<1>1. /\ db' = g /\ base'.version = opener.release /\ base'.rows = Deleted(g.rows)
      /\ UNCHANGED <<copies, opener>>
  BY DEF Written
<1>2. /\ FileOK(db) /\ OpenerOK /\ opener.release # 0 /\ Current /\ Missing = {}
      /\ db.version # 0 /\ db.version \in Versions /\ db.version \in Nat
  BY ServingFacts
<1>3. db.bound
  BY ServingFacts
<1>4. Current' /\ Missing' = {}
  BY <1>1, <1>2 DEF Current, Missing
<1>5. db'.bound
  BY <1>1, <1>3
<1>6. OpenerOK'
  BY <1>1, <1>2, <1>4, <1>5 DEF OpenerOK, Doing
<1>7. CopiesOK'
  BY <1>1 DEF DbInv, CopiesOK, Copied
<1>8. BaseOK'
  BY <1>1, <1>2 DEF BaseOK, Current
<1> QED
  BY <1>1, <1>6, <1>7, <1>8 DEF DbInv

LEMMA CopyKeepsInv ==
  ASSUME DbInv, Copy
  PROVE  DbInv'
<1>1. /\ FileOK(db) /\ db.version # 0 /\ db.version \in Versions /\ db.version \in Nat
      /\ db.version >= Numbered => "triggers" \in db.parts
  BY ServingFacts DEF Copy
<1>s. PICK S \in SUBSET (1..MaxId) : S = DOMAIN db.rows /\ db.rows \in [S -> DbRow]
  BY <1>1, FileFacts
<1>i. PICK id : id = Last(S) + 1
  OBVIOUS
<1>2. /\ Last(S) \in 0..MaxId /\ \A i \in S : i <= Last(S)
      /\ Last(S) < MaxId
  BY <1>s, LastId DEF Copy
<1>3. id \in 1..MaxId /\ id \notin S
  BY <1>i, <1>2, MigrationAssumption
<1>r. PICK rs : rs = [i \in S \cup {id} |-> IF i = id THEN [deleted |-> FALSE, seq |-> 0] ELSE db.rows[i]]
  OBVIOUS
<1>n. PICK row : row = [deleted |-> FALSE, seq |-> 0]
  OBVIOUS
<1>4. row \in DbRow /\ ~row.deleted
  BY <1>n DEF DbRow
<1>5. /\ rs \in [S \cup {id} -> DbRow] /\ rs[id] = row
      /\ \A i \in S : rs[i] = db.rows[i]
  BY <1>s, <1>r, <1>n, <1>3, <1>4
<1>x. PICK ix \in SUBSET (1..MaxId) : ix = db.index \cup {id}
  BY <1>1, <1>3, FileFacts
<1>6. ix = Live(rs)
  <2>1. db.index = {i \in S : ~db.rows[i].deleted}
    BY <1>1, <1>s DEF FileOK, Live
  <2>2. DOMAIN rs = S \cup {id}
    BY <1>5
  <2> QED
    BY <1>x, <1>3, <1>4, <1>5, <2>1, <2>2 DEF Live
<1>h. PICK h : h = [db EXCEPT !.rows = rs, !.index = ix]
  OBVIOUS
<1>7. Written(Triggered(h, id)) /\ Doing("serving")
  BY <1>s, <1>i, <1>r, <1>x, <1>h DEF Copy
<1>8. h \in DbFile
  <2>1. db \in DbFile
    BY <1>1 DEF FileOK
  <2>2. S \cup {id} \in SUBSET (1..MaxId)
    BY <1>3
  <2>3. rs \in UNION {[T -> DbRow] : T \in SUBSET (1..MaxId)}
    BY <1>5, <2>2
  <2> QED
    BY <1>h, <2>1, <2>3 DEF DbFile
<1>9. /\ h.version = db.version /\ h.columns = db.columns /\ h.parts = db.parts /\ h.index = ix
      /\ h.rows = rs /\ h.counter = db.counter
  BY <1>1, <1>h DEF FileOK, DbFile
<1>10. h.bound = db.bound
  BY <1>1, <1>h DEF FileOK, DbFile
<1>11. h.version >= Numbered =>
         /\ \A j, k \in DOMAIN h.rows \ {id} : h.rows[j].seq = h.rows[k].seq => j = k
         /\ \A j \in DOMAIN h.rows \ {id} : h.rows[j].seq \in 1..h.counter
  <2> HAVE h.version >= Numbered
  <2>1. Numbers(db)
    BY <1>1, <1>9 DEF FileOK
  <2>2. DOMAIN h.rows \ {id} = S
    BY <1>3, <1>5, <1>9
  <2>3. /\ \A j, k \in S : db.rows[j].seq = db.rows[k].seq => j = k
        /\ \A j \in S : db.rows[j].seq \in 1..db.counter
    BY <2>1, <1>s DEF Numbers
  <2> QED
    BY <1>5, <1>9, <2>2, <2>3
<1>g. PICK g : g = Triggered(h, id)
  OBVIOUS
<1>12. FileOK(g) /\ g.version = h.version /\ g.parts = h.parts /\ g.bound = h.bound
  <2>1. id \in DOMAIN h.rows /\ h.columns = Columns(h.version) /\ h.index = Live(h.rows)
    BY <1>1, <1>5, <1>6, <1>9 DEF FileOK
  <2>2. h.version # 0 /\ (h.version >= Numbered => "triggers" \in h.parts)
    BY <1>1, <1>9
  <2> QED
    BY <1>8, <1>11, <1>g, <2>1, <2>2, TriggeredFile
<1>13. g.version = db.version /\ g.parts = db.parts /\ Written(g)
  BY <1>7, <1>9, <1>12, <1>g
<1>14. g.bound = db.bound
  BY <1>10, <1>12
<1> QED
  BY <1>7, <1>12, <1>13, <1>14, WriteKeepsInv

LEMMA TombstoneKeepsInv ==
  ASSUME DbInv, NEW i \in 1..MaxId, Tombstone(i)
  PROVE  DbInv'
<1>1. /\ FileOK(db) /\ db.version # 0 /\ db.version \in Versions /\ db.version \in Nat
      /\ db.version >= Numbered => "triggers" \in db.parts
  BY ServingFacts DEF Tombstone
<1>s. PICK S \in SUBSET (1..MaxId) : S = DOMAIN db.rows /\ db.rows \in [S -> DbRow]
  BY <1>1, FileFacts
<1>2. i \in S
  BY <1>s DEF Tombstone, Live
<1>n. PICK row : row = [db.rows[i] EXCEPT !.deleted = TRUE]
  OBVIOUS
<1>3. db.rows[i] \in DbRow
  BY <1>s, <1>2
<1>4. row \in DbRow /\ row.deleted
  BY <1>n, <1>3 DEF DbRow
<1>r. PICK rs : rs = [db.rows EXCEPT ![i] = row]
  OBVIOUS
<1>5. rs \in [S -> DbRow] /\ rs[i] = row /\ \A j \in S \ {i} : rs[j] = db.rows[j]
  BY <1>s, <1>r, <1>2, <1>4
<1>x. PICK ix \in SUBSET (1..MaxId) : ix = db.index \ {i}
  BY <1>1, FileFacts
<1>6. ix = Live(rs)
  <2>1. db.index = {j \in S : ~db.rows[j].deleted}
    BY <1>1, <1>s DEF FileOK, Live
  <2>2. DOMAIN rs = S
    BY <1>5
  <2> QED
    BY <1>x, <1>4, <1>5, <2>1, <2>2 DEF Live
<1>h. PICK h : h = [db EXCEPT !.rows = rs, !.index = ix]
  OBVIOUS
<1>7. Written(Triggered(h, i)) /\ Doing("serving")
  <2>1. h = [db EXCEPT !.rows[i].deleted = TRUE, !.index = @ \ {i}]
    BY <1>n, <1>r, <1>x, <1>h
  <2> QED
    BY <2>1 DEF Tombstone
<1>8. h \in DbFile
  <2>1. db \in DbFile
    BY <1>1 DEF FileOK
  <2>2. rs \in UNION {[T -> DbRow] : T \in SUBSET (1..MaxId)}
    BY <1>5
  <2> QED
    BY <1>h, <2>1, <2>2 DEF DbFile
<1>9. /\ h.version = db.version /\ h.columns = db.columns /\ h.parts = db.parts /\ h.index = ix
      /\ h.rows = rs /\ h.counter = db.counter
  BY <1>1, <1>h DEF FileOK, DbFile
<1>10. h.bound = db.bound
  BY <1>1, <1>h DEF FileOK, DbFile
<1>11. h.version >= Numbered =>
         /\ \A j, k \in DOMAIN h.rows \ {i} : h.rows[j].seq = h.rows[k].seq => j = k
         /\ \A j \in DOMAIN h.rows \ {i} : h.rows[j].seq \in 1..h.counter
  <2> HAVE h.version >= Numbered
  <2>1. Numbers(db)
    BY <1>1, <1>9 DEF FileOK
  <2>2. DOMAIN h.rows = S
    BY <1>5, <1>9
  <2>3. /\ \A j, k \in S : db.rows[j].seq = db.rows[k].seq => j = k
        /\ \A j \in S : db.rows[j].seq \in 1..db.counter
    BY <2>1, <1>s DEF Numbers
  <2> QED
    BY <1>5, <1>9, <2>2, <2>3
<1>g. PICK g : g = Triggered(h, i)
  OBVIOUS
<1>12. FileOK(g) /\ g.version = h.version /\ g.parts = h.parts /\ g.bound = h.bound
  <2>1. i \in DOMAIN h.rows /\ h.columns = Columns(h.version) /\ h.index = Live(h.rows)
    BY <1>1, <1>2, <1>5, <1>6, <1>9 DEF FileOK
  <2>2. h.version # 0 /\ (h.version >= Numbered => "triggers" \in h.parts)
    BY <1>1, <1>9
  <2> QED
    BY <1>8, <1>11, <1>g, <2>1, <2>2, TriggeredFile
<1>13. g.version = db.version /\ g.parts = db.parts /\ Written(g)
  BY <1>7, <1>9, <1>12, <1>g
<1>14. g.bound = db.bound
  BY <1>10, <1>12
<1> QED
  BY <1>7, <1>12, <1>13, <1>14, WriteKeepsInv

LEMMA PutBackKeepsInv ==
  ASSUME DbInv, NEW v \in Versions, PutBack(v)
  PROVE  DbInv'
<1>1. /\ opener.at = "down" /\ Copied(v) /\ db' = copies[v] /\ UNCHANGED <<copies, opener>>
      /\ base'.version = copies[v].version /\ base'.rows = Deleted(copies[v].rows)
  BY DEF PutBack, Doing, Copied
<1>2. FileOK(copies[v]) /\ copies[v].version = v
  BY <1>1 DEF DbInv, CopiesOK
<1>3. OpenerOK'
  BY <1>1 DEF DbInv, OpenerOK, Doing
<1>4. CopiesOK'
  BY <1>1 DEF DbInv, CopiesOK, Copied
<1>5. BaseOK'
  BY <1>1, <1>2, VersionFacts DEF BaseOK
<1> QED
  BY <1>1, <1>2, <1>3, <1>4, <1>5 DEF DbInv

-----------------------------------------------------------------------------
LEMMA DbInvStep ==
  ASSUME DbInv, [DbNext]_dbVars
  PROVE  DbInv'
<1>1. CASE UNCHANGED dbVars
  <2>1. OpenerOK' /\ UNCHANGED <<db, copies, base>>
    BY <1>1 DEF dbVars, DbInv, OpenerOK, Doing, New, Upgrades, Current, Missing, Copied
  <2> QED
    BY <2>1, OpenerStep
<1>2. CASE Fault \/ Stop
  BY <1>2, DownKeepsInv DEF Fault, Stop
<1> QED
  BY <1>1, <1>2, PrepareKeepsInv, CreateKeepsInv, CreatedKeepsInv, StampKeepsInv, BindKeepsInv,
     CheckKeyKeepsInv, RemoveBackupKeepsInv, VacuumBeginsKeepsInv, VacuumEndsKeepsInv,
     MigrateKeepsInv, MigratedKeepsInv, CopyKeepsInv, TombstoneKeepsInv, PutBackKeepsInv
     DEF DbNext

LEMMA DbInvHolds == DbSpec => []DbInv
<1>1. DbInit => DbInv
  BY DbInitInv
<1>2. DbInv /\ [DbNext]_dbVars => DbInv'
  BY DbInvStep
<1> QED
  BY <1>1, <1>2, PTL DEF DbSpec

(* Database::prepare: wherever a start was cut short, the next takes it up *)
(* where it stopped, and a history that is in use misses nothing.          *)
THEOREM UpgradesResume == DbSpec => []UpgradeResumes
<1>1. DbInv => UpgradeResumes
  <2> HAVE DbInv
  <2>1. ~Doing("failed")
    BY DEF DbInv, OpenerOK, Opener, OpenerPc, Doing
  <2>2. ASSUME Doing("serving")
        PROVE  Whole
    <3>1. FileOK(db) /\ Current /\ Missing = {} /\ db.version # 0
      BY <2>2, ServingFacts
    <3>2. db.bound
      BY <2>2, ServingFacts
    <3>3. db.version = opener.release /\ db.columns = Columns(opener.release)
      BY <3>1 DEF Current, FileOK
    <3>4. Deleted(db.rows) = base.rows
      BY DEF DbInv, BaseOK
    <3>5. db.index = Live(db.rows) /\ (db.version >= Numbered => Numbers(db))
      BY <3>1 DEF FileOK
    <3> QED
      BY <3>1, <3>2, <3>3, <3>4, <3>5 DEF Whole, Numbers
  <2> QED
    BY <2>1, <2>2 DEF UpgradeResumes
<1> QED
  BY <1>1, DbInvHolds, PTL

(* backup_before_migration: until the new release writes, a complete copy  *)
(* of what the old one wrote is there.                                     *)
THEOREM WayBackStays == DbSpec => []WayBack
<1>1. DbInv => WayBack
  <2> HAVE DbInv
  <2>1. SUFFICES ASSUME base.version \notin {0, db.version}
                 PROVE  \E v \in Versions :
                          /\ copies[v] \notin {NoFile, Partial}
                          /\ copies[v].version = base.version /\ Deleted(copies[v].rows) = base.rows
    BY DEF WayBack
  <2>2. base.version \in Versions /\ Copied(base.version) /\ Deleted(copies[base.version].rows) = base.rows
    BY <2>1 DEF DbInv, BaseOK
  <2>3. copies[base.version].version = base.version
    BY <2>2 DEF DbInv, CopiesOK
  <2> QED
    BY <2>2, <2>3 DEF Copied
<1> QED
  BY <1>1, DbInvHolds, PTL
=============================================================================
