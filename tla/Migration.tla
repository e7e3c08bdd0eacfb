----------------------------- MODULE Migration ------------------------------
(* The schema of history.db across releases (panora-core, storage/db.rs:   *)
(* Database::open and prepare): a new file is made in several commits, an  *)
(* old one is copied and then migrated step by step, and a process may die *)
(* or run out of disk between any two of them.  The user may go back to    *)
(* the old release and put its copy back.                                  *)
(*                                                                         *)
(* An old release is this code with a lower schema version.  The key is    *)
(* the right one (Vault has the rest of check_key).                        *)
EXTENDS Naturals, FiniteSetsExt

CONSTANTS
  Old,             \* schema version of the release an old file is from
  SCHEMA_VERSION,  \* and of this one, which is higher
  MaxId,           \* bound: row ids
  MaxFaults        \* bound: crashes and failed writes

VARIABLES
  db,      \* history.db: meta, what was created, the rows, the search index
  copies,  \* history.db.bak-vN, by N
  opener,  \* the process that has the file open
  base,    \* history: the rows as last written, and the version they were written at
  faults

dbVars == <<db, copies, opener, base, faults>>

NoFile == [is |-> "no file"]
Partial == [is |-> "part of a file"]
Versions == Old..SCHEMA_VERSION
Releases == {Old, SCHEMA_VERSION}

\* The version from which rows are numbered for the sync feed.
Numbered == 5

(* No schema has version 0: that is a file without one.  Numbering the     *)
(* rows is the newest step, so that the rows of an old release have none.  *)
ASSUME MigrationAssumption ==
  /\ Old \in Nat \ {0} /\ SCHEMA_VERSION \in Nat
  /\ Old < SCHEMA_VERSION /\ Old < Numbered
  /\ MaxId \in Nat /\ MaxFaults \in Nat

Columns(r) == 2..r
Parts(r) == {"tables", "search"} \cup IF r >= Numbered THEN {"triggers"} ELSE {}

Live(rs) == {i \in DOMAIN rs : ~rs[i].deleted}
Deleted(rs) == [i \in DOMAIN rs |-> rs[i].deleted]
Last(S) == Max(S \cup {0})

NewFile == [version |-> 0, columns |-> {}, parts |-> {}, bound |-> FALSE,
            rows |-> [i \in {} |-> 0], counter |-> 0, index |-> {}]

\* A file an old release has used, in which purges have left gaps; before
\* fingerprints were stored it was not bound to a key.
OldFile(deleted, bound) ==
  [version |-> Old, columns |-> Columns(Old), parts |-> Parts(Old), bound |-> bound,
   rows |-> [i \in DOMAIN deleted |-> [deleted |-> deleted[i], seq |-> 0]],
   counter |-> 0, index |-> {i \in DOMAIN deleted : ~deleted[i]}]

Down == [at |-> "down", release |-> 0, stored |-> 0, step |-> 0]

DbInit ==
  /\ db \in {NewFile} \cup {OldFile(d, b) : d \in UNION {[S -> BOOLEAN] : S \in SUBSET (1..MaxId)},
                                            b \in BOOLEAN}
  /\ copies = [v \in Versions |-> NoFile]
  /\ opener = Down
  /\ base = [version |-> db.version, rows |-> Deleted(db.rows)]
  /\ faults = MaxFaults

-----------------------------------------------------------------------------
(* Database::prepare.                                                      *)
Doing(pc) == opener.at = pc
Go(pc) == opener' = [opener EXCEPT !.at = pc]

\* An old release comes first or not at all.
Prepare(r) ==
  /\ Doing("down") /\ (db.version = 0 => r = SCHEMA_VERSION)
  /\ opener' = [at |-> CASE db.version = 0 -> "create"
                         [] db.version > r -> "newer"
                         [] OTHER -> "check key",
                release |-> r, stored |-> db.version, step |-> db.version]
  /\ UNCHANGED <<db, copies, base, faults>>

\* init, one batch after another; each creates what is not there yet.
Missing == Parts(opener.release) \ db.parts

init(f, part) ==
  [f EXCEPT !.parts = @ \cup {part},
            !.columns = IF part = "tables" THEN Columns(opener.release) ELSE @]

Create ==
  /\ Doing("create") /\ Missing # {}
  /\ \E part \in Missing :
       /\ part # "tables" => "tables" \notin Missing
       /\ part = "search" => "triggers" \notin Missing
       /\ db' = init(db, part)
  /\ UNCHANGED <<copies, opener, base, faults>>

Created ==
  /\ Doing("create") /\ Missing = {}
  /\ Go(IF opener.stored = 0 THEN "stamp" ELSE "serving")
  /\ UNCHANGED <<db, copies, base, faults>>

set_schema_version ==
  /\ Doing("stamp")
  /\ db' = [db EXCEPT !.version = opener.release]
  /\ Go("bind")
  /\ UNCHANGED <<copies, base, faults>>

bind_key ==
  /\ Doing("bind")
  /\ db' = [db EXCEPT !.bound = TRUE]
  /\ Go("serving")
  /\ UNCHANGED <<copies, base, faults>>

CheckKey ==
  /\ Doing("check key")
  /\ db' = [db EXCEPT !.bound = TRUE]
  /\ Go(IF opener.stored < opener.release THEN "backup" ELSE "create")
  /\ UNCHANGED <<copies, base, faults>>

\* backup_before_migration: the copy is named after the version it is of.
\* Mutant: after the version the file is brought to.
Name_Target(stored) == opener.release
Name(stored) == stored

RemoveBackup ==
  /\ Doing("backup")
  /\ copies' = [copies EXCEPT ![Name(opener.stored)] = NoFile]
  /\ Go("vacuum")
  /\ UNCHANGED <<db, base, faults>>

VacuumBegins ==
  /\ Doing("vacuum") /\ copies[Name(opener.stored)] = NoFile
  /\ copies' = [copies EXCEPT ![Name(opener.stored)] = Partial]
  /\ UNCHANGED <<db, opener, base, faults>>

VacuumEnds ==
  /\ Doing("vacuum") /\ copies[Name(opener.stored)] = Partial
  /\ copies' = [copies EXCEPT ![Name(opener.stored)] = db]
  /\ Go("migrate")
  /\ UNCHANGED <<db, base, faults>>

\* MIGRATIONS.  The search index is made anew from the rows that are not
\* deleted; the rows are numbered by their ids, and the counter goes on
\* from there; the others add a column, which cannot be done twice.
rebuild_search_index(f) == [f EXCEPT !.index = Live(f.rows)]

number_rows(f) ==
  [f EXCEPT !.rows = [i \in DOMAIN f.rows |-> [f.rows[i] EXCEPT !.seq = i]],
            !.counter = Last(DOMAIN f.rows),
            !.parts = @ \cup {"triggers"}]

Step(f, v) ==
  LET g == [f EXCEPT !.columns = @ \cup {v}]
  IN  CASE v = 3 -> rebuild_search_index(g) [] v = Numbered -> number_rows(g) [] OTHER -> g

Runs(f, v) == v = 3 \/ v \notin f.columns

\* Mutant: every step writes the version that all of them end at.
Stamped_Target(f, v) == [f EXCEPT !.version = opener.release]
Stamped(f, v) == [f EXCEPT !.version = v]

\* A step and its version are one transaction.
Migrate ==
  /\ Doing("migrate") /\ opener.step < opener.release
  /\ LET v == opener.step + 1
     IN  IF Runs(db, v)
         THEN db' = Stamped(Step(db, v), v) /\ opener' = [opener EXCEPT !.step = v]
         ELSE Go("failed") /\ UNCHANGED db
  /\ UNCHANGED <<copies, base, faults>>

Migrated ==
  /\ Doing("migrate") /\ opener.step = opener.release
  /\ Go(IF db.version = opener.release THEN "create" ELSE "failed")
  /\ UNCHANGED <<db, copies, base, faults>>

\* The process dies, or a write fails and it gives up: a transaction that
\* is open is rolled back.
Fault ==
  /\ opener.at \notin {"down", "newer", "failed"} /\ faults > 0
  /\ faults' = faults - 1
  /\ opener' = Down
  /\ UNCHANGED <<db, copies, base>>

-----------------------------------------------------------------------------
(* Using the file.                                                         *)
Written(f) ==
  /\ db' = f
  /\ base' = [version |-> opener.release, rows |-> Deleted(f.rows)]
  /\ UNCHANGED <<copies, opener, faults>>

\* The triggers: an inserted or updated row takes the next number.
Triggered(f, i) ==
  IF "triggers" \in f.parts
  THEN [f EXCEPT !.counter = @ + 1, !.rows[i].seq = f.counter + 1]
  ELSE f

Copy ==
  /\ Doing("serving") /\ Last(DOMAIN db.rows) < MaxId
  /\ LET id == Last(DOMAIN db.rows) + 1
         rs == [i \in DOMAIN db.rows \cup {id} |->
                  IF i = id THEN [deleted |-> FALSE, seq |-> 0] ELSE db.rows[i]]
     IN  Written(Triggered([db EXCEPT !.rows = rs, !.index = @ \cup {id}], id))

Tombstone(i) ==
  /\ Doing("serving") /\ i \in Live(db.rows)
  /\ Written(Triggered([db EXCEPT !.rows[i].deleted = TRUE, !.index = @ \ {i}], i))

Stop ==
  /\ opener.at \in {"serving", "newer", "failed"}
  /\ opener' = Down
  /\ UNCHANGED <<db, copies, base, faults>>

\* Going back: the user puts a copy in the place of the file.
PutBack(v) ==
  /\ Doing("down") /\ db.version > v /\ copies[v] \notin {NoFile, Partial}
  /\ db' = copies[v]
  /\ base' = [version |-> copies[v].version, rows |-> Deleted(copies[v].rows)]
  /\ UNCHANGED <<copies, opener, faults>>

DbNext ==
  \/ \E r \in Releases : Prepare(r)
  \/ Create \/ Created \/ set_schema_version \/ bind_key
  \/ CheckKey \/ RemoveBackup \/ VacuumBegins \/ VacuumEnds \/ Migrate \/ Migrated
  \/ Fault \/ Copy \/ Stop
  \/ \E i \in 1..MaxId : Tombstone(i)
  \/ \E v \in Versions : PutBack(v)

DbSpec == DbInit /\ [][DbNext]_dbVars

-----------------------------------------------------------------------------
\* Nothing is missing from a file that is in use: columns, tables, triggers
\* and the key's fingerprint; every row as it was last written; every live
\* row and no other in the search index; and the rows numbered apart, with
\* no number ahead of the counter.
Whole ==
  /\ db.version = opener.release /\ db.columns = Columns(opener.release)
  /\ Missing = {} /\ db.bound
  /\ Deleted(db.rows) = base.rows
  /\ db.index = Live(db.rows)
  /\ db.version >= Numbered =>
       /\ \A i, j \in DOMAIN db.rows : db.rows[i].seq = db.rows[j].seq => i = j
       /\ \A i \in DOMAIN db.rows : db.rows[i].seq \in 1..db.counter

(* Wherever an earlier start was cut short, the next one takes it up where *)
(* it stopped: no step fails because it was done before, and once the      *)
(* history is in use nothing is missing from it (Database::prepare).       *)
UpgradeResumes == ~Doing("failed") /\ (Doing("serving") => Whole)

(* From the moment a file is on the way to another version, and until that *)
(* release writes to it, the way back is there: a complete copy of what    *)
(* the old release wrote (backup_before_migration), however often the      *)
(* migration is interrupted and begun again.                               *)
WayBack ==
  base.version \notin {0, db.version} =>
    \E v \in Versions :
      /\ copies[v] \notin {NoFile, Partial}
      /\ copies[v].version = base.version /\ Deleted(copies[v].rows) = base.rows
=============================================================================
