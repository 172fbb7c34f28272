----------------------------- MODULE StateStore -----------------------------
(***************************************************************************)
(* The runtime database on disk: which statements make a transaction, what *)
(* a failing statement, a disk I/O recovery, a crash and the adoption of a *)
(* database of an old version leave of it.  What the rows mean to a review *)
(* is the matter of ReviewRun and PhotoLedger.                             *)
(*                                                                         *)
(* Sources: adapters/state/processed_sqlite.py, utils/runtime_paths.py.    *)
(***************************************************************************)
EXTENDS Integers, Sequences

CONSTANTS
    Files,          \* photos
    MaxWrites,      \* bound: operations that write
    MaxErrors,      \* bound: disk I/O errors and failing statements
    MaxDeaths       \* bound: deaths of the process

ASSUME StoreAssumption == MaxWrites \in Nat /\ MaxErrors \in Nat /\ MaxDeaths \in Nat

VARIABLES
    disk,           \* the database files of the two places
    external,       \* the work directory is not in the photo directory
    process,        \* "closed", "moving" or "open"
    pending,        \* what the connection reads: its transaction included
    todo,           \* statements left of the operation, or files to move
    transaction,    \* "none", "open", "between" those of an operation, or "broken":
                    \* a recovery may have dropped what the operation has done
    doomed,         \* a failed operation still holds the write lock
    writes, errors, deaths,
    first           \* the old content, what the first opening found, and whether no
                    \* death came between the moves

storeVars == <<disk, external, process, pending, todo, transaction, doomed, writes, errors, deaths,
               first>>

NoFile == [there |-> FALSE]

NoRow == [status |-> "none", score |-> 0, projected |-> 0, owned |-> 0]
Blank == [there |-> TRUE,
          row |-> [f \in Files |-> NoRow],
          signals |-> [f \in Files |-> 0],              \* the scoring they come from
          ledger |-> [f \in Files |-> [id |-> 0, owns |-> FALSE]],
          torn |-> {}]                                  \* files with half a transaction
Legacy == [Blank EXCEPT !.row = [f \in Files |-> [NoRow EXCEPT !.status = "done", !.score = 1]],
                        !.signals = [f \in Files |-> 1]]

(* What a connection finds: committed transactions live in the -wal file   *)
(* until a checkpoint.                                                     *)
Content(place) == IF disk[place].wal.there THEN disk[place].wal ELSE disk[place].main

-----------------------------------------------------------------------------
Ids == 0..(MaxWrites + 1)
Databases ==
    [there: {TRUE},
     row: [Files -> [status: {"none", "scored", "done"}, score: Ids, projected: Ids, owned: Ids]],
     signals: [Files -> Ids], ledger: [Files -> [id: Ids, owns: BOOLEAN]], torn: SUBSET Files]

StoreTypeOK ==
    /\ \A p \in {"legacy", "work"}: \A k \in {"main", "wal"}: disk[p][k] \in Databases \union {NoFile}
    /\ external \in BOOLEAN /\ doomed \in BOOLEAN
    /\ transaction \in {"none", "open", "between", "broken"}
    /\ process \in {"closed", "moving", "open"}
    /\ pending \in Databases \union {NoFile}
    /\ writes \in 0..MaxWrites /\ errors \in 0..MaxErrors /\ deaths \in 0..MaxDeaths

StoreInit ==
    /\ \E old \in {[main |-> NoFile, wal |-> NoFile], [main |-> Legacy, wal |-> NoFile],
                   [main |-> Blank, wal |-> Legacy]}:
          disk = [legacy |-> old, work |-> [main |-> NoFile, wal |-> NoFile]]
    /\ external \in BOOLEAN
    /\ process = "closed" /\ pending = NoFile /\ todo = <<>>
    /\ transaction = "none" /\ doomed = FALSE
    /\ writes = 0 /\ errors = 0 /\ deaths = 0
    /\ first = [old |-> Content("legacy"), found |-> NoFile, whole |-> TRUE]

Process == <<process, pending, todo, transaction, doomed>>

(* Fault: only the database itself is moved.                               *)
Sidecars_Forgotten == <<"main">>

(* _SQLITE_SIDECAR_SUFFIXES.                                               *)
Sidecars == <<"main", "wal">>

(* ensure_runtime_paths.                                                   *)
StartStore ==
    /\ process = "closed"
    /\ IF disk["work"].main.there \/ external \/ ~disk["legacy"].main.there
       THEN process' = "moving" /\ todo' = <<>>
       ELSE process' = "moving" /\ todo' = Sidecars
    /\ UNCHANGED <<disk, external, pending, transaction, doomed, writes, errors, deaths, first>>

(* _migrate_legacy_runtime_db, one file: a missing one is left alone.      *)
MoveFile ==
    /\ process = "moving" /\ todo # <<>>
    /\ LET k == Head(todo) IN
       disk' = IF disk["legacy"][k].there
               THEN [disk EXCEPT !["work"][k] = disk["legacy"][k], !["legacy"][k] = NoFile]
               ELSE disk
    /\ todo' = Tail(todo)
    /\ UNCHANGED <<external, process, pending, transaction, doomed, writes, errors, deaths, first>>

(* _connect: a missing database is created.                                *)
OpenStore ==
    /\ process = "moving" /\ todo = <<>>
    /\ disk' = IF disk["work"].main.there THEN disk ELSE [disk EXCEPT !["work"].main = Blank]
    /\ process' = "open"
    /\ pending' = IF disk["work"].main.there THEN Content("work") ELSE Blank
    /\ first' = IF first.found.there THEN first ELSE [first EXCEPT !.found = pending']
    /\ UNCHANGED <<external, todo, transaction, doomed, writes, errors, deaths>>

-----------------------------------------------------------------------------
(* The statements of an operation; "commit" ends a transaction.            *)
Statement(do, files, id) == [do |-> do, files |-> files, id |-> id, score |-> id]

(* Fault: it commits on its own.                                           *)
ReplaceSignals_Commits(f, id) ==
    <<Statement("commit", {f}, 0), Statement("drop_signals", {f}, 0),
      Statement("add_signals", {f}, id)>>

(* replace_signals. *)
ReplaceSignals(f, id) ==
    <<Statement("drop_signals", {f}, 0), Statement("add_signals", {f}, id)>>

Operations(id) ==
    UNION {
      (* mark_scored: the new row forgets group, projection and payload.   *)
      {<<Statement("insert_scored", {f}, id)>> \o ReplaceSignals(f, id)
         \o <<Statement("commit", {f}, 0)>>: f \in Files},
      (* The review's write_file: the receipt, then mark_done, with scores *)
      (* of this run or of the row.                                        *)
      UNION {
        {<<Statement("append", {f}, id), Statement("project", {f}, id),
           Statement("commit", {f}, 0), [Statement("insert_done", {f}, id) EXCEPT !.score = s]>>
           \o ReplaceSignals(f, s) \o <<Statement("commit", {f}, 0)>>:
           s \in {id, pending.row[f].score} \ {0}}: f \in Files},
      (* A failed write and an own rewrite: record_xmp_projection alone.   *)
      {<<Statement("append", {f}, id), Statement("project", {f}, id), Statement("commit", {f}, 0)>>:
         f \in Files},
      {<<Statement("append_own", {f}, id), Statement("project", {f}, id), Statement("own", {f}, id),
         Statement("commit", {f}, 0)>>: f \in Files},
      (* clear_ai_judgement keeps the ledger.                              *)
      {<<Statement("clear_rows", Files, 0), Statement("clear_signals", Files, 0),
         Statement("commit", Files, 0)>>}}

(* What a statement makes of a content.                                    *)
Effect(st, c) ==
    LET f == CHOOSE g \in st.files: TRUE IN
    CASE st.do = "insert_scored" ->
            [c EXCEPT !.row[f] = [NoRow EXCEPT !.status = "scored", !.score = st.score]]
      [] st.do = "insert_done" ->
            [c EXCEPT !.row[f] = [status |-> "done", score |-> st.score, projected |-> st.id,
                                  owned |-> st.id]]
      [] st.do = "drop_signals" -> [c EXCEPT !.signals[f] = 0]
      [] st.do = "add_signals" -> [c EXCEPT !.signals[f] = st.id]
      [] st.do \in {"append", "append_own"} ->
            [c EXCEPT !.ledger[f] = [id |-> st.id, owns |-> st.do = "append_own"]]
      [] st.do = "project" ->
            IF c.row[f].status = "none" THEN c ELSE [c EXCEPT !.row[f].projected = st.id]
      [] st.do = "own" ->
            IF c.row[f].status = "none" THEN c ELSE [c EXCEPT !.row[f].owned = st.id]
      [] st.do = "clear_rows" -> [c EXCEPT !.row = Blank.row]
      [] st.do = "clear_signals" -> [c EXCEPT !.signals = Blank.signals]

BeginOperation ==
    /\ process = "open" /\ todo = <<>> /\ ~doomed
    /\ writes < MaxWrites /\ writes' = writes + 1
    /\ todo' \in Operations(writes + 2)
    /\ UNCHANGED <<disk, external, process, pending, transaction, doomed, errors, deaths, first>>

(* _execute. *)
Execute ==
    /\ process = "open" /\ todo # <<>> /\ Head(todo).do # "commit"
    /\ pending' = Effect(Head(todo), pending)
    /\ todo' = Tail(todo)
    /\ transaction' = IF transaction = "broken" THEN "broken" ELSE "open"
    /\ UNCHANGED <<disk, external, process, doomed, writes, errors, deaths, first>>

(* _commit. *)
CommitStore ==
    /\ process = "open" /\ todo # <<>> /\ Head(todo).do = "commit"
    /\ pending' = IF transaction = "broken"
                  THEN [pending EXCEPT !.torn = @ \union Head(todo).files] ELSE pending
    /\ disk' = [disk EXCEPT !["work"].wal = pending']
    /\ todo' = Tail(todo)
    /\ transaction' = IF todo' = <<>> THEN "none"
                      ELSE IF transaction = "broken" THEN "broken" ELSE "between"
    /\ UNCHANGED <<external, process, doomed, writes, errors, deaths, first>>

CheckpointStore ==
    /\ process = "open"
    /\ disk' = [disk EXCEPT !["work"].main = Content("work")]
    /\ UNCHANGED <<external, Process, writes, errors, deaths, first>>

(* _recover_disk_io_error before the statement is tried again: closing     *)
(* drops the transaction, and the -wal file is deleted whether or not its  *)
(* content has reached the database.                                       *)
RecoverStore ==
    /\ process = "open" /\ todo # <<>> /\ Head(todo).do # "commit"
    /\ errors < MaxErrors /\ errors' = errors + 1
    /\ \E kept \in {Content("work"), disk["work"].main}:
          /\ disk' = [disk EXCEPT !["work"] = [main |-> kept, wal |-> NoFile]]
          /\ pending' = kept
    /\ transaction' = IF transaction = "none" THEN "none" ELSE "broken"
    /\ UNCHANGED <<external, process, todo, doomed, writes, deaths, first>>

(* A statement or commit fails for another reason or again: the operation  *)
(* raises.  SQLite may or may not have rolled back; what stays pending     *)
(* keeps the lock from the run's own other connection, which ends the run. *)
StatementFails ==
    /\ process = "open" /\ todo # <<>>
    /\ errors < MaxErrors /\ errors' = errors + 1
    /\ \/ doomed' = (transaction # "none") /\ UNCHANGED pending
       \/ doomed' = FALSE /\ pending' = Content("work")
    /\ todo' = <<>> /\ transaction' = "none"
    /\ UNCHANGED <<disk, external, process, writes, deaths, first>>

(* close: what is not committed is rolled back, and the last connection    *)
(* moves the -wal file into the database.                                  *)
CloseStore ==
    /\ process = "open" /\ todo = <<>>
    /\ disk' = [disk EXCEPT !["work"] = [main |-> Content("work"), wal |-> NoFile]]
    /\ process' = "closed" /\ pending' = NoFile /\ doomed' = FALSE
    /\ UNCHANGED <<external, todo, transaction, writes, errors, deaths, first>>

(* A death while files are moved may leave the -wal file behind for good.  *)
KillStore ==
    /\ process # "closed"
    /\ deaths < MaxDeaths /\ deaths' = deaths + 1
    /\ process' = "closed" /\ pending' = NoFile /\ todo' = <<>>
    /\ transaction' = "none" /\ doomed' = FALSE
    /\ first' = [first EXCEPT !.whole = @ /\ ~(process = "moving" /\ todo = <<"wal">>)]
    /\ UNCHANGED <<disk, external, writes, errors>>

StoreNext ==
    \/ StartStore \/ MoveFile \/ OpenStore
    \/ BeginOperation \/ Execute \/ CommitStore \/ CheckpointStore
    \/ RecoverStore \/ StatementFails \/ CloseStore \/ KillStore

StoreSpec == StoreInit /\ [][StoreNext]_storeVars

-----------------------------------------------------------------------------
(* Rows, signals and projection ledger agree whatever fails or dies, except *)
(* on a photo whose operation met a disk I/O recovery after its first       *)
(* statement: only the rest of it is then sure to be stored.                *)
TablesAgree ==
    disk["work"].main.there =>
        LET c == Content("work") IN
        \A f \in Files \ c.torn:
            LET row == c.row[f] last == c.ledger[f] IN
            /\ row.status # "none" => c.signals[f] = row.score
            /\ row.projected \in {0, last.id}
            /\ row.projected = last.id /\ last.owns => row.owned = last.id

(* A database of an old version is adopted with its uncommitted-to-main     *)
(* transactions, unless the process died between the moves; one outside the *)
(* photo directory never is.                                                *)
LegacyAdopted ==
    first.found.there /\ first.whole =>
        first.found = IF external \/ ~first.old.there THEN Blank ELSE first.old

StoreIsWhole == TablesAgree /\ LegacyAdopted
=============================================================================
