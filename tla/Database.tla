------------------------------- MODULE Database -------------------------------
(***************************************************************************)
(* The SQLite file and the processes that open, back up and restore it:    *)
(* Open and migrate of internal/store/store.go, BackupTo and RestoreDBFile *)
(* of internal/store/backup.go, the backup and restore commands            *)
(* (cmd/gghstats/backup.go).  serve, fetch, report, export, repo,          *)
(* featured and backup all open the file, and so all migrate it.           *)
(*                                                                         *)
(* In WAL mode a committed statement is in <db>-wal until the last         *)
(* connection closes and checkpoints it; a process that dies leaves the    *)
(* WAL for the next one.  Every Exec of a migration commits on its own:    *)
(* there is no transaction around a migration, and PRAGMA user_version is  *)
(* one more statement.                                                     *)
(***************************************************************************)
EXTENDS Naturals, Sequences

CONSTANTS
  Processes,   \* processes started on the file
  OverlapFrom, \* bound: two processes migrate at once only above this version
  MaxRows,     \* bound: rows written
  MaxCrashes   \* bound: processes that die

ASSUME DatabaseAssumption ==
  OverlapFrom \in Nat /\ MaxRows \in Nat /\ MaxCrashes \in Nat

VARIABLES
  main,      \* the database file: [version, schema, rows]
  wal,       \* the state the WAL brings it to, or NoFile
  backup,    \* the backup file, or NoFile
  proc,      \* what each process is doing
  crashes,
  overlapped, \* history: two processes were migrating at once
  refused,   \* history: the versions at which Open returned an error
  acked,     \* history: rows written since the database the file stands for
  risky      \* history: a restore began although the WAL held commits

files == <<main, wal, backup>>
history == <<overlapped, refused, acked, risky>>
vars == <<files, proc, crashes, history>>

NoFile == [there |-> FALSE]   \* no WAL, no backup
Live == IF wal = NoFile THEN main ELSE wal
Empty == [version |-> 0, schema |-> {}, rows |-> 0]

-----------------------------------------------------------------------------
(* The migrations                                                           *)

Create(o) == [kind |-> "create", object |-> o]    \* IF NOT EXISTS
Add(o) == [kind |-> "add", object |-> o]          \* ALTER TABLE ADD COLUMN
AddMissing(o) == [kind |-> "check", object |-> o] \* pragma_table_info first

\* Mutant of Migrations: v8 adds its columns without looking.
Migrations_BlindV8 ==
  << <<Create("traffic")>>,
     <<Create("repos"), Create("stars"), Add("referrers.count_delta"),
       Add("referrers.uniques_delta"), Add("paths.count_delta"), Add("paths.uniques_delta")>>,
     <<Add("repos.parent_full_name")>>,
     <<Add("repos.last_seen_star_count"), Add("repos.last_starred_at")>>,
     <<Create("alert_debounce")>>,
     <<Create("pins"), Create("featured")>>,
     <<Create("traffic_metric_state"), Create("traffic_metric_coverage")>>,
     <<Add("repos.github_visibility"), Add("repos.report_policy"), Create("repos_idx")>> >>

\* migrateV1 .. migrateV8, a statement each; "traffic" is the four tables of v1.
Migrations ==
  << <<Create("traffic")>>,
     <<Create("repos"), Create("stars"), Add("referrers.count_delta"),
       Add("referrers.uniques_delta"), Add("paths.count_delta"), Add("paths.uniques_delta")>>,
     <<Add("repos.parent_full_name")>>,
     <<Add("repos.last_seen_star_count"), Add("repos.last_starred_at")>>,
     <<Create("alert_debounce")>>,
     <<Create("pins"), Create("featured")>>,
     <<Create("traffic_metric_state"), Create("traffic_metric_coverage")>>,
     <<AddMissing("repos.github_visibility"), AddMissing("repos.report_policy"),
       Create("repos_idx")>> >>

Latest == Len(Migrations)
Objects(v) == {Migrations[v][i].object : i \in DOMAIN Migrations[v]}
SchemaOf(v) == UNION {Objects(u) : u \in 1 .. v}

-----------------------------------------------------------------------------
(* Open                                                                     *)

Idle == [at |-> "idle", step |-> <<0, 0>>, snapshot |-> Empty]
At(p, place) == proc[p].at = place
Opened(p) == proc[p].at \in {"migrate", "add", "open", "backup"}
Restoring(p) == proc[p].at \in {"copy", "unlink", "rename"}
Migrating(p) == proc[p].at \in {"migrate", "add"}
Statement(p) == Migrations[proc[p].step[1]][proc[p].step[2]]

\* user_version is read once; every migration above it will be run.
OpenDB(p) ==
  /\ At(p, "idle")
  /\ \A q \in Processes : ~Restoring(q)
  /\ Live.version < OverlapFrom => \A q \in Processes : ~Migrating(q)
  /\ proc' = [proc EXCEPT ![p] =
       [Idle EXCEPT !.at = IF Live.version < Latest THEN "migrate" ELSE "open",
                    !.step = <<Live.version + 1, 1>>]]
  /\ overlapped' = (overlapped \/ (Live.version < Latest /\ \E q \in Processes : Migrating(q)))
  /\ UNCHANGED <<files, crashes, refused, acked, risky>>

Commit(c) == wal' = c

\* After a statement comes the next one, or the version of its migration.
NextStatement(p) == [proc[p] EXCEPT !.at = "migrate", !.step[2] = @ + 1]

\* One Exec of a migration; adding a column that is there is an error, and the
\* process gives up.
Exec(p) ==
  /\ At(p, "migrate") /\ proc[p].step[2] <= Len(Migrations[proc[p].step[1]])
  /\ LET s == Statement(p)
         there == s.object \in Live.schema
     IN \/ /\ s.kind = "check"
           /\ proc' = [proc EXCEPT ![p] = IF there THEN NextStatement(p)
                                          ELSE [proc[p] EXCEPT !.at = "add"]]
           /\ UNCHANGED <<wal, refused>>
        \/ /\ s.kind = "add" /\ there
           /\ refused' = refused \union {Live.version}
           /\ proc' = [proc EXCEPT ![p] = Idle]
           /\ UNCHANGED wal
        \/ /\ s.kind = "create" \/ (s.kind = "add" /\ ~there)
           /\ Commit([Live EXCEPT !.schema = @ \union {s.object}])
           /\ proc' = [proc EXCEPT ![p] = NextStatement(p)]
           /\ UNCHANGED refused
  /\ UNCHANGED <<main, backup, crashes, overlapped, acked, risky>>

\* migrateV8: the column was missing when it looked.
ExecAdd(p) ==
  /\ At(p, "add")
  /\ IF Statement(p).object \in Live.schema
       THEN /\ refused' = refused \union {Live.version}
            /\ proc' = [proc EXCEPT ![p] = Idle]
            /\ UNCHANGED wal
       ELSE /\ Commit([Live EXCEPT !.schema = @ \union {Statement(p).object}])
            /\ proc' = [proc EXCEPT ![p] = NextStatement(p)]
            /\ UNCHANGED refused
  /\ UNCHANGED <<main, backup, crashes, overlapped, acked, risky>>

\* Mutant of SetVersion: every migration sets the version of the last one.
SetVersion_Last(p) ==
  /\ At(p, "migrate") /\ proc[p].step[2] > Len(Migrations[proc[p].step[1]])
  /\ LET v == proc[p].step[1]
     IN /\ Commit([Live EXCEPT !.version = Latest])
        /\ proc' = [proc EXCEPT ![p] =
             IF v = Latest THEN [Idle EXCEPT !.at = "open"]
             ELSE [proc[p] EXCEPT !.step = <<v + 1, 1>>]]
  /\ UNCHANGED <<main, backup, crashes, history>>

\* PRAGMA user_version, when the migration succeeded.
SetVersion(p) ==
  /\ At(p, "migrate") /\ proc[p].step[2] > Len(Migrations[proc[p].step[1]])
  /\ LET v == proc[p].step[1]
     IN /\ Commit([Live EXCEPT !.version = v])
        /\ proc' = [proc EXCEPT ![p] =
             IF v = Latest THEN [Idle EXCEPT !.at = "open"]
             ELSE [proc[p] EXCEPT !.step = <<v + 1, 1>>]]
  /\ UNCHANGED <<main, backup, crashes, history>>

\* Any write of the program: committed when the call returns.
Write(p) ==
  /\ At(p, "open") /\ Live.rows < MaxRows /\ acked < MaxRows
  /\ Commit([Live EXCEPT !.rows = @ + 1])
  /\ acked' = acked + 1
  /\ UNCHANGED <<main, backup, proc, crashes, overlapped, refused, risky>>

\* The last connection checkpoints the WAL and removes it.
Close(p) ==
  /\ At(p, "open")
  /\ proc' = [proc EXCEPT ![p] = Idle]
  /\ IF \A q \in Processes \ {p} : ~Opened(q)
       THEN main' = Live /\ wal' = NoFile
       ELSE UNCHANGED <<main, wal>>
  /\ UNCHANGED <<backup, crashes, history>>

-----------------------------------------------------------------------------
(* Backup and restore                                                       *)

\* BackupTo: the destination must not exist; VACUUM INTO reads one snapshot.
BeginBackup(p) ==
  /\ At(p, "open") /\ backup = NoFile
  /\ proc' = [proc EXCEPT ![p].at = "backup", ![p].snapshot = Live]
  /\ backup' = Empty      \* an interrupted VACUUM INTO leaves a file without tables
  /\ UNCHANGED <<main, wal, crashes, history>>

FinishBackup(p) ==
  /\ At(p, "backup")
  /\ backup' = proc[p].snapshot
  /\ proc' = [proc EXCEPT ![p].at = "open", ![p].snapshot = Empty]
  /\ UNCHANGED <<main, wal, crashes, history>>

\* RestoreDBFile opens the backup.  "Stop any process using destPath before
\* calling": the operator does.
BeginRestore(p) ==
  /\ At(p, "idle") /\ backup # NoFile
  /\ \A q \in Processes : ~Opened(q) /\ ~Restoring(q)
  /\ proc' = [proc EXCEPT ![p].at = "copy"]
  /\ risky' = (risky \/ wal # NoFile)
  /\ UNCHANGED <<files, crashes, overlapped, refused, acked>>

\* Mutant of CopyBackup: the copy goes straight to the destination.
CopyBackup_InPlace(p) ==
  /\ At(p, "copy")
  /\ main' = Empty
  /\ proc' = [proc EXCEPT ![p].at = "unlink", ![p].snapshot = backup]
  /\ UNCHANGED <<wal, backup, crashes, history>>

\* io.Copy to <db>.restore-tmp.
CopyBackup(p) ==
  /\ At(p, "copy")
  /\ proc' = [proc EXCEPT ![p].at = "unlink", ![p].snapshot = backup]
  /\ UNCHANGED <<files, crashes, history>>

\* os.Remove of the sidecars, whose errors are ignored.
RemoveSidecars(p) ==
  /\ At(p, "unlink")
  /\ wal' \in {wal, NoFile}
  /\ proc' = [proc EXCEPT ![p].at = "rename"]
  /\ UNCHANGED <<main, backup, crashes, history>>

\* os.Rename; on an error the temporary file is removed.
Rename(p) ==
  /\ At(p, "rename")
  /\ proc' = [proc EXCEPT ![p] = Idle]
  /\ \/ /\ main' = proc[p].snapshot
        /\ acked' = main'.rows
     \/ UNCHANGED <<main, acked>>
  /\ UNCHANGED <<wal, backup, crashes, overlapped, refused, risky>>

Crash(p) ==
  /\ ~At(p, "idle") /\ crashes < MaxCrashes
  /\ crashes' = crashes + 1
  /\ proc' = [proc EXCEPT ![p] = Idle]
  /\ UNCHANGED <<files, history>>

\* A database left by any earlier release, closed properly.
Init ==
  /\ \E v \in 0 .. Latest : main = [version |-> v, schema |-> SchemaOf(v), rows |-> 0]
  /\ wal = NoFile /\ backup = NoFile
  /\ proc = [p \in Processes |-> Idle]
  /\ crashes = 0 /\ overlapped = FALSE /\ refused = {} /\ acked = 0 /\ risky = FALSE

Next ==
  \E p \in Processes :
    \/ OpenDB(p) \/ Exec(p) \/ ExecAdd(p) \/ SetVersion(p) \/ Write(p) \/ Close(p)
    \/ BeginBackup(p) \/ FinishBackup(p)
    \/ BeginRestore(p) \/ CopyBackup(p) \/ RemoveSidecars(p) \/ Rename(p)
    \/ Crash(p)

Spec == Init /\ [][Next]_vars

-----------------------------------------------------------------------------
(* Properties                                                               *)

TypeOK ==
  /\ main \in [version : 0 .. Latest, schema : SUBSET SchemaOf(Latest), rows : 0 .. MaxRows]
  /\ \A p \in Processes : Migrating(p) => proc[p].step[1] \in 1 .. Latest
  /\ refused \subseteq 0 .. Latest

\* No migration that is left to do adds a column that is there.
CanStart ==
  \A v \in Live.version + 1 .. Latest : \A i \in DOMAIN Migrations[v] :
    Migrations[v][i].kind = "add" => Migrations[v][i].object \notin Live.schema

\* "The upgrade is restart-safe" (README, migrations v7 and v8): whoever died, and
\* however two processes raced for v8, the next start succeeds.  Only a death
\* after an ALTER TABLE of v2, v3 or v4 and before the user_version of that
\* migration leaves a file that no start gets past.
StartsSucceed ==
  /\ (\A p \in Processes : ~Migrating(p)) /\ ~CanStart => crashes > 0 /\ Live.version \in 1 .. 3
  /\ refused \subseteq 1 .. 3 \/ overlapped

\* A process that is past Open works on the whole schema at the latest version.
OpenedIsCurrent ==
  ~overlapped /\ ~risky =>
    \A p \in Processes : At(p, "open") => /\ Live.version = Latest
                                          /\ Live.schema = SchemaOf(Latest)

\* "Migrations do not delete historical data" (SPEC.md), a restore replaces the
\* file as a whole: no committed row is lost, whatever dies when, and a failed or
\* interrupted restore leaves the database it found.  It takes a clean stop
\* before the restore: the WAL of a process that died is removed first.
RowsKept == ~risky => Live.rows = acked

\* user_version counts up: only a restore takes it back (or the removal of the WAL
\* of a process that died), or two processes that read it before either migrated.
VersionGoesUp ==
  [][overlapped' \/ risky' \/ (\E p \in Processes : At(p, "rename"))
     \/ Live'.version >= Live.version]_vars
=============================================================================
