--------------------------- MODULE DatabaseProofs ---------------------------
(***************************************************************************)
(* No committed row is lost, user_version counts up, a process that is     *)
(* past Open works on the whole latest schema, and the upgrade is          *)
(* restart-safe, for any number of processes, rows, deaths, backups and    *)
(* restores.                                                               *)
(*                                                                         *)
(* DatabaseInv is about the state the WAL stands for, which four facts tie *)
(* to the processes: a restore is alone with the file, it found no WAL (or *)
(* the run is risky), one process migrates at a time and the version it    *)
(* will write is the next one (or the run is overlapped).                  *)
(*                                                                         *)
(* On top of it, StartInv says which columns are missing still from a file *)
(* at rest, from one that is being migrated, from a backup and from what a *)
(* restore carries; SchemaInv that a file holds what its version promises  *)
(* and the statements done of the migration above it.                      *)
(***************************************************************************)
EXTENDS Database, TLAPS

\* A state of the database, and of a process.
IsState(c) ==
  \E v, s, r : v \in Nat /\ r \in Nat /\ c = [version |-> v, schema |-> s, rows |-> r]
IsProc(x) ==
  \E a, i, j, c :
    i \in Nat /\ j \in Nat /\ IsState(c) /\ x = [at |-> a, step |-> <<i, j>>, snapshot |-> c]

FilesOK ==
  /\ IsState(main)
  /\ wal # NoFile => IsState(wal)
  /\ backup # NoFile => IsState(backup)
  /\ acked \in Nat
ProcOK ==
  /\ proc = [p \in Processes |-> proc[p]]
  /\ \A p \in Processes : IsProc(proc[p])

\* A restore that could begin found no other process, and keeps them out.
RestoreAlone ==
  \A p \in Processes : Restoring(p) =>
    /\ \A q \in Processes : ~Opened(q) /\ (Restoring(q) => q = p)
    /\ backup # NoFile
    /\ ~risky => wal = NoFile

\* Without an overlap one process migrates, from the version it read.
MigratesNext ==
  /\ ~overlapped => \A p, q \in Processes : Migrating(p) /\ Migrating(q) => p = q
  /\ ~overlapped =>
       \A p \in Processes : Migrating(p) => proc[p].step[1] = Live.version + 1

DatabaseInv == FilesOK /\ ProcOK /\ RestoreAlone /\ MigratesNext /\ RowsKept

-----------------------------------------------------------------------------

\* A state is a file that is there.
LEMMA StateIsFile == \A c : IsState(c) => c # NoFile
<1> SUFFICES ASSUME NEW c, IsState(c) PROVE c # NoFile
  OBVIOUS
<1>1. DOMAIN c = {"version", "schema", "rows"}
  BY DEF IsState
<1>2. DOMAIN NoFile = {"there"}
  BY DEF NoFile
<1> QED BY <1>1, <1>2

\* The fields of a state, and of one with a field replaced.
LEMMA StateFields ==
  ASSUME NEW c, IsState(c)
  PROVE  /\ c.version \in Nat /\ c.rows \in Nat
         /\ \A v \in Nat : /\ IsState([c EXCEPT !.version = v])
                           /\ [c EXCEPT !.version = v].version = v
                           /\ [c EXCEPT !.version = v].rows = c.rows
                           /\ [c EXCEPT !.version = v].schema = c.schema
         /\ \A s : /\ IsState([c EXCEPT !.schema = s])
                   /\ [c EXCEPT !.schema = s].version = c.version
                   /\ [c EXCEPT !.schema = s].rows = c.rows
                   /\ [c EXCEPT !.schema = s].schema = s
         /\ \A r \in Nat : /\ IsState([c EXCEPT !.rows = r])
                           /\ [c EXCEPT !.rows = r].version = c.version
                           /\ [c EXCEPT !.rows = r].rows = r
                           /\ [c EXCEPT !.rows = r].schema = c.schema
<1> PICK v0, s0, r0 : v0 \in Nat /\ r0 \in Nat /\ c = [version |-> v0, schema |-> s0, rows |-> r0]
  BY DEF IsState
<1>1. ASSUME NEW v \in Nat
      PROVE  [c EXCEPT !.version = v] = [version |-> v, schema |-> s0, rows |-> r0]
  OBVIOUS
<1>2. ASSUME NEW s
      PROVE  [c EXCEPT !.schema = s] = [version |-> v0, schema |-> s, rows |-> r0]
  OBVIOUS
<1>3. ASSUME NEW r \in Nat
      PROVE  [c EXCEPT !.rows = r] = [version |-> v0, schema |-> s0, rows |-> r]
  OBVIOUS
<1>4. ASSUME NEW v \in Nat, NEW s, NEW r \in Nat
      PROVE  IsState([version |-> v, schema |-> s, rows |-> r])
  BY Zenon DEF IsState
<1> QED BY <1>1, <1>2, <1>3, <1>4

\* The state the files stand for is one.
LEMMA LiveOK == FilesOK => IsState(Live)
BY DEF FilesOK, Live

\* What a process that changes its own entry leaves.
LEMMA ProcSet ==
  ASSUME ProcOK, NEW p \in Processes, NEW x, IsProc(x), proc' = [proc EXCEPT ![p] = x]
  PROVE  ProcOK' /\ proc'[p] = x /\ \A q \in Processes \ {p} : proc'[q] = proc[q]
<1>1. proc'[p] = x /\ \A q \in Processes \ {p} : proc'[q] = proc[q]
  BY DEF ProcOK
<1>2. proc' = [q \in Processes |-> proc'[q]]
  BY DEF ProcOK
<1>3. ASSUME NEW q \in Processes PROVE IsProc(proc'[q])
  <2>1. CASE q = p
    BY <1>1, <2>1, Zenon
  <2>2. CASE q # p
    <3>1. proc'[q] = proc[q] /\ IsProc(proc[q])
      BY <1>1, <2>2 DEF ProcOK
    <3> QED BY <3>1, Zenon
  <2> QED BY <2>1, <2>2
<1> QED BY <1>1, <1>2, <1>3 DEF ProcOK

\* Replacing the fields of a process.
LEMMA ProcFields ==
  ASSUME NEW x, IsProc(x)
  PROVE  /\ x.step[1] \in Nat /\ x.step[2] \in Nat /\ IsState(x.snapshot)
         /\ \A a : LET y == [x EXCEPT !.at = a]
                   IN IsProc(y) /\ y.at = a /\ y.step = x.step /\ y.snapshot = x.snapshot
         /\ \A i, j \in Nat : LET y == [x EXCEPT !.step = <<i, j>>]
                   IN IsProc(y) /\ y.at = x.at /\ y.step[1] = i /\ y.step[2] = j
                      /\ y.snapshot = x.snapshot
         /\ \A j \in Nat : LET y == [x EXCEPT !.step[2] = j]
                   IN IsProc(y) /\ y.at = x.at /\ y.step[1] = x.step[1] /\ y.step[2] = j
                      /\ y.snapshot = x.snapshot
         /\ \A c : IsState(c) => LET y == [x EXCEPT !.snapshot = c]
                   IN IsProc(y) /\ y.at = x.at /\ y.step = x.step /\ y.snapshot = c
<1> PICK a0, i0, j0, c0 :
      /\ i0 \in Nat /\ j0 \in Nat /\ IsState(c0)
      /\ x = [at |-> a0, step |-> <<i0, j0>>, snapshot |-> c0]
  BY DEF IsProc
<1>1. ASSUME NEW a
      PROVE  [x EXCEPT !.at = a] = [at |-> a, step |-> <<i0, j0>>, snapshot |-> c0]
  OBVIOUS
<1>2. ASSUME NEW i \in Nat, NEW j \in Nat
      PROVE  [x EXCEPT !.step = <<i, j>>] = [at |-> a0, step |-> <<i, j>>, snapshot |-> c0]
  OBVIOUS
<1>3. ASSUME NEW j \in Nat
      PROVE  [x EXCEPT !.step[2] = j] = [at |-> a0, step |-> <<i0, j>>, snapshot |-> c0]
  <2>1. [<<i0, j0>> EXCEPT ![2] = j] = <<i0, j>>
    OBVIOUS
  <2> QED BY <2>1
<1>4. ASSUME NEW c
      PROVE  [x EXCEPT !.snapshot = c] = [at |-> a0, step |-> <<i0, j0>>, snapshot |-> c]
  OBVIOUS
<1>5. ASSUME NEW a, NEW i \in Nat, NEW j \in Nat, NEW c, IsState(c)
      PROVE  IsProc([at |-> a, step |-> <<i, j>>, snapshot |-> c])
  BY <1>5, Zenon DEF IsProc
<1> QED BY <1>1, <1>2, <1>3, <1>4, <1>5

\* An idle process.
LEMMA IdleOK ==
  IsProc(Idle) /\ Idle.at = "idle" /\ Idle.snapshot = Empty /\ IsState(Empty)
<1>1. IsState(Empty)
  BY DEF IsState, Empty
<1>2. IsProc([at |-> "idle", step |-> <<0, 0>>, snapshot |-> Empty])
  BY <1>1, Zenon, 0 \in Nat DEF IsProc
<1> QED BY <1>1, <1>2 DEF Idle

\* A process that has nothing but a place.
LEMMA IdleAt ==
  ASSUME NEW a
  PROVE  /\ IsProc([Idle EXCEPT !.at = a]) /\ [Idle EXCEPT !.at = a].at = a
         /\ [Idle EXCEPT !.at = a].snapshot = Empty
<1>1. [Idle EXCEPT !.at = a] = [at |-> a, step |-> <<0, 0>>, snapshot |-> Empty]
  BY DEF Idle
<1>2. IsProc([at |-> a, step |-> <<0, 0>>, snapshot |-> Empty])
  BY IdleOK, Zenon, 0 \in Nat DEF IsProc
<1> QED BY <1>1, <1>2

-----------------------------------------------------------------------------

\* A process at work on the open file keeps the invariant when it keeps the
\* rows, and changes the version only as a migration that goes on from it.
LEMMA AtWork ==
  ASSUME DatabaseInv, NEW p \in Processes, Opened(p),
         FilesOK', ProcOK', RowsKept', UNCHANGED <<overlapped, risky>>,
         \A q \in Processes \ {p} : proc'[q] = proc[q],
         proc'[p].at \notin {"copy", "unlink", "rename"},
         proc'[p].at \in {"migrate", "add"} =>
           Migrating(p) /\ (~overlapped => proc'[p].step[1] = Live'.version + 1),
         Live'.version = Live.version \/ Migrating(p)
  PROVE  DatabaseInv'
<1>1. \A q \in Processes : ~Restoring(q)
  BY DEF DatabaseInv, RestoreAlone
<1>2. \A q \in Processes : ~(Restoring(q)')
  BY <1>1 DEF Restoring
<1>3. \A q \in Processes : Migrating(q)' => Migrating(q)
  BY DEF Migrating
<1>4. ASSUME ~overlapped, NEW q \in Processes, Migrating(q)'
      PROVE  proc'[q].step[1] = Live'.version + 1
  <2>1. CASE q = p
    BY <1>4, <2>1 DEF Migrating
  <2>2. CASE q # p
    <3>1. Migrating(q) /\ ~Migrating(p)
      BY <1>3, <1>4, <2>2 DEF DatabaseInv, MigratesNext
    <3> QED BY <1>4, <2>2, <3>1 DEF DatabaseInv, MigratesNext
  <2> QED BY <2>1, <2>2
<1> QED BY <1>2, <1>3, <1>4 DEF DatabaseInv, RestoreAlone, MigratesNext

\* A commit: the WAL stands for the new state.
LEMMA Committed ==
  ASSUME FilesOK, NEW c, IsState(c), Commit(c), UNCHANGED <<main, backup>>, acked' \in Nat
  PROVE  FilesOK' /\ Live' = c
BY StateIsFile DEF FilesOK, Commit, Live

\* Opening: user_version decides, and nobody else is migrating or the run overlaps.
LEMMA OpenKeeps ==
  ASSUME DatabaseInv, NEW p \in Processes, OpenDB(p)
  PROVE  DatabaseInv' /\ Live' = Live
<1> DEFINE a == IF Live.version < Latest THEN "migrate" ELSE "open"
           x == [Idle EXCEPT !.at = a, !.step = <<Live.version + 1, 1>>]
<1>1. Live.version + 1 \in Nat
  BY LiveOK, StateFields DEF DatabaseInv
<1>2. x = [[Idle EXCEPT !.at = a] EXCEPT !.step = <<Live.version + 1, 1>>]
  OBVIOUS
<1>3. proc' = [proc EXCEPT ![p] = x]
  BY DEF OpenDB
<1>4. a \in {"migrate", "open"} /\ (a = "migrate" <=> Live.version < Latest)
  OBVIOUS
<1> HIDE DEF a
<1>5. IsProc(x) /\ x.at = a /\ x.step[1] = Live.version + 1
  <2> DEFINE y == [Idle EXCEPT !.at = a]
  <2>1. IsProc(y) /\ y.at = a
    BY IdleAt
  <2>2. x = [y EXCEPT !.step = <<Live.version + 1, 1>>]
    BY <1>2
  <2> HIDE DEF x, y
  <2> QED BY <1>1, <2>1, <2>2, ProcFields
<1> HIDE DEF x
<1>6. ProcOK' /\ proc'[p] = x /\ \A q \in Processes \ {p} : proc'[q] = proc[q]
  BY <1>3, <1>5, ProcSet DEF DatabaseInv
<1>7. Live' = Live /\ FilesOK' /\ RowsKept' /\ UNCHANGED risky
  BY DEF OpenDB, files, Live, FilesOK, RowsKept, DatabaseInv
<1>8. RestoreAlone'
  BY <1>4, <1>5, <1>6 DEF OpenDB, RestoreAlone, Restoring
<1>9. MigratesNext'
  <2>1. \A q \in Processes \ {p} : Migrating(q)' <=> Migrating(q)
    BY <1>6 DEF Migrating
  <2>2. ~Migrating(p)
    BY DEF OpenDB, At, Migrating
  <2>3. ASSUME ~overlapped', Migrating(p)'
        PROVE  \A q \in Processes \ {p} : ~Migrating(q)
    BY <1>4, <1>5, <1>6, <2>3 DEF OpenDB, Migrating
  <2>4. ~overlapped' => ~overlapped
    BY DEF OpenDB
  <2>5. ~overlapped' => \A q, r \in Processes : Migrating(q)' /\ Migrating(r)' => q = r
    BY <2>1, <2>3, <2>4 DEF DatabaseInv, MigratesNext
  <2>6. ASSUME ~overlapped', NEW q \in Processes, Migrating(q)'
        PROVE  proc'[q].step[1] = Live'.version + 1
    BY <1>5, <1>6, <1>7, <2>1, <2>4, <2>6 DEF DatabaseInv, MigratesNext
  <2> QED BY <2>5, <2>6 DEF MigratesNext
<1> QED BY <1>6, <1>7, <1>8, <1>9 DEF DatabaseInv

\* What a process goes on with after a statement.
LEMMA AfterStatement ==
  ASSUME ProcOK, NEW p \in Processes
  PROVE  /\ IsProc(NextStatement(p)) /\ NextStatement(p).at = "migrate"
         /\ NextStatement(p).step[1] = proc[p].step[1]
         /\ NextStatement(p).step[2] = proc[p].step[2] + 1
         /\ NextStatement(p).snapshot = proc[p].snapshot
<1>1. IsProc(proc[p])
  BY DEF ProcOK
<1> DEFINE y == [proc[p] EXCEPT !.at = "migrate"]
<1>2. /\ IsProc(y) /\ y.at = "migrate" /\ y.step = proc[p].step
      /\ y.snapshot = proc[p].snapshot
  BY <1>1, ProcFields
<1>3. NextStatement(p) = [y EXCEPT !.step[2] = y.step[2] + 1]
  BY <1>1, <1>2 DEF NextStatement
<1> HIDE DEF y
<1>4. y.step[2] + 1 \in Nat
  BY <1>2, ProcFields
<1> DEFINE j == y.step[2] + 1
           z == [y EXCEPT !.step[2] = j]
<1>5. j \in Nat /\ NextStatement(p) = z /\ j = proc[p].step[2] + 1
  BY <1>2, <1>3, <1>4
<1> HIDE DEF j
<1>6. /\ IsProc(z) /\ z.at = "migrate" /\ z.step[1] = y.step[1] /\ z.step[2] = j
      /\ z.snapshot = y.snapshot
  BY <1>2, <1>5, ProcFields
<1> HIDE DEF z
<1> QED BY <1>2, <1>5, <1>6

\* A statement of a migration keeps the version, or ends the process's attempt.
LEMMA StatementKeeps ==
  ASSUME DatabaseInv, NEW p \in Processes, Migrating(p),
         UNCHANGED <<main, backup, overlapped, acked, risky>>,
         \/ proc' = [proc EXCEPT ![p] = Idle] /\ UNCHANGED wal
         \/ proc' = [proc EXCEPT ![p] = NextStatement(p)] /\ UNCHANGED wal
         \/ proc' = [proc EXCEPT ![p] = [proc[p] EXCEPT !.at = "add"]] /\ UNCHANGED wal
         \/ /\ proc' = [proc EXCEPT ![p] = NextStatement(p)]
            /\ \E s : Commit([Live EXCEPT !.schema = s])
  PROVE  DatabaseInv' /\ Live'.version = Live.version
<1>1. FilesOK' /\ Live'.version = Live.version /\ Live'.rows = Live.rows
  <2>1. CASE UNCHANGED wal
    BY <2>1 DEF Live, FilesOK, DatabaseInv
  <2>2. CASE \E s : Commit([Live EXCEPT !.schema = s])
    <3> PICK s : Commit([Live EXCEPT !.schema = s])
      BY <2>2
    <3> DEFINE c == [Live EXCEPT !.schema = s]
    <3>1. IsState(c) /\ c.version = Live.version /\ c.rows = Live.rows
      BY LiveOK, StateFields DEF DatabaseInv
    <3>2. Commit(c) /\ FilesOK /\ acked' \in Nat
      BY DEF DatabaseInv, FilesOK
    <3> HIDE DEF c
    <3> QED BY <3>1, <3>2, Committed
  <2> QED BY <2>1, <2>2
<1> DEFINE y == [proc[p] EXCEPT !.at = "add"]
<1>2. IsProc(y) /\ y.at = "add" /\ y.step = proc[p].step
  <2>1. IsProc(proc[p])
    BY DEF DatabaseInv, ProcOK
  <2> QED BY <2>1, ProcFields
<1>3. PICK x : /\ IsProc(x) /\ proc' = [proc EXCEPT ![p] = x]
               /\ x.at \in {"idle", "migrate", "add"}
               /\ x.at # "idle" => x.step[1] = proc[p].step[1]
  <2> HIDE DEF y
  <2>1. proc' = [proc EXCEPT ![p] = Idle] \/ proc' = [proc EXCEPT ![p] = NextStatement(p)]
        \/ proc' = [proc EXCEPT ![p] = y]
    BY DEF y
  <2>2. IsProc(NextStatement(p)) /\ NextStatement(p).at = "migrate"
        /\ NextStatement(p).step[1] = proc[p].step[1]
    BY AfterStatement DEF DatabaseInv
  <2> QED BY <1>2, <2>1, <2>2, IdleOK
<1>4. ProcOK' /\ proc'[p] = x /\ \A q \in Processes \ {p} : proc'[q] = proc[q]
  BY <1>3, ProcSet DEF DatabaseInv
<1>5. Opened(p)
  BY DEF Migrating, Opened
<1>6. RowsKept'
  BY <1>1 DEF RowsKept, DatabaseInv
<1>7. ~overlapped => proc[p].step[1] = Live.version + 1
  BY DEF DatabaseInv, MigratesNext
<1>8. DatabaseInv'
  BY <1>1, <1>3, <1>4, <1>5, <1>6, <1>7, AtWork
<1> QED BY <1>1, <1>8

\* A migration is over: the version goes up by one, and the next one follows.
LEMMA SetVersionKeeps ==
  ASSUME DatabaseInv, NEW p \in Processes, SetVersion(p)
  PROVE  DatabaseInv' /\ (overlapped \/ risky \/ Live'.version >= Live.version)
<1> DEFINE v == proc[p].step[1]
           c == [Live EXCEPT !.version = v]
<1>1. v \in Nat /\ v + 1 \in Nat /\ IsProc(proc[p]) /\ IsState(Live)
  BY ProcFields, LiveOK DEF DatabaseInv, ProcOK
<1>2. IsState(c) /\ c.version = v /\ c.rows = Live.rows
  BY <1>1, StateFields
<1>3. FilesOK' /\ Live' = c
  <2>1. Commit(c) /\ UNCHANGED <<main, backup>> /\ acked' \in Nat /\ FilesOK
    BY DEF SetVersion, history, DatabaseInv, FilesOK
  <2> HIDE DEF c
  <2> QED BY <1>2, <2>1, Committed
<1> HIDE DEF c
<1> DEFINE done == [Idle EXCEPT !.at = "open"]
           y == [proc[p] EXCEPT !.step = <<v + 1, 1>>]
<1>4. IsProc(done) /\ done.at = "open"
  BY IdleAt
<1>5. IsProc(y) /\ y.at = proc[p].at /\ y.step[1] = v + 1
  BY <1>1, ProcFields
<1>6. At(p, "migrate") /\ UNCHANGED <<overlapped, risky, acked>>
      /\ (proc' = [proc EXCEPT ![p] = done] \/ proc' = [proc EXCEPT ![p] = y])
  BY DEF SetVersion, history
<1> HIDE DEF done, y, v
<1>7. PICK x : /\ IsProc(x) /\ proc' = [proc EXCEPT ![p] = x]
               /\ x.at \in {"migrate", "open"}
               /\ x.at = "migrate" => x.step[1] = v + 1
  BY <1>4, <1>5, <1>6 DEF At
<1>8. ProcOK' /\ proc'[p] = x /\ \A q \in Processes \ {p} : proc'[q] = proc[q]
  BY <1>7, ProcSet DEF DatabaseInv
<1>9. Opened(p) /\ Migrating(p)
  BY <1>6 DEF Migrating, Opened, At
<1>10. RowsKept'
  BY <1>2, <1>3, <1>6 DEF RowsKept, DatabaseInv
<1>11. ~overlapped => v = Live.version + 1
  BY <1>9 DEF DatabaseInv, MigratesNext, v
<1>12. DatabaseInv'
  BY <1>2, <1>3, <1>6, <1>7, <1>8, <1>9, <1>10, AtWork
<1>13. Live.version \in Nat
  BY <1>1, StateFields
<1> QED BY <1>1, <1>2, <1>3, <1>11, <1>12, <1>13

\* The work of an open process: it writes, closes, and backs up.
LEMMA OpenKeepsRows ==
  ASSUME DatabaseInv, NEW p \in Processes,
         Write(p) \/ Close(p) \/ BeginBackup(p) \/ FinishBackup(p)
  PROVE  DatabaseInv' /\ Live'.version = Live.version
<1>1. IsProc(proc[p]) /\ IsState(Live) /\ IsState(main) /\ acked \in Nat /\ FilesOK
  BY LiveOK DEF DatabaseInv, ProcOK, FilesOK
<1>2. Opened(p) /\ ~Migrating(p)
  BY DEF Write, Close, BeginBackup, FinishBackup, At, Opened, Migrating
<1>3. UNCHANGED <<overlapped, risky>>
  BY DEF Write, Close, BeginBackup, FinishBackup, history
<1>4. CASE Write(p)
  <2> DEFINE c == [Live EXCEPT !.rows = Live.rows + 1]
  <2>1. IsState(c) /\ c.version = Live.version /\ c.rows = Live.rows + 1
    BY <1>1, StateFields
  <2>2. Commit(c) /\ UNCHANGED <<main, backup, proc>> /\ acked' = acked + 1 /\ At(p, "open")
    BY <1>4 DEF Write
  <2> HIDE DEF c
  <2>3. FilesOK' /\ Live' = c
    BY <1>1, <2>1, <2>2, Committed
  <2>4. ProcOK' /\ RowsKept'
    BY <1>3, <2>1, <2>2, <2>3 DEF DatabaseInv, ProcOK, RowsKept
  <2> QED BY <1>2, <1>3, <2>1, <2>2, <2>3, <2>4, AtWork DEF At
<1>5. CASE Close(p)
  <2>1. proc' = [proc EXCEPT ![p] = Idle] /\ UNCHANGED <<backup, acked>>
    BY <1>5 DEF Close, history
  <2>2. ProcOK' /\ proc'[p].at = "idle" /\ \A q \in Processes \ {p} : proc'[q] = proc[q]
    BY <2>1, IdleOK, ProcSet DEF DatabaseInv
  <2>3. Live' = Live /\ FilesOK'
    <3>1. CASE main' = Live /\ wal' = NoFile
      BY <1>1, <2>1, <3>1 DEF Live, FilesOK
    <3>2. CASE UNCHANGED <<main, wal>>
      BY <1>1, <2>1, <3>2 DEF Live, FilesOK
    <3> QED BY <1>5, <3>1, <3>2 DEF Close
  <2>4. RowsKept'
    BY <1>3, <2>1, <2>3 DEF DatabaseInv, RowsKept
  <2> QED BY <1>2, <1>3, <2>2, <2>3, <2>4, AtWork
<1>6. CASE BeginBackup(p)
  <2> DEFINE y == [proc[p] EXCEPT !.at = "backup"]
             x == [y EXCEPT !.snapshot = Live]
  <2>1. IsProc(y)
    BY <1>1, ProcFields
  <2>2. y.at = "backup"
    BY <1>1, ProcFields
  <2>3. proc' = [proc EXCEPT ![p].at = "backup", ![p].snapshot = Live]
    BY <1>6 DEF BeginBackup
  <2>4. proc' = [proc EXCEPT ![p] = x]
    BY <2>3 DEF DatabaseInv, ProcOK
  <2> HIDE DEF y
  <2>5. IsProc(x) /\ x.at = "backup"
    BY <1>1, <2>1, <2>2, ProcFields
  <2> HIDE DEF x
  <2>6. ProcOK' /\ proc'[p].at = "backup" /\ \A q \in Processes \ {p} : proc'[q] = proc[q]
    BY <2>4, <2>5, ProcSet DEF DatabaseInv
  <2>7. Live' = Live /\ FilesOK' /\ RowsKept'
    BY <1>1, <1>3, <1>6, IdleOK DEF BeginBackup, Live, FilesOK, DatabaseInv, RowsKept, history
  <2> QED BY <1>2, <1>3, <2>6, <2>7, AtWork
<1>7. CASE FinishBackup(p)
  <2> DEFINE y == [proc[p] EXCEPT !.at = "open"]
             x == [y EXCEPT !.snapshot = Empty]
  <2>1. IsProc(y)
    BY <1>1, ProcFields
  <2>2. y.at = "open"
    BY <1>1, ProcFields
  <2>3. proc' = [proc EXCEPT ![p].at = "open", ![p].snapshot = Empty]
    BY <1>7 DEF FinishBackup
  <2>4. proc' = [proc EXCEPT ![p] = x]
    BY <2>3 DEF DatabaseInv, ProcOK
  <2> HIDE DEF y
  <2>5. IsProc(x) /\ x.at = "open"
    <3>1. IsState(Empty)
      BY IdleOK
    <3> QED BY <2>1, <2>2, <3>1, ProcFields
  <2> HIDE DEF x
  <2>6. ProcOK' /\ proc'[p].at = "open" /\ \A q \in Processes \ {p} : proc'[q] = proc[q]
    BY <2>4, <2>5, ProcSet DEF DatabaseInv
  <2>7. IsState(proc[p].snapshot)
    BY <1>1, ProcFields
  <2>8. Live' = Live /\ FilesOK' /\ RowsKept'
    BY <1>1, <1>3, <1>7, <2>7 DEF FinishBackup, Live, FilesOK, DatabaseInv, RowsKept, history
  <2> QED BY <1>2, <1>3, <2>6, <2>8, AtWork
<1> QED BY <1>4, <1>5, <1>6, <1>7

\* A restore is alone with the file and, unless the run is risky, without a WAL:
\* the rename replaces all of the database or nothing.
LEMMA RestoreKeeps ==
  ASSUME DatabaseInv, NEW p \in Processes,
         BeginRestore(p) \/ CopyBackup(p) \/ RemoveSidecars(p) \/ Rename(p)
  PROVE  DatabaseInv' /\ (risky \/ At(p, "rename") \/ Live' = Live)
<1> DEFINE Alone == \A q \in Processes : ~Opened(q) /\ (Restoring(q) => q = p)
<1>1. IsProc(proc[p]) /\ FilesOK /\ ProcOK
  BY DEF DatabaseInv, ProcOK
<1>2. Alone /\ backup # NoFile
  <2>1. Restoring(p) => Alone /\ backup # NoFile
    BY DEF DatabaseInv, RestoreAlone
  <2> QED BY <2>1 DEF BeginRestore, CopyBackup, RemoveSidecars, Rename, Restoring, At
<1>3. UNCHANGED <<overlapped, backup>> /\ (risky => risky')
  <2>1. UNCHANGED <<overlapped, backup>>
    BY DEF BeginRestore, CopyBackup, RemoveSidecars, Rename, history, files
  <2>2. BeginRestore(p) => (risky => risky')
    BY DEF BeginRestore
  <2>3. CopyBackup(p) \/ RemoveSidecars(p) \/ Rename(p) => risky' = risky
    BY DEF CopyBackup, RemoveSidecars, Rename, history
  <2> QED BY <2>1, <2>2, <2>3
\* The file the process ends up with.
<1>4. /\ FilesOK'
      /\ RowsKept'
      /\ risky \/ At(p, "rename") \/ Live' = Live
      /\ ~risky' => wal' = NoFile
  <2>1. CASE BeginRestore(p)
    BY <1>1, <2>1 DEF BeginRestore, FilesOK, files, Live, DatabaseInv, RowsKept
  <2>2. CASE CopyBackup(p)
    BY <1>1, <2>2 DEF CopyBackup, FilesOK, files, history, Live, DatabaseInv, RowsKept,
                      RestoreAlone, Restoring, At
  <2>3. CASE RemoveSidecars(p)
    <3>1. ~risky => wal = NoFile
      BY <2>3 DEF RemoveSidecars, DatabaseInv, RestoreAlone, Restoring, At
    <3>2. UNCHANGED <<main, backup, acked, risky>> /\ wal' \in {wal, NoFile}
      BY <2>3 DEF RemoveSidecars, history
    <3> QED BY <1>1, <3>1, <3>2 DEF FilesOK, Live, DatabaseInv, RowsKept
  <2>4. CASE Rename(p)
    <3>1. ~risky => wal = NoFile
      BY <2>4 DEF Rename, DatabaseInv, RestoreAlone, Restoring, At
    <3>2. UNCHANGED <<wal, backup, risky>> /\ At(p, "rename")
      BY <2>4 DEF Rename
    <3>3. CASE main' = proc[p].snapshot /\ acked' = main'.rows
      <4>1. IsState(main') /\ acked' \in Nat
        BY <1>1, <3>3, ProcFields, StateFields
      <4> QED BY <1>1, <3>1, <3>2, <3>3, <4>1 DEF FilesOK, Live, RowsKept
    <3>4. CASE UNCHANGED <<main, acked>>
      BY <1>1, <3>1, <3>2, <3>4 DEF FilesOK, Live, DatabaseInv, RowsKept
    <3> QED BY <2>4, <3>2, <3>3, <3>4 DEF Rename
  <2> QED BY <2>1, <2>2, <2>3, <2>4
\* Where the process stands.
<1>5. PICK x : /\ IsProc(x) /\ proc' = [proc EXCEPT ![p] = x]
               /\ x.at \in {"idle", "copy", "unlink", "rename"}
  <2>1. ASSUME NEW a PROVE IsProc([proc[p] EXCEPT !.at = a]) /\ [proc[p] EXCEPT !.at = a].at = a
    BY <1>1, ProcFields
  <2>2. CASE BeginRestore(p)
    BY <2>1, <2>2 DEF BeginRestore
  <2>3. CASE CopyBackup(p)
    <3> DEFINE y == [proc[p] EXCEPT !.at = "unlink"]
               z == [y EXCEPT !.snapshot = backup]
    <3>1. IsProc(y) /\ y.at = "unlink"
      BY <2>1
    <3>2. proc' = [proc EXCEPT ![p].at = "unlink", ![p].snapshot = backup]
      BY <2>3 DEF CopyBackup
    <3>3. proc' = [proc EXCEPT ![p] = z]
      BY <1>1, <3>2 DEF ProcOK
    <3> HIDE DEF y
    <3>4. IsState(backup)
      BY <1>1, <1>2 DEF FilesOK
    <3>5. IsProc(z) /\ z.at = "unlink"
      BY <3>1, <3>4, ProcFields
    <3> QED BY <3>3, <3>5
  <2>4. CASE RemoveSidecars(p)
    BY <2>1, <2>4 DEF RemoveSidecars
  <2>5. CASE Rename(p)
    BY <2>5, IdleOK DEF Rename
  <2> QED BY <2>2, <2>3, <2>4, <2>5
<1>6. ProcOK' /\ proc'[p] = x /\ \A q \in Processes \ {p} : proc'[q] = proc[q]
  BY <1>1, <1>5, ProcSet
<1>7. \A q \in Processes : ~Opened(q)' /\ (Restoring(q)' => q = p)
  BY <1>2, <1>5, <1>6 DEF Opened, Restoring
<1>8. RestoreAlone'
  BY <1>2, <1>3, <1>4, <1>7 DEF RestoreAlone
<1>9. MigratesNext'
  BY <1>7 DEF MigratesNext, Opened, Migrating
<1> QED BY <1>4, <1>6, <1>8, <1>9 DEF DatabaseInv

\* A process that dies leaves the files as they are.
LEMMA CrashKeeps ==
  ASSUME DatabaseInv, NEW p \in Processes, Crash(p)
  PROVE  DatabaseInv' /\ Live' = Live
<1>1. ProcOK' /\ proc'[p].at = "idle" /\ \A q \in Processes \ {p} : proc'[q] = proc[q]
  BY IdleOK, ProcSet DEF Crash, DatabaseInv
<1>2. UNCHANGED <<files, history>>
  BY DEF Crash
<1>3. \A q \in Processes : /\ Restoring(q)' => Restoring(q)
                           /\ Opened(q)' => Opened(q)
                           /\ Migrating(q)' => Migrating(q) /\ proc'[q] = proc[q]
  BY <1>1 DEF Restoring, Opened, Migrating
<1>4. FilesOK' /\ RowsKept' /\ Live' = Live
  BY <1>2 DEF files, history, DatabaseInv, FilesOK, RowsKept, Live
<1>5. wal' = wal /\ backup' = backup /\ risky' = risky /\ overlapped' = overlapped
  BY <1>2 DEF files, history
<1>7. RestoreAlone /\ MigratesNext
  BY DEF DatabaseInv
<1>8. RestoreAlone'
  <2> SUFFICES ASSUME NEW q \in Processes, Restoring(q)'
               PROVE  /\ \A r \in Processes : ~Opened(r)' /\ (Restoring(r)' => r = q)
                      /\ backup' # NoFile
                      /\ ~risky' => wal' = NoFile
    BY DEF RestoreAlone
  <2> QED BY <1>3, <1>5, <1>7 DEF RestoreAlone, Restoring, Opened
<1>9. MigratesNext'
  <2>1. ~overlapped' => \A q, r \in Processes : Migrating(q)' /\ Migrating(r)' => q = r
    BY <1>3, <1>5, <1>7 DEF MigratesNext, Migrating
  <2>2. ASSUME ~overlapped', NEW q \in Processes, Migrating(q)'
        PROVE  proc'[q].step[1] = Live'.version + 1
    BY <1>3, <1>4, <1>5, <1>7, <2>2 DEF MigratesNext, Migrating
  <2> QED BY <2>1, <2>2 DEF MigratesNext
<1> QED BY <1>1, <1>4, <1>8, <1>9 DEF DatabaseInv

\* A database as any release left it.
LEMMA InitDatabase == Init => DatabaseInv
<1> SUFFICES ASSUME Init PROVE DatabaseInv
  OBVIOUS
<1>1. FilesOK /\ RowsKept
  <2>1. PICK v \in 0 .. Latest : main = [version |-> v, schema |-> SchemaOf(v), rows |-> 0]
    BY DEF Init
  <2>2. IsState(main) /\ main.rows = 0
    <3>1. v \in Nat /\ 0 \in Nat
      OBVIOUS
    <3> QED BY <2>1, <3>1, Zenon DEF IsState
  <2> QED BY <2>2 DEF Init, FilesOK, RowsKept, Live
<1>2. ProcOK /\ \A p \in Processes : proc[p].at = "idle"
  BY IdleOK DEF Init, ProcOK
<1> QED BY <1>1, <1>2 DEF DatabaseInv, RestoreAlone, MigratesNext, Restoring, Migrating

\* user_version moves by the migrations alone, or by what VersionGoesUp excepts.
VersionStep ==
  overlapped' \/ risky' \/ (\E p \in Processes : At(p, "rename"))
    \/ Live'.version >= Live.version

\* Every step keeps the invariant, and counts up.
LEMMA DatabaseStep == DatabaseInv /\ [Next]_vars => DatabaseInv' /\ VersionStep
<1> SUFFICES ASSUME DatabaseInv, [Next]_vars PROVE DatabaseInv' /\ VersionStep
  OBVIOUS
<1>0. Live.version \in Nat
  BY LiveOK, StateFields DEF DatabaseInv
<1>1. ASSUME NEW p \in Processes, OpenDB(p) PROVE DatabaseInv' /\ VersionStep
  BY <1>0, <1>1, OpenKeeps DEF VersionStep
<1>2. ASSUME NEW p \in Processes, Exec(p) \/ ExecAdd(p) PROVE DatabaseInv' /\ VersionStep
  <2>1. Migrating(p)
    BY <1>2 DEF Exec, ExecAdd, At, Migrating
  <2>2. UNCHANGED <<main, backup, overlapped, acked, risky>>
    BY <1>2 DEF Exec, ExecAdd
  <2>3. \/ proc' = [proc EXCEPT ![p] = Idle] /\ UNCHANGED wal
        \/ proc' = [proc EXCEPT ![p] = NextStatement(p)] /\ UNCHANGED wal
        \/ proc' = [proc EXCEPT ![p] = [proc[p] EXCEPT !.at = "add"]] /\ UNCHANGED wal
        \/ /\ proc' = [proc EXCEPT ![p] = NextStatement(p)]
           /\ \E s : Commit([Live EXCEPT !.schema = s])
    <3>1. CASE Exec(p)
      BY <3>1 DEF Exec
    <3>2. CASE ExecAdd(p)
      BY <3>2 DEF ExecAdd
    <3> QED BY <1>2, <3>1, <3>2
  <2>4. DatabaseInv' /\ Live'.version = Live.version
    BY <2>1, <2>2, <2>3, StatementKeeps
  <2> QED BY <1>0, <2>4 DEF VersionStep
<1>3. ASSUME NEW p \in Processes, SetVersion(p) PROVE DatabaseInv' /\ VersionStep
  <2>1. UNCHANGED <<overlapped, risky>>
    BY <1>3 DEF SetVersion, history
  <2> QED BY <1>3, <2>1, SetVersionKeeps DEF VersionStep
<1>4. ASSUME NEW p \in Processes, Write(p) \/ Close(p) \/ BeginBackup(p) \/ FinishBackup(p)
      PROVE  DatabaseInv' /\ VersionStep
  BY <1>0, <1>4, OpenKeepsRows DEF VersionStep
<1>5. ASSUME NEW p \in Processes,
             BeginRestore(p) \/ CopyBackup(p) \/ RemoveSidecars(p) \/ Rename(p)
      PROVE  DatabaseInv' /\ VersionStep
  <2>1. risky => risky'
    BY <1>5 DEF BeginRestore, CopyBackup, RemoveSidecars, Rename, history
  <2> QED BY <1>0, <1>5, <2>1, RestoreKeeps DEF VersionStep
<1>6. ASSUME NEW p \in Processes, Crash(p) PROVE DatabaseInv' /\ VersionStep
  BY <1>0, <1>6, CrashKeeps DEF VersionStep
<1>7. CASE UNCHANGED vars
  <2>1. UNCHANGED <<main, wal, backup, proc, overlapped, acked, risky>> /\ Live' = Live
    BY <1>7 DEF vars, files, history, Live
  <2> QED BY <1>0, <2>1 DEF VersionStep, DatabaseInv, FilesOK, ProcOK, RestoreAlone, MigratesNext,
                            RowsKept, Restoring, Opened, Migrating
<1> QED BY <1>1, <1>2, <1>3, <1>4, <1>5, <1>6, <1>7 DEF Next

\* No committed row is lost and a restore replaces the file as a whole, however
\* many processes die and wherever (migrate, RestoreDBFile).
THEOREM CommittedRowsKept == Spec => []RowsKept
<1>1. DatabaseInv => RowsKept
  BY DEF DatabaseInv
<1> QED BY <1>1, InitDatabase, DatabaseStep, PTL DEF Spec

\* user_version counts up (migrate, setUserVersion): only a restore, the loss of
\* a WAL or two overlapping migrations take it back.
THEOREM VersionCountsUp == Spec => VersionGoesUp
<1>1. DatabaseInv /\ [Next]_vars => [VersionStep]_vars
  BY DatabaseStep
<1> QED BY <1>1, InitDatabase, DatabaseStep, PTL DEF Spec, VersionGoesUp, VersionStep

-----------------------------------------------------------------------------
\* The migrations one by one.
LEMMA Table ==
  /\ Latest = 8
  /\ Len(Migrations[1]) = 1 /\ DOMAIN Migrations[1] = 1 .. 1
  /\ Len(Migrations[2]) = 6 /\ DOMAIN Migrations[2] = 1 .. 6
  /\ Len(Migrations[3]) = 1 /\ DOMAIN Migrations[3] = 1 .. 1
  /\ Len(Migrations[4]) = 2 /\ DOMAIN Migrations[4] = 1 .. 2
  /\ Len(Migrations[5]) = 1 /\ DOMAIN Migrations[5] = 1 .. 1
  /\ Len(Migrations[6]) = 2 /\ DOMAIN Migrations[6] = 1 .. 2
  /\ Len(Migrations[7]) = 2 /\ DOMAIN Migrations[7] = 1 .. 2
  /\ Len(Migrations[8]) = 3 /\ DOMAIN Migrations[8] = 1 .. 3
BY DEF Migrations, Latest

\* What each of their statements is about.
LEMMA TableObjects ==
  /\ Migrations[1][1].object = "traffic"
  /\ Migrations[2][1].object = "repos" /\ Migrations[2][2].object = "stars"
  /\ Migrations[2][3].object = "referrers.count_delta"
  /\ Migrations[2][4].object = "referrers.uniques_delta"
  /\ Migrations[2][5].object = "paths.count_delta"
  /\ Migrations[2][6].object = "paths.uniques_delta"
  /\ Migrations[3][1].object = "repos.parent_full_name"
  /\ Migrations[4][1].object = "repos.last_seen_star_count"
  /\ Migrations[4][2].object = "repos.last_starred_at"
  /\ Migrations[5][1].object = "alert_debounce"
  /\ Migrations[6][1].object = "pins" /\ Migrations[6][2].object = "featured"
  /\ Migrations[7][1].object = "traffic_metric_state"
  /\ Migrations[7][2].object = "traffic_metric_coverage"
  /\ Migrations[8][1].object = "repos.github_visibility"
  /\ Migrations[8][2].object = "repos.report_policy"
  /\ Migrations[8][3].object = "repos_idx"
BY DEF Migrations, Create, Add, AddMissing

\* And what it does.
LEMMA TableKinds ==
  /\ Migrations[1][1].kind = "create"
  /\ \A i \in 1 .. 2 : Migrations[2][i].kind = "create"
  /\ \A i \in 3 .. 6 : Migrations[2][i].kind = "add"
  /\ Migrations[3][1].kind = "add"
  /\ \A i \in 1 .. 2 : Migrations[4][i].kind = "add"
  /\ Migrations[5][1].kind = "create"
  /\ \A i \in 1 .. 2 : Migrations[6][i].kind = "create"
  /\ \A i \in 1 .. 2 : Migrations[7][i].kind = "create"
  /\ \A i \in 1 .. 2 : Migrations[8][i].kind = "check"
  /\ Migrations[8][3].kind = "create"
BY DEF Migrations, Create, Add, AddMissing

\* A migration has its statements in a row.
LEMMA Statements ==
  \A v \in 1 .. Latest :
    Len(Migrations[v]) \in Nat /\ DOMAIN Migrations[v] = 1 .. Len(Migrations[v])
BY Table

\* Columns are added blindly by v2, v3 and v4, and after a look by v8.
LEMMA Kinds ==
  \A v \in 1 .. Latest : \A i \in DOMAIN Migrations[v] :
    /\ Migrations[v][i].kind \in {"create", "add", "check"}
    /\ Migrations[v][i].kind = "add" => v \in 2 .. 4
    /\ Migrations[v][i].kind = "check" => v = 8
BY Table, TableKinds

\* No two statements are about the same object.
LEMMA Distinct ==
  \A v, u \in 1 .. Latest : \A i \in DOMAIN Migrations[v], k \in DOMAIN Migrations[u] :
    Migrations[v][i].object = Migrations[u][k].object => v = u /\ i = k
BY Table, TableObjects, SMTT(60)

-----------------------------------------------------------------------------

\* Migration v, from its statement j on, finds none of its columns there.
Missing(s, v, j) ==
  \A i \in DOMAIN Migrations[v] :
    i >= j /\ Migrations[v][i].kind = "add" => Migrations[v][i].object \notin s

\* No migration above version n finds a column there.
Startable(n, s) == \A v \in n + 1 .. Latest : Missing(s, v, 1)

\* A file nobody is migrating: every start succeeds, or somebody died half-way through
\* v2, v3 or v4, and the columns of the migrations after it are missing still.
AtRest(n, s, k) ==
  /\ Startable(n + 1, s)
  /\ Startable(n, s) \/ (k > 0 /\ n \in 1 .. 3)
Rests(c) == AtRest(c.version, c.schema, crashes)

\* Where a migration stands; v8 looks before it adds.
StepOK ==
  \A p \in Processes : Migrating(p) =>
    /\ proc[p].step[1] \in 1 .. Latest /\ proc[p].step[2] \in Nat \ {0}
    /\ At(p, "add") => /\ proc[p].step[2] \in DOMAIN Migrations[proc[p].step[1]]
                       /\ Statement(p).kind = "check"

\* The migrations that add columns blindly have the file to themselves.
OneBelow ==
  \A p \in Processes : Migrating(p) =>
    /\ proc[p].step[1] <= 4 => /\ proc[p].step[1] = Live.version + 1
                               /\ \A q \in Processes : Migrating(q) => q = p
    /\ proc[p].step[1] > 4 => Live.version >= 4

\* A process at work keeps the file above them.
OpenAbove == \A p \in Processes : At(p, "open") \/ At(p, "backup") => Live.version >= 4

\* What v8 saw missing is missing unless somebody else migrates.
LookedRight ==
  ~overlapped => \A p \in Processes : At(p, "add") => Statement(p).object \notin Live.schema

\* The files, and the one that is being migrated.
FilesRest ==
  /\ Rests(main) /\ (backup # NoFile => Rests(backup))
  /\ \A p \in Processes : Rests(proc[p].snapshot)
LiveRests ==
  /\ Startable(Live.version + 1, Live.schema)
  /\ \A p \in Processes : Migrating(p) /\ crashes = 0 /\ proc[p].step[1] <= 4 =>
       Missing(Live.schema, proc[p].step[1], proc[p].step[2])
  /\ (\A p \in Processes : ~Migrating(p)) => Rests(Live)
RefusedOK == refused \subseteq 1 .. 3 \/ overlapped

StartFacts ==
  /\ crashes \in Nat
  /\ OneBelow /\ OpenAbove /\ LookedRight /\ FilesRest /\ LiveRests /\ RefusedOK
StartInv == DatabaseInv /\ StepOK /\ StartFacts

\* Above version 3 there is no blind column to add, whatever the schema.
LEMMA HighRests ==
  ASSUME NEW n \in Nat, n >= 4, NEW s, NEW k
  PROVE  AtRest(n, s, k) /\ Startable(n, s) /\ Startable(n + 1, s)
<1>1. \A v \in n + 1 .. Latest : v \in 1 .. Latest /\ v > 4
  BY Table
<1>2. \A v \in n + 1 .. Latest : Missing(s, v, 1)
  BY <1>1, Kinds DEF Missing
<1>3. \A v \in n + 1 + 1 .. Latest : v \in n + 1 .. Latest
  BY Table
<1>4. Startable(n, s) /\ Startable(n + 1, s)
  BY <1>2, <1>3 DEF Startable
<1> QED BY <1>4 DEF AtRest

\* A file that rests without a death lets every start succeed.
LEMMA RestsStart ==
  ASSUME NEW n \in Nat, NEW s, NEW k \in Nat, AtRest(n, s, k)
  PROVE  /\ Startable(n, s) \/ (k > 0 /\ n \in 1 .. 3)
         /\ AtRest(n, s, k + 1)
         /\ k = 0 /\ n + 1 <= Latest => Missing(s, n + 1, 1)
         /\ Startable(n + 1, s)
<1>1. n + 1 <= Latest => n + 1 \in n + 1 .. Latest
  BY Table
<1> QED BY <1>1 DEF AtRest, Startable

\* A blank file rests.
LEMMA BlankRests == \A k \in Nat : AtRest(0, {}, k)
<1>1. \A v \in Nat : Missing({}, v, 1)
  BY DEF Missing
<1>2. Startable(0, {}) /\ Startable(0 + 1, {})
  BY <1>1, Table DEF Startable
<1> QED BY <1>2 DEF AtRest

\* A statement of v touches no column of a later statement.
LEMMA StatementMisses ==
  ASSUME NEW v \in 1 .. Latest, NEW j \in DOMAIN Migrations[v], NEW s
  PROVE  LET t == s \union {Migrations[v][j].object}
         IN /\ Startable(v, s) => Startable(v, t)
            /\ Missing(s, v, j) => Missing(t, v, j + 1)
<1> DEFINE o == Migrations[v][j].object
           t == s \union {o}
<1>1. ASSUME NEW u \in v + 1 .. Latest, Missing(s, u, 1) PROVE Missing(t, u, 1)
  <2>1. u \in 1 .. Latest /\ u # v
    BY Table
  <2>2. \A i \in DOMAIN Migrations[u] : Migrations[u][i].object # o
    BY <2>1, Distinct
  <2> HIDE DEF o
  <2> QED BY <1>1, <2>2 DEF Missing
<1>2. ASSUME Missing(s, v, j) PROVE Missing(t, v, j + 1)
  <2>0. j \in Nat /\ \A i \in DOMAIN Migrations[v] : i \in Nat
    BY Statements
  <2>1. \A i \in DOMAIN Migrations[v] : i >= j + 1 => Migrations[v][i].object # o /\ i >= j
    BY <2>0, Distinct
  <2> HIDE DEF o
  <2> QED BY <1>2, <2>1 DEF Missing
<1> QED BY <1>1, <1>2 DEF Startable

\* v1 adds no column, so the next statement of a fresh file finds none.
LEMMA FirstMisses == \A s, j : Missing(s, 1, j)
BY Table, Kinds DEF Missing

-----------------------------------------------------------------------------

\* What a step of p leaves of the other processes.
Others(p) == \A q \in Processes \ {p} : proc'[q] = proc[q]
SameLive == Live'.version = Live.version /\ Live'.schema = Live.schema

\* Where p is after a step.
Lands(p, a, v, j, c) ==
  /\ Others(p)
  /\ proc'[p].at = a /\ proc'[p].step[1] = v /\ proc'[p].step[2] = j /\ proc'[p].snapshot = c

\* It lands where its new entry says.
LEMMA Landing ==
  ASSUME ProcOK, NEW p \in Processes, NEW x, IsProc(x), proc' = [proc EXCEPT ![p] = x]
  PROVE  Lands(p, x.at, x.step[1], x.step[2], x.snapshot)
BY ProcSet DEF Lands, Others

\* Opening reads the version and starts with the migration above it.
LEMMA OpenEffect ==
  ASSUME DatabaseInv, NEW p \in Processes, OpenDB(p)
  PROVE  /\ UNCHANGED <<main, wal, backup, crashes, refused, Live>>
         /\ overlapped' =
              (overlapped \/ (Live.version < Latest /\ \E q \in Processes : Migrating(q)))
         /\ ~Migrating(p) /\ ~At(p, "open") /\ ~At(p, "backup")
         /\ Live.version < OverlapFrom => \A q \in Processes : ~Migrating(q)
         /\ \A q \in Processes : ~Restoring(q)
         /\ Lands(p, IF Live.version < Latest THEN "migrate" ELSE "open",
                  Live.version + 1, 1, Empty)
<1> DEFINE a == IF Live.version < Latest THEN "migrate" ELSE "open"
           x == [Idle EXCEPT !.at = a, !.step = <<Live.version + 1, 1>>]
<1>1. Live.version + 1 \in Nat
  BY LiveOK, StateFields DEF DatabaseInv
<1>2. x = [[Idle EXCEPT !.at = a] EXCEPT !.step = <<Live.version + 1, 1>>]
  OBVIOUS
<1>3. proc' = [proc EXCEPT ![p] = x]
  BY DEF OpenDB
<1> HIDE DEF a
<1>4. IsProc(x) /\ x.at = a /\ x.step[1] = Live.version + 1 /\ x.step[2] = 1 /\ x.snapshot = Empty
  <2> DEFINE y == [Idle EXCEPT !.at = a]
  <2>1. IsProc(y) /\ y.at = a /\ y.snapshot = Empty
    BY IdleAt
  <2>2. x = [y EXCEPT !.step = <<Live.version + 1, 1>>]
    BY <1>2
  <2> HIDE DEF x, y
  <2> QED BY <1>1, <2>1, <2>2, ProcFields
<1> HIDE DEF x
<1>5. Lands(p, a, Live.version + 1, 1, Empty)
  <2>1. Lands(p, x.at, x.step[1], x.step[2], x.snapshot)
    BY <1>3, <1>4, Landing DEF DatabaseInv
  <2> QED BY <1>4, <2>1
<1>6. UNCHANGED <<main, wal, backup, crashes, refused, Live>>
  BY DEF OpenDB, files, Live
<1>7. ~Migrating(p) /\ ~At(p, "open") /\ ~At(p, "backup")
  BY DEF OpenDB, At, Migrating
<1> QED BY <1>5, <1>6, <1>7 DEF OpenDB, a

\* An idle entry.
LEMMA Leaving ==
  ASSUME ProcOK, NEW p \in Processes, proc' = [proc EXCEPT ![p] = Idle]
  PROVE  Others(p) /\ proc'[p].at = "idle" /\ proc'[p].snapshot = Empty
BY IdleOK, ProcSet DEF Others

\* The three things a statement of a migration comes to.
Looks(p, v, j) ==
  /\ SameLive /\ UNCHANGED <<wal, refused>> /\ Migrations[v][j].kind = "check"
  /\ \/ Lands(p, "migrate", v, j + 1, proc[p].snapshot) /\ Migrations[v][j].object \in Live.schema
     \/ Lands(p, "add", v, j, proc[p].snapshot) /\ Migrations[v][j].object \notin Live.schema
GivesUp(p, v, j) ==
  /\ SameLive /\ UNCHANGED wal /\ refused' = refused \union {Live.version}
  /\ Others(p) /\ proc'[p].at = "idle" /\ proc'[p].snapshot = Empty
  /\ Migrations[v][j].object \in Live.schema
  /\ (At(p, "migrate") /\ Migrations[v][j].kind = "add") \/ At(p, "add")
Commits(p, v, j) ==
  /\ Live'.version = Live.version
  /\ Live'.schema = Live.schema \union {Migrations[v][j].object}
  /\ refused' = refused
  /\ Lands(p, "migrate", v, j + 1, proc[p].snapshot)

\* A statement looks, gives up or commits.
LEMMA StatementEffect ==
  ASSUME DatabaseInv, StepOK, NEW p \in Processes, Exec(p) \/ ExecAdd(p)
  PROVE  LET v == proc[p].step[1]
             j == proc[p].step[2]
         IN /\ UNCHANGED <<main, backup, crashes, overlapped, risky>> /\ Live'.rows = Live.rows
            /\ Migrating(p) /\ v \in 1 .. Latest /\ j \in DOMAIN Migrations[v]
            /\ Looks(p, v, j) \/ GivesUp(p, v, j) \/ Commits(p, v, j)
<1> DEFINE v == proc[p].step[1]
           j == proc[p].step[2]
           o == Migrations[v][j].object
<1>1. UNCHANGED <<main, backup, crashes, overlapped, risky, acked>>
  BY DEF Exec, ExecAdd
<1>2. Migrating(p)
  BY DEF Exec, ExecAdd, At, Migrating
<1>3. v \in 1 .. Latest /\ j \in Nat \ {0}
  BY <1>2 DEF StepOK
<1>4. j \in DOMAIN Migrations[v]
  <2>1. CASE ExecAdd(p)
    BY <1>2, <2>1 DEF ExecAdd, StepOK
  <2>2. CASE Exec(p)
    <3>1. j <= Len(Migrations[v])
      BY <2>2 DEF Exec
    <3>2. Len(Migrations[v]) \in Nat /\ DOMAIN Migrations[v] = 1 .. Len(Migrations[v])
      BY <1>3, Statements
    <3> HIDE DEF v, j
    <3> QED BY <1>3, <3>1, <3>2
  <2> QED BY <2>1, <2>2
<1>5. IsProc(proc[p]) /\ ProcOK /\ FilesOK /\ IsState(Live) /\ acked' \in Nat
  BY <1>1, LiveOK DEF DatabaseInv, ProcOK, FilesOK
<1>6. UNCHANGED wal => SameLive /\ Live'.rows = Live.rows
  BY <1>1 DEF Live, SameLive
<1>7. proc' = [proc EXCEPT ![p] = NextStatement(p)] =>
        Lands(p, "migrate", v, j + 1, proc[p].snapshot)
  <2> SUFFICES ASSUME proc' = [proc EXCEPT ![p] = NextStatement(p)]
               PROVE  Lands(p, "migrate", v, j + 1, proc[p].snapshot)
    OBVIOUS
  <2> DEFINE x == NextStatement(p)
  <2>1. IsProc(x) /\ x.at = "migrate" /\ x.step[1] = v /\ x.step[2] = j + 1
        /\ x.snapshot = proc[p].snapshot
    BY <1>5, AfterStatement
  <2>2. proc' = [proc EXCEPT ![p] = x]
    OBVIOUS
  <2> HIDE DEF x
  <2>3. Lands(p, x.at, x.step[1], x.step[2], x.snapshot)
    BY <1>5, <2>1, <2>2, Landing
  <2> QED BY <2>1, <2>3
<1>8. proc' = [proc EXCEPT ![p] = [proc[p] EXCEPT !.at = "add"]] =>
        Lands(p, "add", v, j, proc[p].snapshot)
  <2> DEFINE x == [proc[p] EXCEPT !.at = "add"]
  <2>1. IsProc(x) /\ x.at = "add" /\ x.step = proc[p].step /\ x.snapshot = proc[p].snapshot
    BY <1>5, ProcFields
  <2> SUFFICES ASSUME proc' = [proc EXCEPT ![p] = x]
               PROVE  Lands(p, "add", v, j, proc[p].snapshot)
    OBVIOUS
  <2> HIDE DEF x
  <2>2. Lands(p, x.at, x.step[1], x.step[2], x.snapshot)
    BY <1>5, <2>1, Landing
  <2> QED BY <2>1, <2>2
<1>9. proc' = [proc EXCEPT ![p] = Idle] =>
        Others(p) /\ proc'[p].at = "idle" /\ proc'[p].snapshot = Empty
  BY <1>5, Leaving
<1>10. Commit([Live EXCEPT !.schema = @ \union {o}]) =>
         /\ Live'.version = Live.version /\ Live'.schema = Live.schema \union {o}
         /\ Live'.rows = Live.rows
  <2> DEFINE t == Live.schema \union {o}
             c == [Live EXCEPT !.schema = t]
  <2>1. IsState(c) /\ c.version = Live.version /\ c.schema = t /\ c.rows = Live.rows
    <3> HIDE DEF t
    <3> QED BY <1>5, StateFields
  <2> SUFFICES ASSUME Commit(c)
               PROVE  /\ Live'.version = Live.version /\ Live'.schema = t
                      /\ Live'.rows = Live.rows
    OBVIOUS
  <2> HIDE DEF c, t
  <2>2. Live' = c
    BY <1>1, <1>5, <2>1, Committed
  <2> QED BY <2>1, <2>2
<1>11. Statement(p) = Migrations[v][j]
  BY DEF Statement
<1>12. (Looks(p, v, j) \/ GivesUp(p, v, j) \/ Commits(p, v, j)) /\ Live'.rows = Live.rows
  <2>1. CASE Exec(p)
    <3> DEFINE s == Migrations[v][j]
               there == o \in Live.schema
    <3>1. CASE /\ s.kind = "check"
               /\ proc' = [proc EXCEPT ![p] = IF there THEN NextStatement(p)
                                              ELSE [proc[p] EXCEPT !.at = "add"]]
               /\ UNCHANGED <<wal, refused>>
      BY <1>6, <1>7, <1>8, <3>1 DEF Looks
    <3>2. CASE /\ s.kind = "add" /\ there
               /\ refused' = refused \union {Live.version}
               /\ proc' = [proc EXCEPT ![p] = Idle]
               /\ UNCHANGED wal
      <4>1. At(p, "migrate")
        BY <2>1 DEF Exec
      <4> QED BY <1>6, <1>9, <3>2, <4>1 DEF GivesUp
    <3>3. CASE /\ s.kind = "create" \/ (s.kind = "add" /\ ~there)
               /\ Commit([Live EXCEPT !.schema = @ \union {o}])
               /\ proc' = [proc EXCEPT ![p] = NextStatement(p)]
               /\ UNCHANGED refused
      BY <1>7, <1>10, <3>3 DEF Commits
    <3> HIDE DEF v, j
    <3> QED BY <1>11, <2>1, <3>1, <3>2, <3>3 DEF Exec
  <2>2. CASE ExecAdd(p)
    <3>1. CASE o \in Live.schema
      <4>1. /\ refused' = refused \union {Live.version} /\ proc' = [proc EXCEPT ![p] = Idle]
            /\ UNCHANGED wal /\ At(p, "add")
        BY <1>11, <2>2, <3>1 DEF ExecAdd
      <4> QED BY <1>6, <1>9, <3>1, <4>1 DEF GivesUp
    <3>2. CASE o \notin Live.schema
      <4>1. /\ Commit([Live EXCEPT !.schema = @ \union {o}])
            /\ proc' = [proc EXCEPT ![p] = NextStatement(p)] /\ UNCHANGED refused
        BY <1>11, <2>2, <3>2 DEF ExecAdd
      <4> QED BY <1>7, <1>10, <4>1 DEF Commits
    <3> QED BY <3>1, <3>2
  <2> QED BY <2>1, <2>2
<1> QED BY <1>1, <1>2, <1>3, <1>4, <1>12

\* The version of a migration that is through; the next one follows, or the work.
LEMMA VersionEffect ==
  ASSUME DatabaseInv, StepOK, NEW p \in Processes, SetVersion(p)
  PROVE  LET v == proc[p].step[1]
         IN /\ UNCHANGED <<main, backup, crashes, overlapped, refused, risky>>
            /\ At(p, "migrate") /\ Migrating(p) /\ v \in 1 .. Latest
            /\ proc[p].step[2] \in Nat /\ proc[p].step[2] > Len(Migrations[v])
            /\ Live'.version = v /\ Live'.schema = Live.schema /\ Live'.rows = Live.rows
            /\ Others(p)
            /\ \/ proc'[p].at = "open" /\ v = Latest /\ proc'[p].snapshot = Empty
               \/ v # Latest /\ Lands(p, "migrate", v + 1, 1, proc[p].snapshot)
<1> DEFINE v == proc[p].step[1]
           c == [Live EXCEPT !.version = v]
           done == [Idle EXCEPT !.at = "open"]
           y == [proc[p] EXCEPT !.step = <<v + 1, 1>>]
<1>1. /\ UNCHANGED <<main, backup, crashes, overlapped, refused, acked, risky>>
      /\ At(p, "migrate") /\ proc[p].step[2] > Len(Migrations[v]) /\ Commit(c)
      /\ proc' = [proc EXCEPT ![p] = IF v = Latest THEN done ELSE y]
  BY DEF SetVersion, history
<1>2. Migrating(p)
  BY <1>1 DEF At, Migrating
<1>3. v \in 1 .. Latest /\ proc[p].step[2] \in Nat
  BY <1>2 DEF StepOK
<1>4. IsProc(proc[p]) /\ ProcOK /\ FilesOK /\ IsState(Live) /\ acked' \in Nat
  BY <1>1, LiveOK DEF DatabaseInv, ProcOK, FilesOK
<1>5. v \in Nat /\ v + 1 \in Nat
  BY <1>3
<1>6. IsState(c) /\ c.version = v /\ c.schema = Live.schema /\ c.rows = Live.rows
  <2> HIDE DEF v
  <2> QED BY <1>4, <1>5, StateFields
<1>7. Live' = c
  <2> HIDE DEF c
  <2> QED BY <1>1, <1>4, <1>6, Committed
<1>8. IsProc(done) /\ done.at = "open" /\ done.snapshot = Empty
  BY IdleAt
<1>9. IsProc(y) /\ y.at = "migrate" /\ y.step[1] = v + 1 /\ y.step[2] = 1
      /\ y.snapshot = proc[p].snapshot
  <2>1. proc[p].at = "migrate"
    BY <1>1 DEF At
  <2> HIDE DEF v
  <2> QED BY <1>4, <1>5, <2>1, ProcFields
<1> HIDE DEF c, done, y
<1>10. CASE v = Latest
  <2>1. proc' = [proc EXCEPT ![p] = done]
    BY <1>1, <1>10
  <2>2. Lands(p, done.at, done.step[1], done.step[2], done.snapshot)
    BY <1>4, <1>8, <2>1, Landing
  <2> QED BY <1>1, <1>2, <1>3, <1>6, <1>7, <1>8, <1>10, <2>2 DEF Lands
<1>11. CASE v # Latest
  <2>1. proc' = [proc EXCEPT ![p] = y]
    BY <1>1, <1>11
  <2>2. Lands(p, y.at, y.step[1], y.step[2], y.snapshot)
    BY <1>4, <1>9, <2>1, Landing
  <2> QED BY <1>1, <1>2, <1>3, <1>6, <1>7, <1>9, <1>11, <2>2 DEF Lands
<1> QED BY <1>10, <1>11

\* A write changes the rows alone.
LEMMA WriteEffect ==
  ASSUME DatabaseInv, NEW p \in Processes, Write(p)
  PROVE  /\ UNCHANGED <<main, backup, proc, crashes, overlapped, refused, risky>>
         /\ SameLive /\ Live'.rows <= MaxRows
<1> DEFINE c == [Live EXCEPT !.rows = Live.rows + 1]
<1>1. IsState(Live) /\ FilesOK
  BY LiveOK DEF DatabaseInv
<1>2. /\ IsState(c) /\ c.version = Live.version /\ c.schema = Live.schema
      /\ Live.rows + 1 \in Nat /\ Live.rows \in Nat /\ c.rows = Live.rows + 1
  BY <1>1, StateFields
<1>3. /\ UNCHANGED <<main, backup, proc, crashes, overlapped, refused, risky>>
      /\ Commit(c) /\ acked' = acked + 1 /\ Live.rows < MaxRows
  BY DEF Write
<1> HIDE DEF c
<1>4. Live' = c
  BY <1>1, <1>2, <1>3, Committed DEF FilesOK
<1>5. Live'.rows <= MaxRows
  BY <1>2, <1>3, <1>4, DatabaseAssumption
<1> QED BY <1>2, <1>3, <1>4, <1>5 DEF SameLive

\* The last connection brings the file up to what it stood for.
LEMMA CloseEffect ==
  ASSUME DatabaseInv, NEW p \in Processes, Close(p)
  PROVE  /\ UNCHANGED <<backup, crashes, overlapped, refused, risky, Live>>
         /\ At(p, "open") /\ Others(p) /\ proc'[p].at = "idle" /\ proc'[p].snapshot = Empty
         /\ main' = main \/ (main' = Live /\ \A q \in Processes : ~Migrating(q))
<1>1. Others(p) /\ proc'[p].at = "idle" /\ proc'[p].snapshot = Empty
  BY Leaving DEF Close, DatabaseInv
<1>2. UNCHANGED <<backup, crashes, overlapped, refused, risky>> /\ At(p, "open") /\ ~Migrating(p)
  BY DEF Close, history, At, Migrating
<1>3. CASE \A q \in Processes \ {p} : ~Opened(q)
  <2>1. main' = Live /\ wal' = NoFile
    BY <1>3 DEF Close
  <2>2. \A q \in Processes : ~Migrating(q)
    BY <1>2, <1>3 DEF Opened, Migrating
  <2> QED BY <1>1, <1>2, <2>1, <2>2 DEF Live
<1>4. CASE ~\A q \in Processes \ {p} : ~Opened(q)
  BY <1>1, <1>2, <1>4 DEF Close, Live
<1> QED BY <1>3, <1>4

\* The entry of a process that moves on with another snapshot.
LEMMA Turning ==
  ASSUME ProcOK, NEW p \in Processes, NEW a, NEW c, IsState(c),
         proc' = [proc EXCEPT ![p].at = a, ![p].snapshot = c]
  PROVE  Others(p) /\ proc'[p].at = a /\ proc'[p].snapshot = c
<1> DEFINE y == [proc[p] EXCEPT !.at = a]
           x == [y EXCEPT !.snapshot = c]
<1>1. IsProc(proc[p])
  BY DEF ProcOK
<1>2. IsProc(y) /\ y.at = a
  BY <1>1, ProcFields
<1>3. proc' = [proc EXCEPT ![p] = x]
  BY DEF ProcOK
<1> HIDE DEF y
<1>4. IsProc(x) /\ x.at = a /\ x.snapshot = c
  BY <1>2, ProcFields
<1> HIDE DEF x
<1> QED BY <1>3, <1>4, ProcSet DEF Others

\* A backup holds what the file stood for when it began.
LEMMA BackupEffect ==
  ASSUME DatabaseInv, NEW p \in Processes, BeginBackup(p) \/ FinishBackup(p)
  PROVE  /\ UNCHANGED <<main, wal, crashes, overlapped, refused, risky, Live>> /\ Others(p)
         /\ \/ /\ At(p, "open") /\ proc'[p].at = "backup" /\ proc'[p].snapshot = Live
               /\ backup' = Empty
            \/ /\ At(p, "backup") /\ proc'[p].at = "open" /\ proc'[p].snapshot = Empty
               /\ backup' = proc[p].snapshot
<1>1. UNCHANGED <<main, wal, crashes, overlapped, refused, risky, Live>>
  BY DEF BeginBackup, FinishBackup, history, Live
<1>2. CASE BeginBackup(p)
  <2>1. IsState(Live)
    BY LiveOK DEF DatabaseInv
  <2>2. proc' = [proc EXCEPT ![p].at = "backup", ![p].snapshot = Live]
    BY <1>2 DEF BeginBackup
  <2>3. Others(p) /\ proc'[p].at = "backup" /\ proc'[p].snapshot = Live
    BY <2>1, <2>2, Turning DEF DatabaseInv
  <2> QED BY <1>1, <1>2, <2>3 DEF BeginBackup
<1>3. CASE FinishBackup(p)
  <2>2. proc' = [proc EXCEPT ![p].at = "open", ![p].snapshot = Empty]
    BY <1>3 DEF FinishBackup
  <2>3. Others(p) /\ proc'[p].at = "open" /\ proc'[p].snapshot = Empty
    BY <2>2, IdleOK, Turning DEF DatabaseInv
  <2> QED BY <1>1, <1>3, <2>3 DEF FinishBackup
<1> QED BY <1>2, <1>3

\* A restore turns the file into itself without its WAL, or into the backup.
LEMMA RestoreEffect ==
  ASSUME DatabaseInv, NEW p \in Processes,
         BeginRestore(p) \/ CopyBackup(p) \/ RemoveSidecars(p) \/ Rename(p)
  PROVE  /\ UNCHANGED <<backup, crashes, overlapped, refused>> /\ Others(p)
         /\ \A q \in Processes : ~Opened(q) /\ ~(Opened(q)')
         /\ proc'[p].snapshot \in {proc[p].snapshot, backup, Empty}
         /\ proc'[p].snapshot = backup => IsState(backup)
         /\ main' \in {main, proc[p].snapshot} /\ Live' \in {Live, main, main'}
<1>1. IsProc(proc[p]) /\ FilesOK /\ ProcOK
  BY DEF DatabaseInv, ProcOK
<1>2. (\A q \in Processes : ~Opened(q)) /\ backup # NoFile
  <2>1. Restoring(p) => (\A q \in Processes : ~Opened(q)) /\ backup # NoFile
    BY DEF DatabaseInv, RestoreAlone
  <2> QED BY <2>1 DEF BeginRestore, CopyBackup, RemoveSidecars, Rename, Restoring, At
<1>3. UNCHANGED <<backup, crashes, overlapped, refused>>
  BY DEF BeginRestore, CopyBackup, RemoveSidecars, Rename, history, files
<1>4. IsState(backup)
  BY <1>1, <1>2 DEF FilesOK
<1>5. ASSUME NEW a, proc' = [proc EXCEPT ![p].at = a]
      PROVE  Others(p) /\ proc'[p].at = a /\ proc'[p].snapshot = proc[p].snapshot
  <2> DEFINE x == [proc[p] EXCEPT !.at = a]
  <2>1. IsProc(x) /\ x.at = a /\ x.snapshot = proc[p].snapshot
    BY <1>1, ProcFields
  <2>2. proc' = [proc EXCEPT ![p] = x]
    BY <1>1, <1>5 DEF ProcOK
  <2> HIDE DEF x
  <2> QED BY <1>1, <2>1, <2>2, ProcSet DEF Others
<1>6. /\ Others(p) /\ proc'[p].at \in {"idle", "copy", "unlink", "rename"}
      /\ proc'[p].snapshot \in {proc[p].snapshot, backup, Empty}
      /\ main' \in {main, proc[p].snapshot} /\ Live' \in {Live, main, main'}
  <2>1. CASE BeginRestore(p)
    <3>1. proc' = [proc EXCEPT ![p].at = "copy"] /\ main' = main /\ Live' = Live
      BY <2>1 DEF BeginRestore, files, Live
    <3> QED BY <1>5, <3>1
  <2>2. CASE CopyBackup(p)
    <3>1. /\ proc' = [proc EXCEPT ![p].at = "unlink", ![p].snapshot = backup]
          /\ main' = main /\ Live' = Live
      BY <2>2 DEF CopyBackup, files, Live
    <3> QED BY <1>1, <1>4, <3>1, Turning
  <2>3. CASE RemoveSidecars(p)
    <3>1. proc' = [proc EXCEPT ![p].at = "rename"] /\ main' = main /\ Live' \in {Live, main}
      BY <2>3 DEF RemoveSidecars, Live
    <3> QED BY <1>5, <3>1
  <2>4. CASE Rename(p)
    <3>1. main' \in {main, proc[p].snapshot} /\ Live' \in {Live, main'}
      BY <2>4 DEF Rename, Live
    <3>2. Others(p) /\ proc'[p].at = "idle" /\ proc'[p].snapshot = Empty
      BY <1>1, <2>4, Leaving DEF Rename
    <3> QED BY <3>1, <3>2
  <2> QED BY <2>1, <2>2, <2>3, <2>4
<1>7. \A q \in Processes : ~(Opened(q)')
  BY <1>2, <1>6 DEF Others, Opened
<1> QED BY <1>2, <1>3, <1>4, <1>6, <1>7

\* A death leaves the files, and an idle entry.
LEMMA CrashEffect ==
  ASSUME DatabaseInv, NEW p \in Processes, Crash(p)
  PROVE  /\ UNCHANGED <<main, wal, backup, overlapped, refused, risky, Live>>
         /\ crashes' = crashes + 1
         /\ Others(p) /\ proc'[p].at = "idle" /\ proc'[p].snapshot = Empty
<1>1. Others(p) /\ proc'[p].at = "idle" /\ proc'[p].snapshot = Empty
  BY Leaving DEF Crash, DatabaseInv
<1> QED BY <1>1 DEF Crash, files, history, Live

-----------------------------------------------------------------------------

\* A process that does not step stays where it is.
LEMMA Elsewhere ==
  ASSUME NEW p \in Processes, Others(p), NEW q \in Processes, q # p
  PROVE  /\ proc'[q] = proc[q] /\ (Migrating(q)' <=> Migrating(q))
         /\ \A a : At(q, a)' <=> At(q, a)
         /\ Statement(q)' = Statement(q)
BY DEF Others, Migrating, At, Statement

\* Where the other migrations stand is where they stood.
LEMMA StepMoves ==
  ASSUME StepOK, NEW p \in Processes, Others(p),
         Migrating(p)' =>
           /\ proc'[p].step[1] \in 1 .. Latest /\ proc'[p].step[2] \in Nat \ {0}
           /\ At(p, "add")' => /\ proc'[p].step[2] \in DOMAIN Migrations[proc'[p].step[1]]
                               /\ (Statement(p)').kind = "check"
  PROVE  StepOK'
<1>1. ASSUME NEW q \in Processes, Migrating(q)'
      PROVE  /\ proc'[q].step[1] \in 1 .. Latest /\ proc'[q].step[2] \in Nat \ {0}
             /\ At(q, "add")' => /\ proc'[q].step[2] \in DOMAIN Migrations[proc'[q].step[1]]
                                 /\ (Statement(q)').kind = "check"
  <2>1. CASE q = p
    BY <1>1, <2>1
  <2>2. CASE q # p
    BY <1>1, <2>2, Elsewhere DEF StepOK
  <2> QED BY <2>1, <2>2
<1> QED BY <1>1 DEF StepOK

\* A migration stands at one of its statements, or past the last.
LEMMA StepKept == DatabaseInv /\ StepOK /\ [Next]_vars => StepOK'
<1> SUFFICES ASSUME DatabaseInv, StepOK, [Next]_vars PROVE StepOK'
  OBVIOUS
<1>1. ASSUME NEW p \in Processes, OpenDB(p) PROVE StepOK'
  <2> PICK n : n = Live.version
    OBVIOUS
  <2>1. n \in Nat /\ Latest = 8
    BY LiveOK, StateFields, Table DEF DatabaseInv
  <2>2. Lands(p, IF n < Latest THEN "migrate" ELSE "open", n + 1, 1, Empty)
    BY <1>1, OpenEffect
  <2>3. /\ Others(p) /\ proc'[p].step[1] = n + 1 /\ proc'[p].step[2] = 1
        /\ Migrating(p)' => n < Latest
        /\ ~(At(p, "add")')
    BY <2>2 DEF Lands, Migrating, At
  <2>4. n < Latest => n + 1 \in 1 .. Latest
    BY <2>1
  <2> QED BY <2>3, <2>4, StepMoves
<1>2. ASSUME NEW p \in Processes, Exec(p) \/ ExecAdd(p) PROVE StepOK'
  <2> PICK v, j : v = proc[p].step[1] /\ j = proc[p].step[2]
    OBVIOUS
  <2>1. /\ Migrating(p) /\ v \in 1 .. Latest /\ j \in DOMAIN Migrations[v]
        /\ Looks(p, v, j) \/ GivesUp(p, v, j) \/ Commits(p, v, j)
    BY <1>2, StatementEffect
  <2>2. j \in Nat \ {0} /\ j + 1 \in Nat \ {0}
    BY <2>1 DEF StepOK
  <2>3. Others(p)
    BY <2>1 DEF Looks, GivesUp, Commits, Lands
  <2>4. ASSUME Migrating(p)'
        PROVE  /\ proc'[p].step[1] \in 1 .. Latest /\ proc'[p].step[2] \in Nat \ {0}
               /\ At(p, "add")' => /\ proc'[p].step[2] \in DOMAIN Migrations[proc'[p].step[1]]
                                   /\ (Statement(p)').kind = "check"
    <3>1. Looks(p, v, j) \/ Commits(p, v, j)
      BY <2>1, <2>4 DEF GivesUp, Migrating
    <3>2. proc'[p].step[1] = v /\ proc'[p].step[2] \in {j, j + 1}
      BY <3>1 DEF Looks, Commits, Lands
    <3>3. At(p, "add")' => Looks(p, v, j) /\ proc'[p].step[2] = j
      BY <3>1 DEF Looks, Commits, Lands, At
    <3>4. At(p, "add")' => (Statement(p)').kind = "check"
      BY <3>2, <3>3 DEF Looks, Statement
    <3> QED BY <2>1, <2>2, <3>2, <3>3, <3>4
  <2> QED BY <2>3, <2>4, StepMoves
<1>3. ASSUME NEW p \in Processes, SetVersion(p) PROVE StepOK'
  <2> PICK v : v = proc[p].step[1]
    OBVIOUS
  <2>1. /\ v \in 1 .. Latest /\ Others(p)
        /\ \/ proc'[p].at = "open" /\ v = Latest
           \/ v # Latest /\ Lands(p, "migrate", v + 1, 1, proc[p].snapshot)
    BY <1>3, VersionEffect
  <2>2. CASE proc'[p].at = "open"
    BY <2>1, <2>2, StepMoves DEF Migrating
  <2>3. CASE v # Latest /\ Lands(p, "migrate", v + 1, 1, proc[p].snapshot)
    <3>1. proc'[p].step[1] = v + 1 /\ proc'[p].step[2] = 1 /\ ~(At(p, "add")')
      BY <2>3 DEF Lands, At
    <3>2. v + 1 \in 1 .. Latest
      BY <2>1, <2>3, Table
    <3> QED BY <2>1, <3>1, <3>2, StepMoves
  <2> QED BY <2>1, <2>2, <2>3
<1>4. ASSUME NEW p \in Processes, Write(p) PROVE StepOK'
  <2>1. UNCHANGED proc /\ ~Migrating(p)
    BY <1>4 DEF Write, At, Migrating
  <2>2. Others(p) /\ ~(Migrating(p)')
    BY <2>1 DEF Others, Migrating
  <2> QED BY <2>2, StepMoves
<1>5. ASSUME NEW p \in Processes, Close(p) \/ BeginBackup(p) \/ FinishBackup(p) \/ Crash(p)
      PROVE  StepOK'
  <2>1. Others(p) /\ proc'[p].at \in {"idle", "open", "backup"}
    BY <1>5, CloseEffect, BackupEffect, CrashEffect
  <2> QED BY <2>1, StepMoves DEF Migrating
<1>6. ASSUME NEW p \in Processes,
             BeginRestore(p) \/ CopyBackup(p) \/ RemoveSidecars(p) \/ Rename(p)
      PROVE  StepOK'
  <2>1. Others(p) /\ ~(Opened(p)')
    BY <1>6, RestoreEffect
  <2> QED BY <2>1, StepMoves DEF Opened, Migrating
<1>7. CASE UNCHANGED vars
  <2>1. UNCHANGED proc
    BY <1>7 DEF vars
  <2>2. StepOK <=> StepOK'
    BY <2>1 DEF StepOK, Migrating, At, Statement
  <2> QED BY <2>2
<1> QED BY <1>1, <1>2, <1>3, <1>4, <1>5, <1>6, <1>7 DEF Next

\* The files rest when what the step put there does.
LEMMA FilesKept ==
  ASSUME FilesRest, NEW p \in Processes, Others(p), UNCHANGED crashes, Rests(main'),
         backup' = backup \/ Rests(backup'), Rests(proc'[p].snapshot)
  PROVE  FilesRest'
<1>1. \A c : Rests(c) => AtRest(c.version, c.schema, crashes')
  BY DEF Rests
<1>2. \A q \in Processes : Rests(proc'[q].snapshot)
  BY DEF FilesRest, Others
<1>3. backup' # NoFile => Rests(backup')
  BY DEF FilesRest
<1> HIDE DEF Rests
<1> QED BY <1>1, <1>2, <1>3 DEF FilesRest, Rests

\* Opening: below version 4 the process finds nobody migrating, and the file at rest.
LEMMA StartOpen ==
  ASSUME OverlapFrom >= 4, StartInv, NEW p \in Processes, OpenDB(p)
  PROVE  StartFacts'
<1> DEFINE n == Live.version
           s == Live.schema
<1>1. DatabaseInv /\ StartFacts /\ crashes \in Nat
  BY DEF StartInv, StartFacts
<1>2. n \in Nat /\ OverlapFrom \in Nat /\ Latest = 8
  BY <1>1, LiveOK, StateFields, DatabaseAssumption, Table DEF DatabaseInv
<1>3. /\ UNCHANGED <<main, wal, backup, crashes, refused, Live>> /\ (overlapped => overlapped')
      /\ ~Migrating(p) /\ (n < OverlapFrom => \A q \in Processes : ~Migrating(q))
  BY <1>1, OpenEffect
<1>4. Lands(p, IF n < Latest THEN "migrate" ELSE "open", n + 1, 1, Empty)
  BY <1>1, OpenEffect
<1>5. /\ Others(p) /\ proc'[p].step[1] = n + 1 /\ proc'[p].step[2] = 1
      /\ proc'[p].snapshot = Empty
      /\ proc'[p].at \in {"migrate", "open"} /\ (proc'[p].at = "migrate" <=> n < Latest)
  BY <1>4 DEF Lands
<1>6. n < 4 => \A q \in Processes : ~Migrating(q)
  BY <1>2, <1>3
<1>7. /\ Migrating(p)' <=> n < Latest
      /\ ~(At(p, "add")') /\ ~(At(p, "backup")') /\ (At(p, "open")' <=> n >= Latest)
  BY <1>2, <1>5 DEF Migrating, At
<1>8. Live'.version = n /\ Live'.schema = s
  BY <1>3
<1> HIDE DEF n, s
<1>10. OneBelow'
  <2>1. ASSUME NEW q \in Processes, Migrating(q)'
        PROVE  /\ proc'[q].step[1] <= 4 => /\ proc'[q].step[1] = n + 1
                                           /\ \A r \in Processes : Migrating(r)' => r = q
               /\ proc'[q].step[1] > 4 => n >= 4
    <3>1. CASE q = p
      BY <1>2, <1>5, <1>6, <3>1, Elsewhere
    <3>2. CASE q # p
      <4>1. Migrating(q) /\ proc'[q] = proc[q]
        BY <1>5, <2>1, <3>2, Elsewhere
      <4>2. n >= 4
        BY <1>2, <1>6, <4>1
      <4>3. proc[q].step[1] <= 4 => proc[q].step[1] = n + 1
        BY <1>1, <4>1 DEF StartFacts, OneBelow, n
      <4> QED BY <1>2, <4>1, <4>2, <4>3
    <3> QED BY <3>1, <3>2
  <2> QED BY <1>8, <2>1 DEF OneBelow
<1>11. OpenAbove'
  <2>1. ASSUME NEW q \in Processes, At(q, "open")' \/ At(q, "backup")' PROVE n >= 4
    <3>1. CASE q = p
      BY <1>2, <1>7, <2>1, <3>1
    <3>2. CASE q # p
      BY <1>1, <1>5, <2>1, <3>2, Elsewhere DEF StartFacts, OpenAbove, n
    <3> QED BY <3>1, <3>2
  <2> QED BY <1>8, <2>1 DEF OpenAbove
<1>12. LookedRight'
  <2>1. ASSUME ~overlapped', NEW q \in Processes, At(q, "add")'
        PROVE  (Statement(q)').object \notin s
    <3>1. q # p
      BY <1>7, <2>1
    <3> QED BY <1>1, <1>3, <1>5, <2>1, <3>1, Elsewhere DEF StartFacts, LookedRight, s
  <2> QED BY <1>8, <2>1 DEF LookedRight
<1>13. FilesRest'
  <2>1. Rests(main') /\ FilesRest
    BY <1>1, <1>3 DEF StartFacts, FilesRest
  <2>2. Rests(proc'[p].snapshot)
    BY <1>1, <1>5, BlankRests DEF Rests, Empty
  <2> QED BY <1>3, <1>5, <2>1, <2>2, FilesKept
<1>14. LiveRests'
  <2>1. Startable(n + 1, s)
    BY <1>1 DEF StartFacts, LiveRests, n, s
  <2>2. (\A q \in Processes : ~Migrating(q)) => AtRest(n, s, crashes)
    BY <1>1 DEF StartFacts, LiveRests, Rests, n, s
  <2>3. ASSUME NEW q \in Processes, Migrating(q)', crashes = 0, proc'[q].step[1] <= 4
        PROVE  Missing(s, proc'[q].step[1], proc'[q].step[2])
    <3>1. CASE q = p
      <4>1. AtRest(n, s, crashes) /\ n + 1 <= Latest
        BY <1>2, <1>5, <1>6, <2>2, <2>3, <3>1
      <4>2. Missing(s, n + 1, 1)
        BY <1>1, <1>2, <2>3, <4>1, RestsStart
      <4> QED BY <1>5, <3>1, <4>2
    <3>2. CASE q # p
      BY <1>1, <1>5, <2>3, <3>2, Elsewhere DEF StartFacts, LiveRests, s
    <3> QED BY <3>1, <3>2
  <2>4. (\A q \in Processes : ~(Migrating(q)')) => AtRest(n, s, crashes)
    BY <1>3, <1>5, <2>2, Elsewhere
  <2> QED BY <1>3, <1>8, <2>1, <2>3, <2>4 DEF LiveRests, Rests
<1>15. RefusedOK' /\ crashes' \in Nat
  BY <1>1, <1>3 DEF StartFacts, RefusedOK
<1> QED BY <1>10, <1>11, <1>12, <1>13, <1>14, <1>15 DEF StartFacts

\* A statement: the columns of the migration are missing from the next one on, and a
\* blind column that is there says that somebody died at this migration before.
LEMMA StartStatement ==
  ASSUME StartInv, NEW p \in Processes, Exec(p) \/ ExecAdd(p)
  PROVE  StartFacts'
<1>1. DatabaseInv /\ StartFacts /\ crashes \in Nat /\ StepOK
  BY DEF StartInv, StartFacts
<1> PICK v, j : v = proc[p].step[1] /\ j = proc[p].step[2]
  OBVIOUS
<1> PICK n, s : n = Live.version /\ s = Live.schema
  OBVIOUS
<1>2. n \in Nat /\ Latest = 8
  BY <1>1, LiveOK, StateFields, Table DEF DatabaseInv
<1>3. /\ UNCHANGED <<main, backup, crashes, overlapped, risky>>
      /\ Migrating(p) /\ v \in 1 .. Latest /\ j \in DOMAIN Migrations[v]
      /\ Looks(p, v, j) \/ GivesUp(p, v, j) \/ Commits(p, v, j)
  BY <1>1, StatementEffect
<1>4. j \in Nat \ {0}
  BY <1>1, <1>3 DEF StepOK
<1>5. /\ Others(p) /\ Live'.version = n
      /\ proc'[p].snapshot \in {proc[p].snapshot, Empty}
      /\ proc'[p].at \in {"migrate", "add", "idle"}
      /\ proc'[p].at \in {"migrate", "add"} => proc'[p].step[1] = v
  BY <1>3 DEF Looks, GivesUp, Commits, Lands, SameLive
<1>6. /\ \A q \in Processes : Migrating(q)' => Migrating(q)
      /\ ~(At(p, "open")') /\ ~(At(p, "backup")')
  BY <1>3, <1>5, Elsewhere DEF Migrating, At
\* The migration is v2, v3 or v4 and alone, or there is nothing blind to come.
<1>7. v <= 4 => v = n + 1 /\ \A q \in Processes : Migrating(q) => q = p
  BY <1>1, <1>3 DEF StartFacts, OneBelow
<1>8. v > 4 => n >= 4
  BY <1>1, <1>3 DEF StartFacts, OneBelow
<1>10. OneBelow'
  <2>1. ASSUME NEW q \in Processes, Migrating(q)'
        PROVE  /\ proc'[q].step[1] <= 4 => /\ proc'[q].step[1] = n + 1
                                           /\ \A r \in Processes : Migrating(r)' => r = q
               /\ proc'[q].step[1] > 4 => n >= 4
    <3>1. Migrating(q) /\ proc'[q].step[1] = proc[q].step[1]
      BY <1>5, <1>6, <2>1, Elsewhere DEF Migrating
    <3>2. /\ proc[q].step[1] <= 4 => /\ proc[q].step[1] = n + 1
                                     /\ \A r \in Processes : Migrating(r) => r = q
          /\ proc[q].step[1] > 4 => n >= 4
      BY <1>1, <3>1 DEF StartFacts, OneBelow
    <3> QED BY <1>6, <3>1, <3>2
  <2> QED BY <1>5, <2>1 DEF OneBelow
<1>11. OpenAbove'
  <2>1. ASSUME NEW q \in Processes, At(q, "open")' \/ At(q, "backup")' PROVE n >= 4
    <3>1. q # p
      BY <1>6, <2>1
    <3> QED BY <1>1, <1>5, <2>1, <3>1, Elsewhere DEF StartFacts, OpenAbove
  <2> QED BY <1>5, <2>1 DEF OpenAbove
<1>12. LookedRight'
  <2>1. ASSUME ~overlapped', NEW q \in Processes, At(q, "add")'
        PROVE  (Statement(q)').object \notin (Live').schema
    <3>1. CASE q = p
      <4>1. Looks(p, v, j) /\ Lands(p, "add", v, j, proc[p].snapshot)
            /\ Migrations[v][j].object \notin Live.schema
        BY <1>3, <2>1, <3>1 DEF Looks, GivesUp, Commits, Lands, At
      <4>2. Statement(p)' = Migrations[v][j] /\ Live'.schema = Live.schema
        BY <4>1 DEF Looks, Lands, SameLive, Statement
      <4> QED BY <3>1, <4>1, <4>2
    <3>2. CASE q # p
      <4>1. Migrating(q) /\ ~overlapped
        BY <1>3, <1>6, <2>1 DEF At, Migrating
      <4> QED BY <1>1, <1>3, <3>2, <4>1 DEF DatabaseInv, MigratesNext
    <3> QED BY <3>1, <3>2
  <2> QED BY <2>1 DEF LookedRight
<1>13. FilesRest'
  <2>1. FilesRest /\ Rests(main') /\ backup' = backup
    BY <1>1, <1>3 DEF StartFacts, FilesRest
  <2>2. Rests(proc[p].snapshot) /\ Rests(Empty)
    BY <1>1, BlankRests DEF StartFacts, FilesRest, Rests, Empty
  <2> QED BY <1>3, <1>5, <2>1, <2>2, FilesKept
<1>14. LiveRests'
  <2> PICK t : t = Live'.schema
    OBVIOUS
  <2>0. Startable(n + 1, s)
    BY <1>1 DEF StartFacts, LiveRests
  <2>1. t = s \/ (Commits(p, v, j) /\ t = s \union {Migrations[v][j].object})
    BY <1>3 DEF Looks, GivesUp, Commits, SameLive
  <2>2. Startable(n + 1, t)
    <3>1. CASE v <= 4
      <4>1. v \in 1 .. Latest /\ j \in DOMAIN Migrations[v]
        BY <1>3, Zenon
      <4>2. Startable(v, s) => Startable(v, s \union {Migrations[v][j].object})
        BY <4>1, StatementMisses
      <4>3. v = n + 1
        BY <1>7, <3>1
      <4> QED BY <2>0, <2>1, <4>2, <4>3
    <3>2. CASE v > 4
      BY <1>2, <1>8, <3>2, HighRests
    <3> QED BY <1>3, <3>1, <3>2
  <2>3. v <= 4 /\ crashes = 0 => Missing(s, v, j)
    BY <1>1, <1>3 DEF StartFacts, LiveRests
  <2>4. ASSUME NEW q \in Processes, Migrating(q)', crashes = 0, proc'[q].step[1] <= 4
        PROVE  Missing(t, proc'[q].step[1], proc'[q].step[2])
    <3>1. Migrating(q) /\ proc'[q].step[1] = proc[q].step[1]
      BY <1>5, <1>6, <2>4, Elsewhere DEF Migrating
    <3>2. q = p
      BY <1>1, <1>3, <2>4, <3>1 DEF StartFacts, OneBelow
    <3>3. v <= 4 /\ Missing(s, v, j)
      BY <2>3, <2>4, <3>1, <3>2
    <3>4. v # 8
      BY <3>3, <1>3
    <3>5. ~Looks(p, v, j)
      <4>1. Migrations[v][j].kind # "check"
        BY <1>3, <3>4, Kinds
      <4> QED BY <4>1 DEF Looks
    <3>6. Commits(p, v, j)
      BY <1>3, <2>4, <3>2, <3>5 DEF GivesUp, Migrating
    <3>7. proc'[p].step[1] = v /\ proc'[p].step[2] = j + 1 /\ t = s \union {Migrations[v][j].object}
      BY <3>6 DEF Commits, Lands
    <3>8. Missing(s \union {Migrations[v][j].object}, v, j + 1)
      BY <1>3, <3>3, StatementMisses
    <3> QED BY <3>2, <3>7, <3>8
  <2>5. ASSUME \A q \in Processes : ~(Migrating(q)') PROVE AtRest(n, t, crashes)
    <3>1. CASE v > 4
      BY <1>2, <1>8, <3>1, HighRests
    <3>2. CASE v <= 4
      <4>1. GivesUp(p, v, j)
        BY <1>3, <2>5 DEF Looks, Commits, Lands, Migrating
      <4>2. ~At(p, "add")
        <5>1. At(p, "add") => Statement(p).kind = "check"
          BY <1>1, <1>3 DEF StepOK
        <5>2. Statement(p) = Migrations[v][j] /\ v # 8
          BY <1>3, <3>2 DEF Statement
        <5>3. Migrations[v][j].kind # "check"
          BY <1>3, <5>2, Kinds
        <5> QED BY <5>1, <5>2, <5>3
      <4>3. Migrations[v][j].kind = "add" /\ Migrations[v][j].object \in s /\ t = s
        BY <4>1, <4>2 DEF GivesUp, SameLive
      <4>4. v \in 2 .. 4
        BY <1>3, <4>3, Kinds
      <4>5. ~Missing(s, v, j)
        <5>1. j \in DOMAIN Migrations[v]
          BY <1>3, Zenon
        <5>2. Migrations[v][j].kind = "add" /\ Migrations[v][j].object \in s /\ j >= j
          BY <1>4, <4>3
        <5> QED BY <5>1, <5>2, Zenon DEF Missing
      <4>6. crashes > 0 /\ n \in 1 .. 3
        BY <1>1, <1>2, <1>7, <2>3, <3>2, <4>4, <4>5
      <4> QED BY <2>2, <4>6 DEF AtRest
    <3> QED BY <1>3, <3>1, <3>2
  <2> QED BY <1>3, <1>5, <2>2, <2>4, <2>5 DEF LiveRests, Rests
<1>15. RefusedOK'
  <2>0. refused \subseteq 1 .. 3 \/ overlapped
    BY <1>1 DEF StartFacts, RefusedOK
  <2>1. CASE refused' = refused
    BY <1>3, <2>0, <2>1 DEF RefusedOK
  <2>2. CASE refused' # refused
    <3>1. GivesUp(p, v, j) /\ refused' = refused \union {n}
      BY <1>3, <2>2 DEF Looks, Commits, GivesUp
    <3>2. CASE At(p, "add")
      <4>1. Statement(p).object \in Live.schema
        BY <3>1 DEF GivesUp, Statement
      <4> QED BY <1>1, <1>3, <3>2, <4>1 DEF StartFacts, LookedRight, RefusedOK
    <3>3. CASE ~At(p, "add")
      <4>1. Migrations[v][j].kind = "add"
        BY <3>1, <3>3 DEF GivesUp
      <4>2. v \in 2 .. 4
        BY <1>3, <4>1, Kinds
      <4>3. n \in 1 .. 3
        BY <1>2, <1>7, <4>2
      <4> QED BY <1>3, <2>0, <3>1, <4>3 DEF RefusedOK
    <3> QED BY <3>2, <3>3
  <2> QED BY <2>1, <2>2
<1> QED BY <1>1, <1>3, <1>10, <1>11, <1>12, <1>13, <1>14, <1>15 DEF StartFacts

\* The version of a migration: the file is ready for the next one.
LEMMA StartVersion ==
  ASSUME StartInv, NEW p \in Processes, SetVersion(p)
  PROVE  StartFacts'
<1>1. DatabaseInv /\ StartFacts /\ crashes \in Nat /\ StepOK
  BY DEF StartInv, StartFacts
<1> PICK v : v = proc[p].step[1]
  OBVIOUS
<1> PICK n, s : n = Live.version /\ s = Live.schema
  OBVIOUS
<1>2. n \in Nat /\ Latest = 8
  BY <1>1, LiveOK, StateFields, Table DEF DatabaseInv
<1>3. /\ UNCHANGED <<main, backup, crashes, overlapped, refused, risky>>
      /\ Migrating(p) /\ v \in 1 .. Latest
      /\ Live'.version = v /\ Live'.schema = s /\ Others(p)
      /\ \/ proc'[p].at = "open" /\ v = Latest /\ proc'[p].snapshot = Empty
         \/ v # Latest /\ Lands(p, "migrate", v + 1, 1, proc[p].snapshot)
  BY <1>1, VersionEffect
<1>4. \/ proc'[p].at = "open" /\ v = 8 /\ proc'[p].snapshot = Empty
      \/ /\ v # 8 /\ proc'[p].at = "migrate" /\ proc'[p].step[1] = v + 1
         /\ proc'[p].step[2] = 1 /\ proc'[p].snapshot = proc[p].snapshot
  BY <1>2, <1>3 DEF Lands
<1>5. v <= 4 => v = n + 1 /\ \A q \in Processes : Migrating(q) => q = p
  BY <1>1, <1>3 DEF StartFacts, OneBelow
<1>6. v > 4 => n >= 4
  BY <1>1, <1>3 DEF StartFacts, OneBelow
<1>7. (Migrating(p)' <=> v # 8) /\ (At(p, "open")' <=> v = 8) /\ ~(At(p, "add")')
      /\ ~(At(p, "backup")')
  BY <1>4 DEF Migrating, At
<1>8. v \in 1 .. 8 /\ v + 1 > v
  BY <1>2, <1>3
<1>10. OneBelow'
  <2>1. ASSUME NEW q \in Processes, Migrating(q)'
        PROVE  /\ proc'[q].step[1] <= 4 => /\ proc'[q].step[1] = v + 1
                                           /\ \A r \in Processes : Migrating(r)' => r = q
               /\ proc'[q].step[1] > 4 => v >= 4
    <3>1. CASE q = p
      <4>1. proc'[p].step[1] = v + 1
        BY <1>4, <1>7, <2>1, <3>1
      <4>2. v + 1 <= 4 => \A r \in Processes : Migrating(r)' => r = p
        BY <1>3, <1>5, <1>8, Elsewhere
      <4> QED BY <1>8, <3>1, <4>1, <4>2
    <3>2. CASE q # p
      <4>1. Migrating(q) /\ proc'[q] = proc[q]
        BY <1>3, <2>1, <3>2, Elsewhere
      <4>2. ~(v <= 4)
        BY <1>5, <3>2, <4>1
      <4>3. ~(proc[q].step[1] <= 4)
        BY <1>1, <1>3, <3>2, <4>1 DEF StartFacts, OneBelow
      <4> QED BY <1>8, <4>1, <4>2, <4>3
    <3> QED BY <3>1, <3>2
  <2> QED BY <1>3, <2>1 DEF OneBelow
<1>11. OpenAbove'
  <2>1. ASSUME NEW q \in Processes, At(q, "open")' \/ At(q, "backup")' PROVE v >= 4
    <3>1. CASE q = p
      BY <1>7, <2>1, <3>1
    <3>2. CASE q # p
      <4>1. n >= 4
        BY <1>1, <1>3, <2>1, <3>2, Elsewhere DEF StartFacts, OpenAbove
      <4> QED BY <1>2, <1>5, <1>8, <4>1
    <3> QED BY <3>1, <3>2
  <2> QED BY <1>3, <2>1 DEF OpenAbove
<1>12. LookedRight'
  <2>1. ASSUME ~overlapped', NEW q \in Processes, At(q, "add")'
        PROVE  (Statement(q)').object \notin s
    <3>1. q # p
      BY <1>7, <2>1
    <3> QED BY <1>1, <1>3, <2>1, <3>1, Elsewhere DEF StartFacts, LookedRight
  <2> QED BY <1>3, <2>1 DEF LookedRight
<1>13. FilesRest'
  <2>1. FilesRest /\ Rests(main') /\ backup' = backup
    BY <1>1, <1>3 DEF StartFacts, FilesRest
  <2>2. Rests(proc[p].snapshot) /\ Rests(Empty)
    BY <1>1, BlankRests DEF StartFacts, FilesRest, Rests, Empty
  <2>3. Rests(proc'[p].snapshot)
    BY <1>4, <2>2
  <2> QED BY <1>3, <2>1, <2>3, FilesKept
<1>14. LiveRests'
  <2>1. v <= 4 => Startable(v, s)
    BY <1>1, <1>5 DEF StartFacts, LiveRests
  <2>2. v <= 4 => Startable(v + 1, s) /\ Missing(s, v + 1, 1)
    <3>1. v <= 4 => v + 1 \in v + 1 .. Latest
      BY <1>2, <1>8
    <3>2. \A u \in v + 1 + 1 .. Latest : u \in v + 1 .. Latest
      BY <1>2, <1>8
    <3> QED BY <2>1, <3>1, <3>2 DEF Startable
  <2>3. v > 4 => Startable(v + 1, s) /\ AtRest(v, s, crashes)
    BY <1>8, HighRests
  <2>4. ASSUME NEW q \in Processes, Migrating(q)', crashes = 0, proc'[q].step[1] <= 4
        PROVE  Missing(s, proc'[q].step[1], proc'[q].step[2])
    <3>1. q = p
      <4>1. CASE q # p
        <5>1. Migrating(q) /\ proc'[q] = proc[q]
          BY <1>3, <2>4, <4>1, Elsewhere
        <5> QED BY <1>1, <1>3, <2>4, <4>1, <5>1 DEF StartFacts, OneBelow
      <4> QED BY <4>1
    <3>2. proc'[p].step[1] = v + 1 /\ proc'[p].step[2] = 1
      BY <1>4, <1>7, <2>4, <3>1
    <3> QED BY <1>8, <2>2, <2>4, <3>1, <3>2
  <2>5. (\A q \in Processes : ~(Migrating(q)')) => v > 4
    BY <1>7
  <2> QED BY <1>3, <1>8, <2>2, <2>3, <2>4, <2>5 DEF LiveRests, Rests
<1>15. RefusedOK' /\ crashes' \in Nat
  BY <1>1, <1>3 DEF StartFacts, RefusedOK
<1> QED BY <1>10, <1>11, <1>12, <1>13, <1>14, <1>15 DEF StartFacts

\* A process at work on the open file leaves the schema and the migrations alone.
LEMMA Quiet ==
  ASSUME StartInv, NEW p \in Processes, Others(p), SameLive,
         UNCHANGED <<crashes, overlapped, refused>>, FilesRest',
         ~Migrating(p), ~(Migrating(p)'),
         At(p, "open")' \/ At(p, "backup")' => At(p, "open") \/ At(p, "backup")
  PROVE  StartFacts'
<1>1. DatabaseInv /\ StartFacts /\ crashes \in Nat /\ StepOK
  BY DEF StartInv, StartFacts
<1> PICK n, s : n = Live.version /\ s = Live.schema
  OBVIOUS
<1>2. Live'.version = n /\ Live'.schema = s
  BY DEF SameLive
<1>3. \A q \in Processes : /\ Migrating(q)' <=> Migrating(q)
                           /\ Migrating(q) => q # p /\ proc'[q] = proc[q]
  BY Elsewhere
<1>4. \A q \in Processes : At(q, "add") => Migrating(q)
  BY DEF At, Migrating
<1>5. \A q \in Processes : At(q, "add")' => /\ At(q, "add") /\ Migrating(q)
                                           /\ Statement(q)' = Statement(q)
  <2>1. ~(At(p, "add")')
    BY DEF At, Migrating
  <2> QED BY <1>4, <2>1, Elsewhere
<1>7. OneBelow'
  <2>1. ASSUME NEW q \in Processes, Migrating(q)'
        PROVE  /\ proc'[q].step[1] <= 4 => /\ proc'[q].step[1] = n + 1
                                           /\ \A r \in Processes : Migrating(r)' => r = q
               /\ proc'[q].step[1] > 4 => n >= 4
    BY <1>1, <1>3, <2>1 DEF StartFacts, OneBelow
  <2> QED BY <1>2, <2>1 DEF OneBelow
<1>8. OpenAbove'
  <2>1. ASSUME NEW q \in Processes, At(q, "open")' \/ At(q, "backup")' PROVE n >= 4
    <3>1. At(q, "open") \/ At(q, "backup")
      BY <2>1, Elsewhere
    <3> QED BY <1>1, <3>1 DEF StartFacts, OpenAbove
  <2> QED BY <1>2, <2>1 DEF OpenAbove
<1>9. LookedRight'
  <2>1. ASSUME ~overlapped', NEW q \in Processes, At(q, "add")'
        PROVE  (Statement(q)').object \notin s
    BY <1>1, <1>5, <2>1 DEF StartFacts, LookedRight
  <2> QED BY <1>2, <2>1 DEF LookedRight
<1>10. LiveRests'
  <2>1. Startable(n + 1, s)
    BY <1>1 DEF StartFacts, LiveRests
  <2>2. ASSUME NEW q \in Processes, Migrating(q)', crashes = 0, proc'[q].step[1] <= 4
        PROVE  Missing(s, proc'[q].step[1], proc'[q].step[2])
    BY <1>1, <1>3, <2>2 DEF StartFacts, LiveRests
  <2>3. (\A q \in Processes : ~(Migrating(q)')) => AtRest(n, s, crashes)
    BY <1>1, <1>3 DEF StartFacts, LiveRests, Rests
  <2> QED BY <1>2, <2>1, <2>2, <2>3 DEF LiveRests, Rests
<1> QED BY <1>1, <1>7, <1>8, <1>9, <1>10 DEF StartFacts, RefusedOK

\* Work on the open file.
LEMMA StartWork ==
  ASSUME StartInv, NEW p \in Processes,
         Write(p) \/ Close(p) \/ BeginBackup(p) \/ FinishBackup(p)
  PROVE  StartFacts'
<1>1. DatabaseInv /\ FilesRest /\ OpenAbove /\ crashes \in Nat
  BY DEF StartInv, StartFacts
<1>2. Rests(main) /\ Rests(proc[p].snapshot) /\ Rests(Empty)
  BY <1>1, BlankRests DEF FilesRest, Rests, Empty
<1>3. CASE Write(p)
  <2>1. UNCHANGED <<main, backup, proc, crashes, overlapped, refused>> /\ SameLive
    BY <1>1, <1>3, WriteEffect
  <2>2. Others(p) /\ Rests(proc'[p].snapshot)
    BY <1>2, <2>1 DEF Others
  <2>3. FilesRest'
    BY <1>1, <1>2, <2>1, <2>2, FilesKept
  <2>4. At(p, "open") /\ ~Migrating(p)
    BY <1>3 DEF Write, At, Migrating
  <2>5. ~(Migrating(p)')
    BY <2>1, <2>4 DEF Migrating
  <2> QED BY <2>1, <2>2, <2>3, <2>4, <2>5, Quiet
<1>4. CASE Close(p)
  <2>1. /\ UNCHANGED <<backup, crashes, overlapped, refused, Live>>
        /\ At(p, "open") /\ Others(p) /\ proc'[p].at = "idle" /\ proc'[p].snapshot = Empty
        /\ main' = main \/ (main' = Live /\ \A q \in Processes : ~Migrating(q))
    BY <1>1, <1>4, CloseEffect
  <2>2. Rests(main')
    <3>1. (\A q \in Processes : ~Migrating(q)) => Rests(Live)
      BY DEF StartInv, StartFacts, LiveRests
    <3> QED BY <1>2, <2>1, <3>1
  <2>3. FilesRest'
    BY <1>1, <1>2, <2>1, <2>2, FilesKept
  <2>4. ~Migrating(p) /\ ~(Migrating(p)')
    BY <2>1 DEF At, Migrating
  <2>5. SameLive
    BY <2>1 DEF SameLive
  <2> QED BY <2>1, <2>3, <2>4, <2>5, Quiet
<1>5. CASE BeginBackup(p) \/ FinishBackup(p)
  <2>1. /\ UNCHANGED <<main, wal, crashes, overlapped, refused, risky, Live>> /\ Others(p)
        /\ \/ /\ At(p, "open") /\ proc'[p].at = "backup" /\ proc'[p].snapshot = Live
              /\ backup' = Empty
           \/ /\ At(p, "backup") /\ proc'[p].at = "open" /\ proc'[p].snapshot = Empty
              /\ backup' = proc[p].snapshot
    BY <1>1, <1>5, BackupEffect
  <2>2. Live.version >= 4 /\ Live.version \in Nat
    BY <1>1, <2>1, LiveOK, StateFields DEF OpenAbove, DatabaseInv
  <2>3. Rests(Live)
    BY <2>2, HighRests DEF Rests
  <2>4. Rests(backup') /\ Rests(proc'[p].snapshot) /\ Rests(main')
    BY <1>2, <2>1, <2>3
  <2>5. FilesRest'
    BY <1>1, <2>1, <2>4, FilesKept
  <2>6. ~Migrating(p) /\ ~(Migrating(p)') /\ (At(p, "open") \/ At(p, "backup"))
    BY <2>1 DEF At, Migrating
  <2>7. SameLive
    BY <2>1 DEF SameLive
  <2> QED BY <2>1, <2>5, <2>6, <2>7, Quiet
<1> QED BY <1>3, <1>4, <1>5

\* A restore puts a file at rest in the place of a file at rest.
LEMMA StartRestore ==
  ASSUME StartInv, NEW p \in Processes,
         BeginRestore(p) \/ CopyBackup(p) \/ RemoveSidecars(p) \/ Rename(p)
  PROVE  StartFacts'
<1>1. DatabaseInv /\ FilesRest /\ LiveRests /\ RefusedOK /\ crashes \in Nat
  BY DEF StartInv, StartFacts
<1>2. /\ UNCHANGED <<backup, crashes, overlapped, refused>> /\ Others(p)
      /\ \A q \in Processes : ~Opened(q) /\ ~(Opened(q)')
      /\ proc'[p].snapshot \in {proc[p].snapshot, backup, Empty}
      /\ proc'[p].snapshot = backup => IsState(backup)
      /\ main' \in {main, proc[p].snapshot} /\ Live' \in {Live, main, main'}
  BY <1>1, RestoreEffect
<1>3. Rests(main) /\ Rests(proc[p].snapshot) /\ Rests(Empty) /\ (IsState(backup) => Rests(backup))
  BY <1>1, BlankRests, StateIsFile DEF FilesRest, Rests, Empty
<1>4. \A q \in Processes : ~Migrating(q) /\ ~(Migrating(q)')
  BY <1>2 DEF Opened, Migrating
<1>5. Rests(Live)
  BY <1>1, <1>4 DEF LiveRests
<1>6. Rests(main') /\ Rests(Live') /\ Rests(proc'[p].snapshot)
  BY <1>2, <1>3, <1>5
<1>7. FilesRest'
  BY <1>1, <1>2, <1>6, FilesKept
<1>8. \A q \in Processes : ~(At(q, "open")') /\ ~(At(q, "backup")') /\ ~(At(q, "add")')
  BY <1>2 DEF Opened, At
<1>9. LiveRests'
  <2>1. Startable(Live'.version + 1, Live'.schema)
    BY <1>6 DEF Rests, AtRest
  <2>2. AtRest(Live'.version, Live'.schema, crashes')
    BY <1>2, <1>6 DEF Rests
  <2> QED BY <1>4, <2>1, <2>2 DEF LiveRests, Rests
<1>10. OneBelow' /\ OpenAbove' /\ LookedRight'
  BY <1>4, <1>8 DEF OneBelow, OpenAbove, LookedRight
<1> QED BY <1>1, <1>2, <1>7, <1>9, <1>10 DEF StartFacts, RefusedOK

\* A death: what it leaves half-done is v2, v3 or v4, or will be found and skipped.
LEMMA StartCrash ==
  ASSUME StartInv, NEW p \in Processes, Crash(p)
  PROVE  StartFacts'
<1>1. DatabaseInv /\ StartFacts /\ crashes \in Nat /\ StepOK
  BY DEF StartInv, StartFacts
<1> PICK n, s : n = Live.version /\ s = Live.schema
  OBVIOUS
<1>2. n \in Nat /\ Latest = 8 /\ IsState(main)
  BY <1>1, LiveOK, StateFields, Table DEF DatabaseInv, FilesOK
<1>3. /\ UNCHANGED <<main, wal, backup, overlapped, refused, risky, Live>>
      /\ crashes' = crashes + 1
      /\ Others(p) /\ proc'[p].at = "idle" /\ proc'[p].snapshot = Empty
  BY <1>1, CrashEffect
<1>4. /\ ~(Migrating(p)') /\ ~(At(p, "open")') /\ ~(At(p, "backup")') /\ ~(At(p, "add")')
      /\ Live'.version = n /\ Live'.schema = s
  BY <1>3 DEF Migrating, At
<1>5. \A q \in Processes : Migrating(q)' => Migrating(q) /\ proc'[q] = proc[q]
  BY <1>3, <1>4, Elsewhere
<1>7. OneBelow'
  <2>1. ASSUME NEW q \in Processes, Migrating(q)'
        PROVE  /\ proc'[q].step[1] <= 4 => /\ proc'[q].step[1] = n + 1
                                           /\ \A r \in Processes : Migrating(r)' => r = q
               /\ proc'[q].step[1] > 4 => n >= 4
    BY <1>1, <1>5, <2>1 DEF StartFacts, OneBelow
  <2> QED BY <1>4, <2>1 DEF OneBelow
<1>8. OpenAbove'
  <2>1. ASSUME NEW q \in Processes, At(q, "open")' \/ At(q, "backup")' PROVE n >= 4
    BY <1>1, <1>3, <1>4, <2>1, Elsewhere DEF StartFacts, OpenAbove
  <2> QED BY <1>4, <2>1 DEF OpenAbove
<1>9. LookedRight'
  <2>1. ASSUME ~overlapped', NEW q \in Processes, At(q, "add")'
        PROVE  (Statement(q)').object \notin s
    <3>1. q # p
      BY <1>4, <2>1
    <3> QED BY <1>1, <1>3, <2>1, <3>1, Elsewhere DEF StartFacts, LookedRight
  <2> QED BY <1>4, <2>1 DEF LookedRight
<1>10. FilesRest'
  <2>1. ASSUME NEW c, IsState(c), Rests(c) PROVE AtRest(c.version, c.schema, crashes')
    <3>1. c.version \in Nat
      BY <2>1, StateFields
    <3> QED BY <1>1, <1>3, <2>1, <3>1, RestsStart DEF Rests
  <2>2. ASSUME NEW q \in Processes PROVE Rests(proc'[q].snapshot) /\ IsState(proc'[q].snapshot)
    <3>1. Rests(Empty) /\ IsState(Empty)
      BY <1>1, BlankRests, IdleOK DEF Rests, Empty
    <3>2. Rests(proc[q].snapshot) /\ IsState(proc[q].snapshot)
      BY <1>1, ProcFields DEF StartFacts, FilesRest, DatabaseInv, ProcOK
    <3> QED BY <1>3, <3>1, <3>2 DEF Others
  <2>3. Rests(main) /\ (backup # NoFile => Rests(backup) /\ IsState(backup))
    BY <1>1 DEF StartFacts, FilesRest, DatabaseInv, FilesOK
  <2>4. AtRest(main.version, main.schema, crashes')
    BY <1>2, <2>1, <2>3
  <2>5. backup # NoFile => AtRest(backup.version, backup.schema, crashes')
    BY <2>1, <2>3
  <2>6. \A q \in Processes : AtRest(proc'[q].snapshot.version, proc'[q].snapshot.schema, crashes')
    BY <2>1, <2>2
  <2> QED BY <1>3, <2>4, <2>5, <2>6 DEF FilesRest, Rests
<1>11. LiveRests'
  <2>1. Startable(n + 1, s)
    BY <1>1 DEF StartFacts, LiveRests
  <2>2. crashes' > 0
    BY <1>1, <1>3
  <2>3. n \in 1 .. 3 => AtRest(n, s, crashes')
    BY <2>1, <2>2 DEF AtRest
  <2>4. n >= 4 => AtRest(n, s, crashes')
    BY <1>2, HighRests
  <2>5. n = 0 => AtRest(n, s, crashes')
    <3>1. \A u \in 1 .. Latest : u = 1 \/ u \in 2 .. Latest
      BY <1>2
    <3>2. Startable(1, s) => Startable(0, s)
      BY <3>1, FirstMisses DEF Startable
    <3> QED BY <2>1, <3>2 DEF AtRest
  <2>6. AtRest(n, s, crashes')
    BY <1>2, <2>3, <2>4, <2>5
  <2>7. ASSUME NEW q \in Processes, Migrating(q)', crashes' = 0 PROVE FALSE
    BY <2>2, <2>7
  <2> QED BY <1>4, <2>1, <2>6, <2>7 DEF LiveRests, Rests
<1> QED BY <1>1, <1>3, <1>7, <1>8, <1>9, <1>10, <1>11 DEF StartFacts, RefusedOK

\* A database as any release left it lets every start succeed.
LEMMA StartInit == Init => StartInv
<1> SUFFICES ASSUME Init PROVE StartInv
  OBVIOUS
<1>1. DatabaseInv
  BY InitDatabase
<1> PICK v \in 0 .. Latest : main = [version |-> v, schema |-> SchemaOf(v), rows |-> 0]
  BY DEF Init
<1>2. main.version = v /\ main.schema = SchemaOf(v) /\ Live = main /\ v \in Nat
  BY DEF Init, Live
<1>3. /\ wal = NoFile /\ backup = NoFile /\ crashes = 0 /\ refused = {}
      /\ \A p \in Processes : proc[p] = Idle
  BY DEF Init
<1>4. \A p \in Processes : proc[p].at = "idle" /\ proc[p].snapshot = Empty
  BY <1>3, IdleOK
<1>5. ASSUME NEW u \in v + 1 .. Latest PROVE Missing(SchemaOf(v), u, 1)
  <2>1. ASSUME NEW i \in DOMAIN Migrations[u] PROVE Migrations[u][i].object \notin SchemaOf(v)
    <3>1. ASSUME NEW w \in 1 .. v, NEW k \in DOMAIN Migrations[w],
                 Migrations[w][k].object = Migrations[u][i].object
          PROVE  FALSE
      <4>1. w \in 1 .. Latest /\ u \in 1 .. Latest /\ w # u
        BY Table
      <4> QED BY <3>1, <4>1, Distinct
    <3> QED BY <3>1 DEF SchemaOf, Objects
  <2> QED BY <2>1 DEF Missing
<1>6. Startable(v, SchemaOf(v)) /\ Startable(v + 1, SchemaOf(v))
  <2>1. \A u \in v + 1 + 1 .. Latest : u \in v + 1 .. Latest
    BY Table
  <2> QED BY <1>5, <2>1 DEF Startable
<1>7. Rests(main) /\ Rests(Empty)
  BY <1>2, <1>3, <1>6, BlankRests DEF Rests, AtRest, Empty
<1>8. \A p \in Processes : ~Migrating(p) /\ ~At(p, "open") /\ ~At(p, "backup") /\ ~At(p, "add")
  BY <1>4 DEF Migrating, At
<1>9. FilesRest
  BY <1>3, <1>4, <1>7 DEF FilesRest
<1>10. LiveRests
  BY <1>2, <1>6, <1>7, <1>8 DEF LiveRests
<1>11. StepOK /\ OneBelow /\ OpenAbove /\ LookedRight /\ RefusedOK
  BY <1>3, <1>8 DEF StepOK, OneBelow, OpenAbove, LookedRight, RefusedOK
<1> QED BY <1>1, <1>3, <1>9, <1>10, <1>11 DEF StartInv, StartFacts

\* Every step keeps it, as long as the blind migrations do not overlap.
LEMMA StartStep == OverlapFrom >= 4 /\ StartInv /\ [Next]_vars => StartInv'
<1> SUFFICES ASSUME OverlapFrom >= 4, StartInv, [Next]_vars PROVE StartInv'
  OBVIOUS
<1>1. DatabaseInv' /\ StepOK'
  BY DatabaseStep, StepKept DEF StartInv
<1>2. ASSUME Next PROVE StartFacts'
  BY <1>2, StartOpen, StartStatement, StartVersion, StartWork, StartRestore, StartCrash DEF Next
<1>3. ASSUME UNCHANGED vars PROVE StartFacts'
  <2>1. UNCHANGED <<main, wal, backup, proc, crashes, overlapped, refused>> /\ Live' = Live
    BY <1>3 DEF vars, files, history, Live
  <2>2. StartFacts
    BY DEF StartInv
  <2>3. (OpenAbove <=> OpenAbove') /\ (OneBelow <=> OneBelow')
    BY <2>1 DEF OpenAbove, OneBelow, Migrating, At, Statement
  <2>4. (LookedRight <=> LookedRight') /\ (RefusedOK <=> RefusedOK')
    BY <2>1 DEF LookedRight, RefusedOK, At, Statement
  <2>5. FilesRest <=> FilesRest'
    BY <2>1 DEF FilesRest, Rests
  <2>6. LiveRests <=> LiveRests'
    BY <2>1 DEF LiveRests, Rests, Migrating
  <2> QED BY <2>1, <2>2, <2>3, <2>4, <2>5, <2>6 DEF StartFacts
<1> QED BY <1>1, <1>2, <1>3 DEF StartInv

\* The upgrade is restart-safe (migrate, migrateV8): unless a process starts on a file
\* below v4 that another one is migrating, every start gets past the migrations, but for
\* a death half-way through v2, v3 or v4.
THEOREM UpgradeIsRestartSafe ==
  ASSUME OverlapFrom >= 4 PROVE Spec => []StartsSucceed
<1>1. StartInv => StartsSucceed
  <2> SUFFICES ASSUME StartInv PROVE StartsSucceed
    OBVIOUS
  <2>1. RefusedOK /\ LiveRests /\ crashes \in Nat
    BY DEF StartInv, StartFacts
  <2>2. Live.version \in Nat
    BY LiveOK, StateFields DEF StartInv, DatabaseInv
  <2>3. Startable(Live.version, Live.schema) => CanStart
    <3> SUFFICES ASSUME Startable(Live.version, Live.schema),
                        NEW v \in Live.version + 1 .. Latest, NEW i \in DOMAIN Migrations[v],
                        Migrations[v][i].kind = "add"
                 PROVE  Migrations[v][i].object \notin Live.schema
      BY DEF CanStart
    <3>1. Missing(Live.schema, v, 1)
      BY DEF Startable
    <3>2. i >= 1
      BY <2>2, Statements
    <3> QED BY <3>1, <3>2 DEF Missing
  <2>4. (\A p \in Processes : ~Migrating(p)) =>
          Startable(Live.version, Live.schema) \/ (crashes > 0 /\ Live.version \in 1 .. 3)
    BY <2>1 DEF LiveRests, Rests, AtRest
  <2> QED BY <2>1, <2>3, <2>4 DEF StartsSucceed, RefusedOK
<1> QED BY <1>1, StartInit, StartStep, PTL DEF Spec

-----------------------------------------------------------------------------

\* A file of some release: what its version promises is there, unless two migrations
\* overlapped (o), and nothing that no release has.
Sound(c, o) ==
  /\ c.version <= Latest /\ c.schema \subseteq SchemaOf(Latest) /\ c.rows <= MaxRows
  /\ ~o => SchemaOf(c.version) \subseteq c.schema
\* The statements of migration v before statement j are done.
Done(s, v, j) == \A i \in DOMAIN Migrations[v] : i < j => Migrations[v][i].object \in s

FilesSound ==
  /\ Sound(main, overlapped) /\ Sound(Live, overlapped)
  /\ backup # NoFile => Sound(backup, overlapped)
  /\ \A p \in Processes : Sound(proc[p].snapshot, overlapped)
WorkSound ==
  ~overlapped => \A p \in Processes :
    /\ Migrating(p) => Done(Live.schema, proc[p].step[1], proc[p].step[2])
    /\ At(p, "open") \/ At(p, "backup") => Live.version = Latest
SchemaFacts ==
  overlapped \in BOOLEAN /\ FilesSound /\ WorkSound /\ refused \subseteq 0 .. Latest
SchemaInv == DatabaseInv /\ StepOK /\ SchemaFacts

\* What each version adds to the schema.
LEMMA Schemas ==
  /\ SchemaOf(0) = {}
  /\ \A v \in Nat \ {0} : SchemaOf(v) = SchemaOf(v - 1) \union Objects(v)
  /\ \A v \in 1 .. Latest : Objects(v) \subseteq SchemaOf(Latest)
<1>1. 1 .. 0 = {}
  OBVIOUS
<1>2. ASSUME NEW v \in Nat \ {0} PROVE 1 .. v = (1 .. v - 1) \union {v}
  OBVIOUS
<1>3. SchemaOf(0) = {}
  BY <1>1 DEF SchemaOf
<1>4. ASSUME NEW v \in Nat \ {0} PROVE SchemaOf(v) = SchemaOf(v - 1) \union Objects(v)
  <2>1. \A u, x : x \in SchemaOf(u) <=> \E w \in 1 .. u : x \in Objects(w)
    BY DEF SchemaOf
  <2>2. \A w : w \in 1 .. v <=> w \in 1 .. v - 1 \/ w = v
    BY <1>2
  <2> QED BY <2>1, <2>2
<1>5. ASSUME NEW v \in 1 .. Latest PROVE Objects(v) \subseteq SchemaOf(Latest)
  BY DEF SchemaOf
<1> QED BY <1>3, <1>4, <1>5

\* The blank file is sound, and an overlap asks for less.
LEMMA Sounder ==
  /\ \A o : Sound(Empty, o)
  /\ \A c : Sound(c, FALSE) => Sound(c, TRUE)
BY Schemas, Table, DatabaseAssumption DEF Sound, Empty

\* The files are sound when what the step put there is.
LEMMA FilesSoundStep ==
  ASSUME FilesSound, NEW p \in Processes, Others(p), overlapped \in BOOLEAN,
         overlapped' \in BOOLEAN, overlapped => overlapped',
         main' = main \/ Sound(main', overlapped'),
         Live' = Live \/ Sound(Live', overlapped'),
         backup' = backup \/ Sound(backup', overlapped'),
         proc'[p].snapshot = proc[p].snapshot \/ Sound(proc'[p].snapshot, overlapped')
  PROVE  FilesSound'
<1>1. \A c : Sound(c, overlapped) => Sound(c, overlapped')
  BY Sounder
<1> HIDE DEF Sound
<1>2. \A q \in Processes : Sound(proc'[q].snapshot, overlapped')
  BY <1>1 DEF FilesSound, Others
<1>3. /\ Sound(main', overlapped') /\ Sound(Live', overlapped')
      /\ backup' # NoFile => Sound(backup', overlapped')
  BY <1>1 DEF FilesSound
<1> QED BY <1>2, <1>3 DEF FilesSound

\* Opening starts with nothing done and nothing to do, or finds the latest version.
LEMMA SchemaOpen ==
  ASSUME SchemaInv, NEW p \in Processes, OpenDB(p)
  PROVE  SchemaFacts'
<1>1. DatabaseInv /\ StepOK /\ SchemaFacts
  BY DEF SchemaInv
<1> PICK n, s : n = Live.version /\ s = Live.schema
  OBVIOUS
<1>2. n \in Nat /\ n <= Latest /\ Latest = 8
  BY <1>1, LiveOK, StateFields, Table DEF DatabaseInv, SchemaFacts, FilesSound, Sound
<1>3. /\ UNCHANGED <<main, wal, backup, crashes, refused, Live>> /\ (overlapped => overlapped')
      /\ overlapped' \in BOOLEAN
  BY <1>1, OpenEffect
<1>4. Lands(p, IF n < Latest THEN "migrate" ELSE "open", n + 1, 1, Empty)
  BY <1>1, OpenEffect
<1>5. /\ Others(p) /\ proc'[p].step[1] = n + 1 /\ proc'[p].step[2] = 1
      /\ proc'[p].snapshot = Empty
      /\ ~(At(p, "backup")') /\ (At(p, "open")' => ~(n < Latest))
      /\ Migrating(p)' => n < Latest
  BY <1>4 DEF Lands, At, Migrating
<1>6. FilesSound'
  BY <1>1, <1>3, <1>5, Sounder, FilesSoundStep DEF SchemaFacts
<1>7. WorkSound'
  <2>1. ASSUME ~overlapped', NEW q \in Processes
        PROVE  /\ Migrating(q)' => Done(s, proc'[q].step[1], proc'[q].step[2])
               /\ At(q, "open")' \/ At(q, "backup")' => n = Latest
    <3>1. CASE q = p
      <4>1. Migrating(p)' => Done(s, n + 1, 1)
        <5>1. Migrating(p)' => n + 1 \in 1 .. Latest
          BY <1>2, <1>5
        <5> QED BY <5>1, Statements DEF Done
      <4> QED BY <1>2, <1>5, <3>1, <4>1
    <3>2. CASE q # p
      BY <1>1, <1>3, <1>5, <2>1, <3>2, Elsewhere DEF SchemaFacts, WorkSound
    <3> QED BY <3>1, <3>2
  <2> QED BY <1>3, <2>1 DEF WorkSound
<1> QED BY <1>1, <1>3, <1>6, <1>7 DEF SchemaFacts

\* A statement that is passed over or committed leaves its object in the schema.
LEMMA SchemaStatement ==
  ASSUME SchemaInv, NEW p \in Processes, Exec(p) \/ ExecAdd(p)
  PROVE  SchemaFacts'
<1>1. DatabaseInv /\ StepOK /\ SchemaFacts
  BY DEF SchemaInv
<1> PICK v, j : v = proc[p].step[1] /\ j = proc[p].step[2]
  OBVIOUS
<1> PICK n, s, t : n = Live.version /\ s = Live.schema /\ t = Live'.schema
  OBVIOUS
<1> PICK o : o = Migrations[v][j].object
  OBVIOUS
<1>2. n \in Nat /\ n <= Latest /\ Latest = 8
  BY <1>1, LiveOK, StateFields, Table DEF DatabaseInv, SchemaFacts, FilesSound, Sound
<1>3. /\ UNCHANGED <<main, backup, crashes, overlapped, risky>> /\ Live'.rows = Live.rows
      /\ Migrating(p) /\ v \in 1 .. Latest /\ j \in DOMAIN Migrations[v]
      /\ Looks(p, v, j) \/ GivesUp(p, v, j) \/ Commits(p, v, j)
  BY <1>1, StatementEffect
<1>4. j \in Nat /\ j + 1 \in Nat
  BY <1>1, <1>3 DEF StepOK
<1>5. /\ Others(p) /\ Live'.version = n
      /\ proc'[p].snapshot \in {proc[p].snapshot, Empty}
      /\ ~(At(p, "open")') /\ ~(At(p, "backup")')
      /\ refused' \in {refused, refused \union {n}}
      /\ t \in {s, s \union {o}}
  BY <1>3 DEF Looks, GivesUp, Commits, Lands, SameLive, At
<1>6. o \in SchemaOf(Latest)
  <2>1. o \in Objects(v)
    BY <1>3 DEF Objects
  <2> QED BY <1>3, <2>1, Schemas
<1>7. Sound(Live', overlapped')
  <2>1. Sound(Live, overlapped)
    BY <1>1 DEF SchemaFacts, FilesSound
  <2>2. n <= Latest /\ s \subseteq SchemaOf(Latest) /\ Live.rows <= MaxRows
        /\ (~overlapped => SchemaOf(n) \subseteq s)
    BY <2>1 DEF Sound
  <2>3. t \subseteq SchemaOf(Latest) /\ s \subseteq t
    BY <1>5, <1>6, <2>2
  <2> QED BY <1>3, <1>5, <2>2, <2>3 DEF Sound
<1>8. FilesSound'
  BY <1>1, <1>3, <1>5, <1>7, Sounder, FilesSoundStep DEF SchemaFacts
<1>9. WorkSound'
  <2>1. ASSUME ~overlapped', NEW q \in Processes
        PROVE  /\ Migrating(q)' => Done(t, proc'[q].step[1], proc'[q].step[2])
               /\ At(q, "open")' \/ At(q, "backup")' => n = Latest
    <3>1. CASE q = p
      <4>1. ASSUME Migrating(p)' PROVE Done(t, proc'[p].step[1], proc'[p].step[2])
        <5>1. Done(s, v, j)
          BY <1>1, <1>3, <2>1 DEF SchemaFacts, WorkSound
        <5>2. \/ Lands(p, "migrate", v, j + 1, proc[p].snapshot) /\ o \in t
              \/ Lands(p, "add", v, j, proc[p].snapshot)
          BY <1>3, <4>1 DEF Looks, GivesUp, Commits, SameLive, Migrating
        <5>3. /\ proc'[p].step[1] = v
              /\ proc'[p].step[2] = j \/ (proc'[p].step[2] = j + 1 /\ o \in t)
          BY <5>2 DEF Lands
        <5>4. \A i \in DOMAIN Migrations[v] : i \in Nat
          BY <1>3, Statements
        <5>5. \A i \in DOMAIN Migrations[v] : i < j + 1 => i < j \/ i = j
          BY <1>4, <5>4
        <5> QED BY <1>5, <5>1, <5>3, <5>5 DEF Done
      <4> QED BY <1>5, <3>1, <4>1
    <3>2. CASE q # p
      <4>1. ~Migrating(q)
        BY <1>1, <1>3, <2>1, <3>2 DEF DatabaseInv, MigratesNext
      <4>2. At(q, "open") \/ At(q, "backup") => n = Latest
        BY <1>1, <1>3, <2>1 DEF SchemaFacts, WorkSound
      <4> QED BY <1>5, <3>2, <4>1, <4>2, Elsewhere
    <3> QED BY <3>1, <3>2
  <2> QED BY <1>5, <2>1 DEF WorkSound
<1>10. refused' \subseteq 0 .. Latest
  BY <1>1, <1>2, <1>5 DEF SchemaFacts
<1> QED BY <1>1, <1>3, <1>8, <1>9, <1>10 DEF SchemaFacts

\* The version says what the migration has done.
LEMMA SchemaVersion ==
  ASSUME SchemaInv, NEW p \in Processes, SetVersion(p)
  PROVE  SchemaFacts'
<1>1. DatabaseInv /\ StepOK /\ SchemaFacts
  BY DEF SchemaInv
<1> PICK v, j : v = proc[p].step[1] /\ j = proc[p].step[2]
  OBVIOUS
<1> PICK n, s : n = Live.version /\ s = Live.schema
  OBVIOUS
<1>2. n \in Nat /\ n <= Latest /\ Latest = 8
  BY <1>1, LiveOK, StateFields, Table DEF DatabaseInv, SchemaFacts, FilesSound, Sound
<1>3. /\ UNCHANGED <<main, backup, crashes, overlapped, refused, risky>> /\ Live'.rows = Live.rows
      /\ Migrating(p) /\ v \in 1 .. Latest /\ j \in Nat /\ j > Len(Migrations[v])
      /\ Live'.version = v /\ Live'.schema = s /\ Others(p)
      /\ \/ proc'[p].at = "open" /\ v = Latest /\ proc'[p].snapshot = Empty
         \/ v # Latest /\ Lands(p, "migrate", v + 1, 1, proc[p].snapshot)
  BY <1>1, VersionEffect
<1>4. \/ proc'[p].at = "open" /\ v = 8 /\ proc'[p].snapshot = Empty
      \/ /\ v # 8 /\ proc'[p].at = "migrate" /\ proc'[p].step[1] = v + 1
         /\ proc'[p].step[2] = 1 /\ proc'[p].snapshot = proc[p].snapshot
  BY <1>2, <1>3 DEF Lands
<1>5. /\ Migrating(p)' => proc'[p].step[1] = v + 1 /\ proc'[p].step[2] = 1 /\ v # 8
      /\ (At(p, "open")' => v = 8) /\ ~(At(p, "backup")')
  BY <1>4 DEF Migrating, At
<1>6. ~overlapped => v = n + 1 /\ SchemaOf(v) \subseteq s
  <2> SUFFICES ASSUME ~overlapped PROVE v = n + 1 /\ SchemaOf(v) \subseteq s
    OBVIOUS
  <2>1. v = n + 1 /\ Done(s, v, j)
    BY <1>1, <1>3 DEF DatabaseInv, MigratesNext, SchemaFacts, WorkSound
  <2>2. \A i \in DOMAIN Migrations[v] : i < j
    BY <1>3, Statements
  <2>3. Objects(v) \subseteq s
    BY <2>1, <2>2 DEF Objects, Done
  <2>4. SchemaOf(n) \subseteq s
    BY <1>1 DEF SchemaFacts, FilesSound, Sound
  <2>5. v \in Nat \ {0} /\ v - 1 = n
    BY <1>2, <2>1
  <2> QED BY <2>1, <2>3, <2>4, <2>5, Schemas
<1>7. Sound(Live', overlapped')
  <2>1. Sound(Live, overlapped)
    BY <1>1 DEF SchemaFacts, FilesSound
  <2> QED BY <1>3, <1>6, <2>1 DEF Sound
<1>8. FilesSound'
  <2>1. proc'[p].snapshot \in {proc[p].snapshot, Empty}
    BY <1>4
  <2> QED BY <1>1, <1>3, <1>7, <2>1, Sounder, FilesSoundStep DEF SchemaFacts
<1>9. WorkSound'
  <2>1. ASSUME ~overlapped', NEW q \in Processes
        PROVE  /\ Migrating(q)' => Done(s, proc'[q].step[1], proc'[q].step[2])
               /\ At(q, "open")' \/ At(q, "backup")' => v = Latest
    <3>1. CASE q = p
      <4>1. Migrating(p)' => Done(s, v + 1, 1)
        <5>1. v \in 1 .. 8
          BY <1>2, <1>3
        <5>2. v # 8 => v + 1 \in 1 .. Latest
          BY <1>2, <5>1
        <5>3. v # 8 => Done(s, v + 1, 1)
          BY <5>2, Statements DEF Done
        <5> QED BY <1>5, <5>3
      <4> QED BY <1>2, <1>5, <3>1, <4>1
    <3>2. CASE q # p
      <4>1. ~Migrating(q)
        BY <1>1, <1>3, <2>1, <3>2 DEF DatabaseInv, MigratesNext
      <4>2. At(q, "open") \/ At(q, "backup") => n = Latest
        BY <1>1, <1>3, <2>1 DEF SchemaFacts, WorkSound
      <4>3. n # Latest
        BY <1>2, <1>3, <1>6, <2>1
      <4> QED BY <1>3, <3>2, <4>1, <4>2, <4>3, Elsewhere
    <3> QED BY <3>1, <3>2
  <2> QED BY <1>3, <2>1 DEF WorkSound
<1> QED BY <1>1, <1>3, <1>8, <1>9 DEF SchemaFacts

\* A process that is not migrating leaves the schema, and what is done of it.
LEMMA SchemaQuiet ==
  ASSUME SchemaInv, NEW p \in Processes, Others(p), SameLive,
         UNCHANGED <<overlapped, refused>>, FilesSound',
         ~(Migrating(p)'),
         At(p, "open")' \/ At(p, "backup")' => At(p, "open") \/ At(p, "backup")
  PROVE  SchemaFacts'
<1>1. SchemaFacts
  BY DEF SchemaInv
<1> PICK n, s : n = Live.version /\ s = Live.schema
  OBVIOUS
<1>2. Live'.version = n /\ Live'.schema = s
  BY DEF SameLive
<1>3. WorkSound'
  <2>1. ASSUME ~overlapped', NEW q \in Processes
        PROVE  /\ Migrating(q)' => Done(s, proc'[q].step[1], proc'[q].step[2])
               /\ At(q, "open")' \/ At(q, "backup")' => n = Latest
    <3>1. CASE q = p
      BY <1>1, <2>1, <3>1 DEF SchemaFacts, WorkSound
    <3>2. CASE q # p
      BY <1>1, <2>1, <3>2, Elsewhere DEF SchemaFacts, WorkSound
    <3> QED BY <3>1, <3>2
  <2> QED BY <1>2, <2>1 DEF WorkSound
<1> QED BY <1>1, <1>3 DEF SchemaFacts

\* What is not a migration moves whole files.
LEMMA SchemaMoves ==
  ASSUME SchemaInv, NEW p \in Processes,
         \/ Write(p) \/ Close(p) \/ BeginBackup(p) \/ FinishBackup(p) \/ Crash(p)
         \/ BeginRestore(p) \/ CopyBackup(p) \/ RemoveSidecars(p) \/ Rename(p)
  PROVE  SchemaFacts'
<1>1. DatabaseInv /\ StepOK /\ SchemaFacts /\ FilesSound /\ overlapped \in BOOLEAN
  BY DEF SchemaInv, SchemaFacts
<1>2. /\ Sound(main, overlapped) /\ Sound(Live, overlapped)
      /\ backup # NoFile => Sound(backup, overlapped)
      /\ Sound(proc[p].snapshot, overlapped) /\ Sound(Empty, overlapped)
  BY <1>1, Sounder DEF FilesSound
<1>3. CASE Write(p)
  <2>1. /\ UNCHANGED <<main, backup, proc, crashes, overlapped, refused>>
        /\ SameLive /\ Live'.rows <= MaxRows
    BY <1>1, <1>3, WriteEffect
  <2>2. Sound(Live', overlapped')
    BY <1>2, <2>1 DEF Sound, SameLive
  <2>3. Others(p) /\ At(p, "open")
    BY <1>3, <2>1 DEF Others, Write
  <2>4. ~(Migrating(p)')
    BY <2>1, <2>3 DEF Migrating, At
  <2>5. FilesSound'
    BY <1>1, <2>1, <2>2, <2>3, FilesSoundStep
  <2> QED BY <2>1, <2>3, <2>4, <2>5, SchemaQuiet
<1>4. CASE Close(p) \/ Crash(p)
  <2>1. /\ UNCHANGED <<backup, overlapped, refused, Live>>
        /\ Others(p) /\ proc'[p].at = "idle" /\ proc'[p].snapshot = Empty
        /\ main' \in {main, Live}
    BY <1>1, <1>4, CloseEffect, CrashEffect
  <2>2. FilesSound'
    BY <1>1, <1>2, <2>1, FilesSoundStep
  <2>3. ~(Migrating(p)') /\ ~(At(p, "open")') /\ ~(At(p, "backup")') /\ SameLive
    BY <2>1 DEF Migrating, At, SameLive
  <2> QED BY <2>1, <2>2, <2>3, SchemaQuiet
<1>5. CASE BeginBackup(p) \/ FinishBackup(p)
  <2>1. /\ UNCHANGED <<main, wal, crashes, overlapped, refused, risky, Live>> /\ Others(p)
        /\ \/ /\ At(p, "open") /\ proc'[p].at = "backup" /\ proc'[p].snapshot = Live
              /\ backup' = Empty
           \/ /\ At(p, "backup") /\ proc'[p].at = "open" /\ proc'[p].snapshot = Empty
              /\ backup' = proc[p].snapshot
    BY <1>1, <1>5, BackupEffect
  <2>2. FilesSound'
    BY <1>1, <1>2, <2>1, FilesSoundStep
  <2>3. ~(Migrating(p)') /\ (At(p, "open") \/ At(p, "backup")) /\ SameLive
    BY <2>1 DEF Migrating, At, SameLive
  <2> QED BY <2>1, <2>2, <2>3, SchemaQuiet
<1>6. CASE BeginRestore(p) \/ CopyBackup(p) \/ RemoveSidecars(p) \/ Rename(p)
  <2>1. /\ UNCHANGED <<backup, crashes, overlapped, refused>> /\ Others(p)
        /\ \A q \in Processes : ~Opened(q) /\ ~(Opened(q)')
        /\ proc'[p].snapshot \in {proc[p].snapshot, backup, Empty}
        /\ proc'[p].snapshot = backup => IsState(backup)
        /\ main' \in {main, proc[p].snapshot} /\ Live' \in {Live, main, main'}
    BY <1>1, <1>6, RestoreEffect
  <2>2. Sound(main', overlapped') /\ Sound(Live', overlapped')
    BY <1>2, <2>1
  <2>3. Sound(proc'[p].snapshot, overlapped')
    BY <1>2, <2>1, StateIsFile
  <2>4. FilesSound'
    BY <1>1, <2>1, <2>2, <2>3, FilesSoundStep
  <2>5. WorkSound'
    BY <2>1 DEF WorkSound, Opened, Migrating, At
  <2> QED BY <1>1, <2>1, <2>4, <2>5 DEF SchemaFacts
<1> QED BY <1>3, <1>4, <1>5, <1>6

\* A database as any release left it is sound.
LEMMA SchemaInit == Init => SchemaInv
<1> SUFFICES ASSUME Init PROVE SchemaInv
  OBVIOUS
<1> PICK v \in 0 .. Latest : main = [version |-> v, schema |-> SchemaOf(v), rows |-> 0]
  BY DEF Init
<1>1. main.version = v /\ main.schema = SchemaOf(v) /\ main.rows = 0 /\ Live = main
  BY DEF Init, Live
<1>2. /\ backup = NoFile /\ refused = {} /\ overlapped = FALSE
      /\ \A p \in Processes : proc[p].at = "idle" /\ proc[p].snapshot = Empty
  BY IdleOK DEF Init
<1>3. SchemaOf(v) \subseteq SchemaOf(Latest)
  BY Table DEF SchemaOf
<1>4. v <= Latest /\ 0 <= MaxRows
  BY Table, DatabaseAssumption
<1>5. Sound(main, overlapped)
  BY <1>1, <1>3, <1>4 DEF Sound
<1>6. FilesSound
  BY <1>1, <1>2, <1>5, Sounder DEF FilesSound
<1>7. WorkSound /\ StepOK
  BY <1>2 DEF WorkSound, StepOK, Migrating, At
<1> QED BY <1>2, <1>6, <1>7, InitDatabase DEF SchemaInv, SchemaFacts

\* Every step keeps it.
LEMMA SchemaStep == SchemaInv /\ [Next]_vars => SchemaInv'
<1> SUFFICES ASSUME SchemaInv, [Next]_vars PROVE SchemaInv'
  OBVIOUS
<1>1. DatabaseInv' /\ StepOK'
  BY DatabaseStep, StepKept DEF SchemaInv
<1>2. ASSUME Next PROVE SchemaFacts'
  BY <1>2, SchemaOpen, SchemaStatement, SchemaVersion, SchemaMoves DEF Next
<1>3. ASSUME UNCHANGED vars PROVE SchemaFacts'
  <2>1. UNCHANGED <<main, wal, backup, proc, overlapped, refused>> /\ Live' = Live
    BY <1>3 DEF vars, files, history, Live
  <2>2. SchemaFacts
    BY DEF SchemaInv
  <2>3. FilesSound <=> FilesSound'
    BY <2>1 DEF FilesSound
  <2>4. WorkSound <=> WorkSound'
    BY <2>1 DEF WorkSound, Migrating, At
  <2> QED BY <2>1, <2>2, <2>3, <2>4 DEF SchemaFacts
<1> QED BY <1>1, <1>2, <1>3 DEF SchemaInv

\* A process that is past Open works on the whole schema at the latest version (migrate).
THEOREM OpenWorksOnTheLatest == Spec => []OpenedIsCurrent
<1>1. SchemaInv => OpenedIsCurrent
  <2> SUFFICES ASSUME SchemaInv, ~overlapped, NEW p \in Processes, At(p, "open")
               PROVE  Live.version = Latest /\ Live.schema = SchemaOf(Latest)
    BY DEF OpenedIsCurrent
  <2>1. Live.version = Latest
    BY DEF SchemaInv, SchemaFacts, WorkSound
  <2>2. Sound(Live, FALSE)
    BY DEF SchemaInv, SchemaFacts, FilesSound
  <2> QED BY <2>1, <2>2 DEF Sound
<1> QED BY <1>1, SchemaInit, SchemaStep, PTL DEF Spec

\* The file is always one of some release and migrations stay in range, in every run.
THEOREM TypeCorrect == Spec => []TypeOK
<1>1. SchemaInv => TypeOK
  <2> SUFFICES ASSUME SchemaInv PROVE TypeOK
    OBVIOUS
  <2>1. IsState(main) /\ StepOK /\ refused \subseteq 0 .. Latest /\ Sound(main, overlapped)
    BY DEF SchemaInv, DatabaseInv, FilesOK, SchemaFacts, FilesSound
  <2>2. PICK v, s, r : v \in Nat /\ r \in Nat /\ main = [version |-> v, schema |-> s, rows |-> r]
    BY <2>1 DEF IsState
  <2>3. v <= Latest /\ s \subseteq SchemaOf(Latest) /\ r <= MaxRows
    BY <2>1, <2>2 DEF Sound
  <2>4. v \in 0 .. Latest /\ r \in 0 .. MaxRows
    BY <2>2, <2>3, Table, DatabaseAssumption
  <2>5. main \in [version : 0 .. Latest, schema : SUBSET SchemaOf(Latest), rows : 0 .. MaxRows]
    BY <2>2, <2>3, <2>4
  <2>6. \A p \in Processes : Migrating(p) => proc[p].step[1] \in 1 .. Latest
    BY <2>1 DEF StepOK
  <2> QED BY <2>1, <2>5, <2>6 DEF TypeOK
<1> QED BY <1>1, SchemaInit, SchemaStep, PTL DEF Spec
=============================================================================
