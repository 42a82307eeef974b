------------------------------- MODULE Snapshots -------------------------------
(***************************************************************************)
(* Referrers and popular paths: the daily samples of a window that GitHub  *)
(* counts over, and the increments between them that the pages add up      *)
(* (syncRepoSnapshots of internal/sync/sync.go; UpsertReferrer, UpsertPath *)
(* and updateDeltasSince of internal/store/store.go; cmd/gghstats/fetch.go *)
(* which stores samples and computes no increments).  The two tables are   *)
(* alike: one of them, of one repository, is modelled.                     *)
(*                                                                         *)
(* serve runs one sync at a time; fetch is a process of its own on the     *)
(* same file.  Each statement commits on its own.  The day is read once,   *)
(* when a run starts, and may end during the run.                          *)
(***************************************************************************)
EXTENDS Naturals, FiniteSets, FiniteSetsExt

CONSTANTS
  Items,      \* referrers, or paths
  Serve, Fetch, \* the two processes
  MaxDay,     \* bound: days
  MaxCount,   \* bound: visits GitHub counts in its window
  MaxRuns     \* bound: runs

ASSUME SnapshotsAssumption ==
  MaxDay \in Nat \ {0} /\ MaxCount \in Nat \ {0} /\ MaxRuns \in Nat /\ Serve # Fetch

VARIABLES
  today,  \* the UTC day
  count,  \* samples: day -> item -> visits, 0 for no row
  delta,  \* the increments stored with them
  run,    \* what each process does: [at, day, left]
  runs,
  stale   \* history: samples whose increment a change has outdated

tables == <<count, delta>>
vars == <<today, tables, run, runs, stale>>

Days == 1 .. MaxDay
Processes == {Serve, Fetch}
Resting == [at |-> "idle", day |-> 0, left |-> {}]

Begin(p) ==
  /\ run[p].at = "idle" /\ runs < MaxRuns
  /\ runs' = runs + 1
  /\ run' = [run EXCEPT ![p] = [at |-> "store", day |-> today, left |-> Items]]
  /\ UNCHANGED <<today, tables, stale>>

\* ON CONFLICT DO UPDATE SET count = MAX(count, excluded.count)
Kept(old, new) == IF old > new THEN old ELSE new

\* UpsertReferrer, UpsertPath of one item of the answer, under the day of the run.
StoreSample(p, i, n) ==
  /\ run[p].at = "store" /\ i \in run[p].left
  /\ count' = [count EXCEPT ![run[p].day][i] = Kept(@, n)]
  /\ run' = [run EXCEPT ![p].left = @ \ {i}]
  /\ stale' = IF count' = count THEN stale
              ELSE stale \union {<<run[p].day, i>>, <<run[p].day + 1, i>>}
  /\ UNCHANGED <<today, delta, runs>>

\* The request fails, the answer does not name the item, or its write fails
\* (the error is dropped).
NoSample(p, i) ==
  /\ run[p].at = "store" /\ i \in run[p].left
  /\ run' = [run EXCEPT ![p].left = @ \ {i}]
  /\ UNCHANGED <<today, tables, runs, stale>>

\* LAG over the samples from a day on: the one before, 0 if there is none.
Before(i, d, from) ==
  LET sampled == {x \in from .. d - 1 : x \in Days /\ count[x][i] > 0}
  IN IF sampled = {} THEN 0 ELSE count[Max(sampled)][i]

Rise(old, new) == IF new > old THEN new - old ELSE 0

\* Mutant of Recomputed: the day before the run is recomputed as well.
Recomputed_Lookback(day) ==
  [d \in Days |-> [i \in Items |->
     IF d + 1 >= day /\ count[d][i] > 0 THEN Rise(Before(i, d, day - 1), count[d][i])
     ELSE delta[d][i]]]

\* Mutant of Recomputed: no day of lookback.
Recomputed_NoLookback(day) ==
  [d \in Days |-> [i \in Items |->
     IF d >= day /\ count[d][i] > 0 THEN Rise(Before(i, d, day), count[d][i])
     ELSE delta[d][i]]]

\* updateDeltasSince: the samples from the day on, with one day of lookback.
Recomputed(day) ==
  [d \in Days |-> [i \in Items |->
     IF d >= day /\ count[d][i] > 0 THEN Rise(Before(i, d, day - 1), count[d][i])
     ELSE delta[d][i]]]

\* Run: once the workers are done; an error is logged.
UpdateDeltas ==
  /\ run[Serve].at = "store" /\ run[Serve].left = {}
  /\ run' = [run EXCEPT ![Serve] = Resting]
  /\ \/ /\ delta' = Recomputed(run[Serve].day)
        /\ stale' = {x \in stale : x[1] < run[Serve].day}
     \/ UNCHANGED <<delta, stale>>
  /\ UNCHANGED <<today, count, runs>>

\* runFetch ends with the samples stored.
FetchEnds ==
  /\ run[Fetch].at = "store" /\ run[Fetch].left = {}
  /\ run' = [run EXCEPT ![Fetch] = Resting]
  /\ UNCHANGED <<today, tables, runs, stale>>

Crash(p) ==
  /\ run[p].at # "idle"
  /\ run' = [run EXCEPT ![p] = Resting]
  /\ UNCHANGED <<today, tables, runs, stale>>

NewDay ==
  /\ today < MaxDay
  /\ today' = today + 1
  /\ UNCHANGED <<tables, run, runs, stale>>

Init ==
  /\ today = 1
  /\ count = [d \in Days |-> [i \in Items |-> 0]]
  /\ delta = [d \in Days |-> [i \in Items |-> 0]]
  /\ run = [p \in Processes |-> Resting]
  /\ runs = 0 /\ stale = {}

Next ==
  \/ \E p \in Processes :
       \/ Begin(p) \/ Crash(p)
       \/ \E i \in Items : NoSample(p, i) \/ \E n \in 1 .. MaxCount : StoreSample(p, i, n)
  \/ UpdateDeltas \/ FetchEnds \/ NewDay

Spec == Init /\ [][Next]_vars

-----------------------------------------------------------------------------
(* Properties                                                               *)

TypeOK ==
  /\ today \in Days /\ runs \in 0 .. MaxRuns
  /\ count \in [Days -> [Items -> 0 .. MaxCount]]
  /\ delta \in [Days -> [Items -> 0 .. MaxCount]]
  /\ \A p \in Processes :
       /\ run[p].at \in {"idle", "store"} /\ run[p].left \subseteq Items
       /\ run[p].at # "idle" => run[p].day \in 1 .. today

\* Sampled the day before, or never before.
NoGap(i, d) ==
  \/ \A x \in 1 .. d - 1 : count[x][i] = 0
  \/ d > 1 /\ count[d - 1][i] > 0

\* "Parity with full" (TestUpdateDeltasSince_ParityWithFull): the increment of a
\* sample is what rebuilding the whole table would give (UpdateDeltas), however
\* the runs of serve and fetch, midnights and crashes follow each other, as long as
\* the item was sampled on the day before and no sample has changed since the
\* increments of its day were computed.
DeltasAgree ==
  \A d \in Days : \A i \in Items :
    count[d][i] > 0 /\ <<d, i>> \notin stale /\ NoGap(i, d) =>
      delta[d][i] = Rise(Before(i, d, 1), count[d][i])

\* "Leaves older rows untouched" (TestUpdateDeltasSince_LeavesOlderRowsUntouched):
\* no sample and no increment of a day changes after the runs that began on that
\* day or before have ended, and no sample ever goes down.
HistoryKept ==
  [][\A d \in Days : \A i \in Items :
       /\ count'[d][i] >= count[d][i]
       /\ (count'[d][i] # count[d][i] \/ delta'[d][i] # delta[d][i])
            => \E p \in Processes : run[p].at # "idle" /\ run[p].day <= d]_vars
=============================================================================
