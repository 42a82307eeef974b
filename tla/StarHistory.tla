----------------------------- MODULE StarHistory -----------------------------
(***************************************************************************)
(* The star history of one repository: syncRepoStars of                    *)
(* internal/sync/sync.go with its cursor and series in SQLite              *)
(* (internal/store/store.go) and the stargazer list it pages through       *)
(* (internal/github/client.go).  Syncs of one repository never overlap     *)
(* (SyncCoordinator, SyncRun); crashes, failed requests and failed writes  *)
(* may hit any step, and stars come and go between the steps.              *)
(*                                                                         *)
(* GitHub lists stargazers newest first, as SPEC.md 4.7 and the code take  *)
(* for granted, and a list is read at one instant.                         *)
(*                                                                         *)
(* The names are the module's own (StarSpec, not Spec): HistoryProofs      *)
(* extends it together with Snapshots.                                     *)
(***************************************************************************)
EXTENDS Naturals, FiniteSets, FiniteSetsExt

CONSTANTS
  Users,        \* GitHub users who may star the repository
  MaxTime,      \* bound: stars come and go at the times 1 .. MaxTime
  TicksPerDay,  \* times that make a UTC day
  MaxFailures   \* bound: crashes, failed requests and failed writes

ASSUME StarAssumption ==
  /\ MaxTime \in Nat /\ TicksPerDay \in Nat \ {0} /\ MaxFailures \in Nat
  /\ IsFiniteSet(Users)

Times == 1 .. MaxTime
Day(t) == t \div TicksPerDay
StarDays == {Day(t) : t \in Times}
NoTime == 0        \* the zero time.Time
NeverSynced == 0   \* the cursor's count is stored plus one: -1 in SQLite is 0 here

VARIABLES
  clock,      \* the last time at which a star came or went
  gazers,     \* the stars of the repository: [user, at]
  rows,       \* stars table: day -> total, 0 for no row
  cursor,     \* repos.last_seen_star_count (plus one) and last_starred_at
  pc,         \* where the sync of the repository is
  current,    \* repo.StargazersCount, from the metadata of this sync
  pending,    \* stars fetched and not yet written
  base,       \* the total the next written star stands on
  newest,     \* newestStarredAt of the fetched stars
  mode,       \* "full" or "incremental"
  failures,   \* failures so far
  peak,       \* history: the most stars the repository ever had
  raced       \* history: a star came or went between the metadata and the list

world == <<clock, gazers, peak, raced>>
stored == <<rows, cursor>>
locals == <<current, pending, base, newest, mode>>
starVars == <<world, stored, pc, locals, failures>>

Synced == cursor.count # NeverSynced
LastSeen == cursor.count - 1

HistoryMax == Max({rows[d] : d \in StarDays} \union {0})   \* MaxStarTotal

MaxOf(a, b) == IF a < b THEN b ELSE a

-----------------------------------------------------------------------------
(* The repository on GitHub                                                 *)

WorldMoves ==
  /\ clock < MaxTime
  /\ clock' = clock + 1
  /\ raced' = (raced \/ pc = "decide")
  /\ UNCHANGED <<stored, pc, locals, failures>>

Star(u) ==
  /\ WorldMoves
  /\ \A g \in gazers : g.user # u
  /\ gazers' = gazers \union {[user |-> u, at |-> clock']}
  /\ peak' = MaxOf(peak, Cardinality(gazers'))

Unstar(u) ==
  /\ WorldMoves
  /\ \E g \in gazers : g.user = u
  /\ gazers' = {g \in gazers : g.user # u}
  /\ UNCHANGED peak

-----------------------------------------------------------------------------
(* syncRepoStars                                                            *)

\* The metadata of the repository, read when the run lists the repositories.
ReadMetadata ==
  /\ pc = "idle"
  /\ current' = Cardinality(gazers)
  /\ pc' = "decide"
  /\ UNCHANGED <<world, stored, pending, base, newest, mode, failures>>

\* Mutant of HistoryBehind: the series is never healed.
HistoryBehind_Never == FALSE

\* starHistoryBehindKPI
HistoryBehind ==
  /\ Synced
  /\ HistoryMax < current
  /\ LastSeen = current \/ HistoryMax < LastSeen

\* Synced, count unchanged, history not behind: no request.
Skip ==
  /\ pc = "decide"
  /\ Synced /\ current = LastSeen /\ ~HistoryBehind
  /\ pc' = "idle"
  /\ UNCHANGED <<world, stored, locals, failures>>

\* Mutant of FetchFull: the rebuild counts on from the cursor.
FetchFull_OnCursor ==
  /\ pc = "decide"
  /\ ~Synced \/ current < LastSeen \/ HistoryBehind
  /\ pending' = gazers
  /\ base' = IF Synced THEN LastSeen ELSE 0
  /\ newest' = Max({g.at : g \in gazers} \union {NoTime})
  /\ mode' = "full"
  /\ pc' = "write"
  /\ UNCHANGED <<world, stored, current, failures>>

\* syncStarsFull: every page of the list.
FetchFull ==
  /\ pc = "decide"
  /\ ~Synced \/ current < LastSeen \/ HistoryBehind
  /\ pending' = gazers
  /\ base' = 0
  /\ newest' = Max({g.at : g \in gazers} \union {NoTime})
  /\ mode' = "full"
  /\ pc' = "write"
  /\ UNCHANGED <<world, stored, current, failures>>

\* StargazersRecent: the newest stars, at most maxNew, none as old as stopAt.
Recent(maxNew, stopAt) ==
  LET after == {g \in gazers : g.at > stopAt} IN
  {g \in after : Cardinality({h \in after : h.at >= g.at}) <= maxNew}

Incremental == Synced /\ current > LastSeen /\ ~HistoryBehind

\* syncStarsIncremental; an empty answer ends it.
FetchRecent ==
  /\ pc = "decide"
  /\ Incremental
  /\ LET stars == Recent(current - LastSeen, cursor.at) IN
       IF stars = {}
         THEN /\ pc' = "idle"
              /\ UNCHANGED <<pending, base, newest, mode>>
         ELSE /\ pending' = stars
              /\ base' = LastSeen
              /\ newest' = Max({g.at : g \in stars})
              /\ mode' = "incremental"
              /\ pc' = "write"
  /\ UNCHANGED <<world, stored, current, failures>>

\* The metadata, a page or the cursor cannot be read: only logged.
ReadFails ==
  /\ pc = "decide"
  /\ failures < MaxFailures
  /\ failures' = failures + 1
  /\ pc' = "idle"
  /\ UNCHANGED <<world, stored, locals>>

\* storeStarHistory and storeStarHistoryIncremental: the oldest star not yet
\* written, with the cumulative total; UpsertStar keeps the greater total of a day.
\* A failed write goes unnoticed.
WriteStar(ok) ==
  /\ pc = "write"
  /\ ok \/ failures < MaxFailures
  /\ \E s \in pending :
       /\ \A r \in pending : s.at <= r.at
       /\ pending' = pending \ {s}
       /\ rows' = IF ok THEN [rows EXCEPT ![Day(s.at)] = MaxOf(@, base + 1)] ELSE rows
  /\ base' = base + 1
  /\ failures' = IF ok THEN failures ELSE failures + 1
  /\ UNCHANGED <<world, cursor, pc, current, newest, mode>>

\* Mutant of WriteCursor: the count is not moved.
WriteCursor_OnlyTime(ok) ==
  /\ pc = "write"
  /\ pending = {}
  /\ ok \/ failures < MaxFailures
  /\ cursor' = IF ok THEN [cursor EXCEPT !.at = newest] ELSE cursor
  /\ failures' = IF ok THEN failures ELSE failures + 1
  /\ pc' = "idle"
  /\ UNCHANGED <<world, rows, locals>>

\* SetStarSyncCursor, last; its failure is only logged too.
WriteCursor(ok) ==
  /\ pc = "write"
  /\ pending = {}
  /\ ok \/ failures < MaxFailures
  /\ cursor' = IF ok THEN [count |-> current + 1, at |-> newest] ELSE cursor
  /\ failures' = IF ok THEN failures ELSE failures + 1
  /\ pc' = "idle"
  /\ UNCHANGED <<world, rows, locals>>

\* The process dies and starts again: the tables stay.
ProcessDies ==
  /\ pc # "idle"
  /\ failures < MaxFailures
  /\ failures' = failures + 1
  /\ pc' = "idle"
  /\ UNCHANGED <<world, stored, locals>>

-----------------------------------------------------------------------------
StarInit ==
  /\ clock = 0 /\ gazers = {} /\ peak = 0 /\ raced = FALSE
  /\ rows = [d \in StarDays |-> 0]
  /\ cursor = [count |-> NeverSynced, at |-> NoTime]
  /\ pc = "idle"
  /\ current = 0 /\ pending = {} /\ base = 0 /\ newest = NoTime /\ mode = "full"
  /\ failures = 0

SyncStep ==
  \/ ReadMetadata
  \/ Skip
  \/ FetchFull
  \/ FetchRecent
  \/ WriteStar(TRUE)
  \/ WriteCursor(TRUE)

StarNext ==
  \/ SyncStep
  \/ ReadFails
  \/ WriteStar(FALSE)
  \/ WriteCursor(FALSE)
  \/ ProcessDies
  \/ \E u \in Users : Star(u) \/ Unstar(u)

\* Syncs recur (SyncCoordinator!SyncsRecur) and their requests return.
StarSpec == StarInit /\ [][StarNext]_starVars /\ WF_starVars(SyncStep)

-----------------------------------------------------------------------------
(* Properties                                                               *)

Stars == [user : Users, at : Times]
Count == 0 .. Cardinality(Users)

\* Types of the tables and of the sync's locals.
StarTypeOK ==
  /\ clock \in 0 .. MaxTime /\ gazers \subseteq Stars /\ pending \subseteq Stars
  /\ rows \in [StarDays -> Count] /\ peak \in Count
  /\ cursor \in [count : 0 .. Cardinality(Users) + 1, at : 0 .. MaxTime]
  /\ pc \in {"idle", "decide", "write"} /\ mode \in {"full", "incremental"}
  /\ current \in Count /\ base \in Count /\ newest \in 0 .. MaxTime
  /\ failures \in 0 .. MaxFailures /\ raced \in BOOLEAN

\* The series invents no stars: no total ever exceeds the most stars the repository
\* really had, whatever the races between the metadata, the list, crashes and
\* unnoticed failures.
NeverAbovePeak == \A d \in StarDays : rows[d] <= peak

\* Once the stars stop changing and nothing fails, the series reaches the star count
\* shown on the dashboard: what a crash, a failed write or an unstar left behind is
\* healed by a later sync.  Only a star that came between the metadata and the list
\* of one sync is beyond that healing.
SeriesCatchesUp == <>[](HistoryMax >= Cardinality(gazers)) \/ <>raced

\* SPEC 4.7, "skip stargazer HTTP entirely": once the stars stop changing, syncs
\* stop asking GitHub for the list.
RequestsStop == <>[][~FetchFull /\ ~FetchRecent]_starVars \/ <>raced

\* Claimed by SPEC 4.7 ("Incremental sync keeps history fresh"): the series reaches
\* the star count, races or not.
HistoryKeptFresh == <>[](HistoryMax >= Cardinality(gazers))
=============================================================================
