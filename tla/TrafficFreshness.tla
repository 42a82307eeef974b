--------------------------- MODULE TrafficFreshness ---------------------------
(***************************************************************************)
(* The daily views and clones of one repository and what is known of their *)
(* freshness: syncRepoTraffic of internal/sync/sync.go writes them in one  *)
(* SQLite transaction per metric (internal/store/store.go), and a request  *)
(* reads them in up to five statements without a transaction               *)
(* (internal/server/traffic.go, server.go, traffic_freshness.go), so a     *)
(* commit may fall between any two of them.                                *)
(*                                                                         *)
(* Syncs of one repository never overlap (SyncCoordinator, SyncRun).  The  *)
(* tables are keyed by metric, so a request is followed for one of the two *)
(* metrics.  A day's count is represented by the sync that reported it.    *)
(***************************************************************************)
EXTENDS Naturals, FiniteSets, FiniteSetsExt

CONSTANTS
  Reports,      \* the sets of days GitHub may report
  FirstDay,     \* UTC day at the beginning
  LastDay,      \* bound: the clock stops at its first second
  TicksPerDay,  \* timestamps, in seconds, that fall in a day
  MaxSyncs,     \* bound on the syncs of the repository
  Asked         \* the metrics requests ask for

Days == 1 .. LastDay

Metrics == {"views", "clones"}

ASSUME TrafficAssumption ==
  /\ Asked \subseteq Metrics
  /\ FirstDay \in Nat \ {0, 1}   \* yesterday is a day, too
  /\ LastDay \in Nat /\ FirstDay <= LastDay
  /\ TicksPerDay \in Nat \ {0} /\ MaxSyncs \in Nat
  /\ \A days \in Reports : days \subseteq Days /\ IsFiniteSet(days)

Day(t) == t \div TicksPerDay
Times == FirstDay * TicksPerDay .. LastDay * TicksPerDay
NoTime == 0   \* the empty string of last_success_at
NoDay == 0    \* the empty string of a date
NoSync == 0   \* no row

VARIABLES
  clock,     \* seconds
  row,       \* tables views and clones: metric -> day -> sync that reported it
  coverage,  \* traffic_metric_coverage: metric -> [date, seen]
  state,     \* traffic_metric_state: metric -> record
  sync,      \* syncRepoTraffic: place, number, its now, the metrics in error
  request,   \* a request: place, metric, what is left to do, locals of its handler
  answer,    \* history: metric -> the latest answer that was stored
  latest     \* history: the answers that were the latest during the request

stored == <<row, coverage, state, answer>>
vars == <<clock, stored, sync, request, latest>>

NeverState == [at |-> NoTime, observed |-> NoDay, from |-> NoDay, to |-> NoDay,
               status |-> "never"]
NoRequest == [at |-> "idle", metric |-> "views", began |-> NoTime, todo |-> {}, rows |-> {},
              st |-> NeverState, now |-> NoTime, chart |-> {}, status |-> "never"]
NoAnswer == [sync |-> NoSync, days |-> {}, at |-> NoTime]

First(days) == IF days = {} THEN NoDay ELSE Min(days)
Last(days) == IF days = {} THEN NoDay ELSE Max(days)

Tick ==
  /\ clock + 1 \in Times
  /\ clock' = clock + 1
  /\ UNCHANGED <<stored, sync, request, latest>>

-----------------------------------------------------------------------------
(* syncRepoTraffic                                                          *)

Begin ==
  /\ sync.at = "idle"
  /\ sync.number < MaxSyncs
  /\ sync' = [at |-> "views", number |-> sync.number + 1, now |-> clock, errs |-> {}]
  /\ UNCHANGED <<clock, stored, request, latest>>

\* Views first, then clones, whatever became of the views.
NextMetric(m, errs) ==
  /\ sync.at = m
  /\ sync' = [sync EXCEPT !.at = IF m = "views" THEN "clones" ELSE "returned",
                          !.errs = @ \union errs]

\* A request for metric m sees the new answer too.
LatestFor(m) ==
  latest' = IF request.at # "idle" /\ request.metric = m THEN latest \union {answer'[m]}
                                                         ELSE latest

\* Mutant of ClearCoverage: the earlier coverage stays.
ClearCoverage_Not(m) == coverage[m]

\* DELETE of the metric's coverage, the transaction's first statement.
ClearCoverage(m) == {}

\* Mutant of RecordSuccess: the DELETE does not ask for the metric.
RecordSuccess_ClearsBoth(m, days) ==
  /\ row' = [row EXCEPT ![m] = [d \in Days |-> IF d \in days THEN sync.number ELSE @[d]]]
  /\ coverage' = [k \in Metrics |->
       IF k = m THEN {[date |-> d, seen |-> sync.now] : d \in days} ELSE {}]
  /\ state' = [state EXCEPT ![m] =
       [at |-> sync.now, observed |-> Last(days), from |-> First(days), to |-> Last(days),
        status |-> "success"]]
  /\ answer' = [answer EXCEPT ![m] = [sync |-> sync.number, days |-> days, at |-> sync.now]]
  /\ LatestFor(m)

\* RecordTrafficMetricSuccess: rows, coverage and state in one transaction.
\* TrafficCoverageBounds gives the first and the last reported day.
RecordSuccess(m, days) ==
  /\ row' = [row EXCEPT ![m] = [d \in Days |-> IF d \in days THEN sync.number ELSE @[d]]]
  /\ coverage' = [coverage EXCEPT
       ![m] = {c \in ClearCoverage(m) : c.date \notin days}
              \union {[date |-> d, seen |-> sync.now] : d \in days}]
  /\ state' = [state EXCEPT ![m] =
       [at |-> sync.now, observed |-> Last(days), from |-> First(days), to |-> Last(days),
        status |-> "success"]]
  /\ answer' = [answer EXCEPT ![m] = [sync |-> sync.number, days |-> days, at |-> sync.now]]
  /\ LatestFor(m)

\* GitHub answers with the days it has, none later than today, and they are stored.
Stored(m, days) ==
  /\ NextMetric(m, {})
  /\ days \subseteq 1 .. Day(clock)
  /\ RecordSuccess(m, days)
  /\ UNCHANGED <<clock, request>>

\* The transaction fails and is rolled back; or GitHub does not answer and the failure
\* cannot be stored either, which is only logged.
NotStored(m) ==
  /\ NextMetric(m, {m})
  /\ UNCHANGED <<clock, stored, request, latest>>

\* GitHub does not answer: RecordTrafficMetricFailure keeps the last good answer.
FetchFails(m) ==
  /\ NextMetric(m, {m})
  /\ state' = [state EXCEPT ![m].status = "failed"]
  /\ UNCHANGED <<clock, row, coverage, answer, request, latest>>

Return ==
  /\ sync.at = "returned"
  /\ sync' = [sync EXCEPT !.at = "idle"]
  /\ UNCHANGED <<clock, stored, request, latest>>

\* The process dies between two statements and starts again, without its requests.
Crash ==
  /\ sync.at # "idle"
  /\ sync' = [sync EXCEPT !.at = "idle"]
  /\ request' = NoRequest
  /\ latest' = {}
  /\ UNCHANGED <<clock, stored>>

Sync ==
  \/ Begin
  \/ \E m \in Metrics : \/ \E days \in Reports : Stored(m, days)
                        \/ NotStored(m)
                        \/ FetchFails(m)
  \/ Return
  \/ Crash

-----------------------------------------------------------------------------
(* A request: the rows, then the chart and the freshness in either order    *)

\* ClonesByRange or ViewsByRange, which the traffic API and the repository page call
\* before anything else.
ReadRows(m) ==
  /\ request.at = "idle"
  /\ request' = [NoRequest EXCEPT !.at = "between", !.metric = m, !.began = clock,
                                  !.todo = {"chart", "freshness"},
                                  !.rows = {d \in Days : row[m][d] # NoSync}]
  /\ latest' = {answer[m]}
  /\ UNCHANGED <<clock, stored, sync>>

\* TrafficMetricState, the first statement of both tasks; the handler's now is taken
\* at the request's beginning or as late as here.
ReadState(task, now) ==
  /\ request.at = "between" /\ task \in request.todo
  /\ now \in request.began .. clock
  /\ request' = [request EXCEPT !.at = task, !.st = state[request.metric],
                                !.now = IF task = "freshness" THEN now ELSE @]
  /\ UNCHANGED <<clock, stored, sync, latest>>

\* TrafficCoverageDates: the dates listed under the timestamp that was read.
CoverageDates ==
  {c.date : c \in {b \in coverage[request.metric] : b.seen = request.st.at}}

Finish(task, r) ==
  /\ request.at = task
  /\ request' = [r EXCEPT !.at = "between", !.todo = @ \ {task}, !.st = NeverState]
  /\ UNCHANGED <<clock, stored, sync, latest>>

\* Mutant of FilterRows: cached rows are taken for confirmed.
FilterRows_Cached == Finish("chart", [request EXCEPT !.chart = request.rows])

\* trafficRowsWithLatestCoverage: all rows without an answered span; with one, the
\* rows of the span that the answer did not report are left out.
FilterRows ==
  LET st == request.st
      spanned == st.at # NoTime /\ st.from # NoDay
  IN Finish("chart", [request EXCEPT
       !.chart = {d \in request.rows :
                    (spanned /\ d \in st.from .. st.to) => d \in CoverageDates}])

\* MissingCompletedDays: days of the answered span up to yesterday without coverage.
MissingDays(yesterday) ==
  LET st == request.st IN
  IF st.from = NoDay THEN {} ELSE {d \in st.from .. st.to : d <= yesterday} \ CoverageDates

\* trafficFreshnessFor
Status ==
  LET st == request.st
      yesterday == Day(request.now) - 1
  IN CASE st.status = "failed" -> "failed"
       [] st.status = "never" \/ st.at = NoTime -> "never"
       [] OTHER -> IF MissingDays(yesterday) # {} THEN "missing"
                   ELSE IF st.observed < yesterday THEN "delayed" ELSE "fresh"

JudgeFreshness == Finish("freshness", [request EXCEPT !.status = Status])

Answered == request.at = "between" /\ request.todo = {}

Reply ==
  /\ Answered
  /\ request' = NoRequest
  /\ latest' = {}
  /\ UNCHANGED <<clock, stored, sync>>

Request ==
  \/ \E m \in Asked : ReadRows(m)
  \/ \E task \in {"chart", "freshness"}, now \in Times : ReadState(task, now)
  \/ FilterRows
  \/ JudgeFreshness
  \/ Reply

-----------------------------------------------------------------------------
Init ==
  /\ clock = FirstDay * TicksPerDay
  /\ row = [m \in Metrics |-> [d \in Days |-> NoSync]]
  /\ coverage = [m \in Metrics |-> {}]
  /\ state = [m \in Metrics |-> NeverState]
  /\ sync = [at |-> "idle", number |-> 0, now |-> NoTime, errs |-> {}]
  /\ request = NoRequest
  /\ answer = [m \in Metrics |-> NoAnswer]
  /\ latest = {}

Next == Tick \/ Sync \/ Request

Spec == Init /\ [][Next]_vars

-----------------------------------------------------------------------------
(* Properties                                                               *)

AnyDay == 0 .. LastDay
AnyTime == {NoTime} \union Times
Numbers == 0 .. MaxSyncs
States == [at : AnyTime, observed : AnyDay, from : AnyDay, to : AnyDay,
           status : {"never", "failed", "success"}]
Answers == [sync : Numbers, days : SUBSET Days, at : AnyTime]

Coverage == [date : Days, seen : Times]
Statuses == {"never", "failed", "missing", "delayed", "fresh"}
Syncs == [at : {"idle", "views", "clones", "returned"}, number : Numbers, now : AnyTime,
          errs : SUBSET Metrics]
Requests == [at : {"idle", "between", "chart", "freshness"}, metric : Metrics,
             began : AnyTime, todo : SUBSET {"chart", "freshness"}, rows : SUBSET Days,
             st : States, now : AnyTime, chart : SUBSET Days, status : Statuses]

\* Types of the tables and of the locals.
TypeOK ==
  /\ clock \in Times
  /\ row \in [Metrics -> [Days -> Numbers]]
  /\ coverage \in [Metrics -> SUBSET Coverage]
  /\ state \in [Metrics -> States]
  /\ answer \in [Metrics -> Answers]
  /\ sync \in Syncs
  /\ request \in Requests
  /\ latest \subseteq Answers

\* "Coverage represents exactly the latest successful GitHub response" (store.go 338),
\* whatever failed or was cut off since: the coverage's dates and timestamp, the span
\* and the counts of the daily table are all of that one answer.
StoredIsLatestAnswer ==
  \A m \in Metrics :
    /\ coverage[m] = {[date |-> d, seen |-> answer[m].at] : d \in answer[m].days}
    /\ state[m].at = answer[m].at
    /\ state[m].from = First(answer[m].days)
    /\ state[m].to = Last(answer[m].days) /\ state[m].observed = Last(answer[m].days)
    /\ \A d \in answer[m].days : row[m][d] = answer[m].sync

\* A sync that returns no error has stored an answer of its own for both metrics.
CleanSyncStored ==
  sync.at = "returned" /\ sync.errs = {} =>
    \A m \in Metrics : state[m].status = "success" /\ answer[m].sync = sync.number

\* An answer that leaves no day between its first and yesterday open.
Reaches(a, yesterday) == a.days # {} /\ Max(a.days) >= yesterday
Gapless(a, from, yesterday) == from .. yesterday \subseteq a.days

\* The dashboard says "fresh" of a metric only when an answer that was the latest at
\* some moment of the request reached yesterday and had no gap, although state and
\* coverage are read apart.  Two answers stored within one second count as one.
FreshIsTrue ==
  Answered /\ request.status = "fresh" =>
    LET yesterday == Day(request.now) - 1 IN
    \E a, b \in latest : /\ a.at = b.at /\ Reaches(a, yesterday)
                         /\ Gapless(b, Min(a.days), yesterday)

\* "prevents an older cached row from disguising a date omitted by GitHub's latest
\* successful rolling response as confirmed data" (traffic_freshness.go 105): a day on
\* the chart was reported, or not spanned, by an answer that was the latest at some
\* moment of the request.
ChartIsConfirmed ==
  Answered => \A d \in request.chart :
    \E a \in latest : d \in a.days \/ d \notin First(a.days) .. Last(a.days)

\* Without a commit between its statements a request raises no false alarm: no stored
\* day is left out and no day is called missing that the latest answer reported.
QuietRequestExact ==
  Answered => \A a \in latest :
    latest = {a} =>
      /\ a.days \subseteq request.chart
      /\ request.status = "missing" =>
           \E d \in First(a.days) .. Day(request.now) - 1 : d \notin a.days

\* Claimed by the comment of trafficRowsWithLatestCoverage ("removes a cached row only
\* when the latest authoritative response covers that date but did not report it"):
\* a row is left out only if some answer that was the latest during the request spans
\* its day and did not report it.
OnlyUnreportedHidden ==
  Answered => \A d \in request.rows \ request.chart :
    \E a \in latest : d \in First(a.days) .. Last(a.days) /\ d \notin a.days
=============================================================================
