-------------------------------- MODULE Reports --------------------------------
(***************************************************************************)
(* What the pages, the JSON API and the alert rules compute from the daily *)
(* rows: pages and ranks of the index (internal/server/server.go,          *)
(* index_rank.go), rolling windows and momentum (internal/store/store.go,  *)
(* internal/h2h/metrics.go, series.go), the head-to-head score             *)
(* (internal/h2h/score.go), traffic rules (internal/alert/rules.go,        *)
(* evaluate.go) and the fleet freeze (internal/store/upstream_stale.go).   *)
(*                                                                         *)
(* Everything here is a function of its arguments.  Days are numbers, the  *)
(* rows of a metric are a function from the days that have one, fractions  *)
(* are exact pairs; where the code rounds a float64 that is exactly on the *)
(* boundary, both results are possible.                                    *)
(***************************************************************************)
EXTENDS Integers, Sequences, FiniteSets, SequencesExt, FiniteSetsExt

CONSTANTS
  IntMax,         \* the greatest int: 2^63 - 1
  DefaultPerPage, MaxPerPage,
  Week, Month,    \* days of the short and the long window: 7 and 30
  EligibleWindow, \* upstreamStaleEligibleWindowDays: 14
  StuckMinimum    \* repositories a fleet freeze takes: 3

ASSUME ReportsAssumption ==
  /\ DefaultPerPage \in Nat \ {0} /\ MaxPerPage \in Nat /\ MaxPerPage >= DefaultPerPage
  /\ IntMax \in Nat /\ IntMax >= 2 * MaxPerPage
  /\ Week \in Nat \ {0, 1} /\ Month \in Nat /\ Month >= Week
  /\ EligibleWindow \in Nat \ {0} /\ StuckMinimum \in Nat \ {0}

-----------------------------------------------------------------------------
(* Pages                                                                    *)

\* Overflow of an int.
Wrap(n) == ((n + IntMax + 1) % (2 * (IntMax + 1))) - (IntMax + 1)

\* parsePositiveInt, and the cap of parseIndexQueryParams and parseAPIReposQuery.
PositiveOr(n, fallback) == IF n > 0 THEN n ELSE fallback
PageParam(n) == PositiveOr(n, 1)
PerPageParam(n) ==
  IF PositiveOr(n, DefaultPerPage) > MaxPerPage THEN MaxPerPage ELSE PositiveOr(n, DefaultPerPage)

AtMost(n, limit) == IF n > limit THEN limit ELSE n

\* Mutant of TotalPages: integer division.
TotalPages_Down(total, perPage) == IF total <= 0 THEN 1 ELSE total \div perPage

\* indexTotalPages, clampIndexPage
TotalPages(total, perPage) ==
  IF total <= 0 THEN 1 ELSE (total + perPage - 1) \div perPage
ClampPage(page, pages) == AtMost(page, pages)

\* indexReposPageSlice, indexRepoRowsPageSlice: list[start:end].
Start(total, page, perPage) == AtMost(Wrap((page - 1) * perPage), total)
End(total, page, perPage) == AtMost(Wrap(Start(total, page, perPage) + perPage), total)
Sliceable(total, page, perPage) ==
  0 <= Start(total, page, perPage) /\ Start(total, page, perPage) <= End(total, page, perPage)
Slice(list, page, perPage) ==
  SubSeq(list, Start(Len(list), page, perPage) + 1, End(Len(list), page, perPage))

\* handleAPIRepos clamps and slices; handleIndex slices, then clamps the number
\* it shows.
APIPage(total, page, perPage) == ClampPage(page, TotalPages(total, perPage))

\* rankIndexReposByTotalClones: by clones, then by name; what sort.Slice returns is
\* said, not how it sorts.
ClonesFirst(clones, r, s) == clones[r] > clones[s] \/ (clones[r] = clones[s] /\ r < s)
Ranking(list, clones) ==
  CHOOSE sorted \in SetToSeqs(ToSet(list)) :
    \A i, j \in DOMAIN sorted : i < j => ClonesFirst(clones, sorted[i], sorted[j])
Rank(list, clones, r) == CHOOSE i \in DOMAIN list : Ranking(list, clones)[i] = r

-----------------------------------------------------------------------------
(* Windows of daily rows                                                    *)

Total(rows, days) == FoldSet(LAMBDA d, sum : rows[d] + sum, 0, DOMAIN rows \intersect days)

\* Mutant of Window: span days back, and today.
Window_OneMore(now, back, span) == (now - back - span) .. (now - back)

\* utcWindow, sumRange
Window(now, back, span) == (now - back - (span - 1)) .. (now - back)

\* The windows of ListRepos: the latest of today and yesterday; today and the
\* days before it; everything.
Clones1d(rows, now) ==
  LET recent == DOMAIN rows \intersect {now - 1, now}
  IN IF recent = {} THEN 0 ELSE rows[Max(recent)]
LastDays(rows, now, n) == Total(rows, (now - (n - 1)) .. now)
TotalClones(rows) == Total(rows, DOMAIN rows)

\* (last - prev) / max(prev, 1)
Growth(last, prev) == <<last - prev, IF prev < 1 THEN 1 ELSE prev>>

\* cloneMomentumRatio
Momentum(rows, now, w) ==
  Growth(Total(rows, Window(now, 0, w)), Total(rows, Window(now, w, w)))

\* cloneMomentumSeries over the dense calendar from the fetched start to the last
\* row: day -> ratio.
Calendar(rows, from) ==
  IF DOMAIN rows = {} THEN {}
  ELSE AtMost(from, Min(DOMAIN rows)) .. Max(DOMAIN rows)
MomentumSeries(rows, w, from) ==
  LET days == Calendar(rows, from)
  IN [d \in {x \in days : x - (2 * w - 1) \in days} |->
        Growth(Total(rows, (d - w + 1) .. d), Total(rows, (d - 2 * w + 1) .. (d - w)))]

\* buildH2HChartJSON: the clones fetched (CloneHistoryDays), the labels kept.
ChartFrom(now, w) == now - w
FetchFrom(now, w) == now - (w + 2 * w)
Fetched(rows, now, w) == [d \in DOMAIN rows \intersect FetchFrom(now, w) .. now |-> rows[d]]
MomentumChart(rows, now, w) ==
  LET series == MomentumSeries(Fetched(rows, now, w), w, FetchFrom(now, w))
  IN [d \in {x \in DOMAIN series : x >= ChartFrom(now, w)} |-> series[d]]

-----------------------------------------------------------------------------
(* Head-to-head                                                             *)

NonNegative(n) == IF n < 0 THEN 0 ELSE n

\* Mutant of SharePair: nothing for either when both are zero.
SharePair_Zero(a, b) == IF a + b = 0 THEN <<0, 0, 1>> ELSE <<a, b, a + b>>

\* sharePair: shares of a and of b, with their denominator.
SharePair(a, b) == IF a + b = 0 THEN <<1, 1, 2>> ELSE <<a, b, a + b>>

\* Growth rates are compared on a common denominator, negative ones count as zero.
MomentumPair(m, n) == SharePair(NonNegative(m[1]) * n[2], NonNegative(n[1]) * m[2])

\* math.Round of n/d: the nearest, and for an exact half the next one up or,
\* when the float64 sum fell short of it, the one below.
Rounded(n, d) ==
  LET up == (2 * n + d) \div (2 * d)
  IN IF (2 * n + d) % (2 * d) = 0 THEN {up - 1, up} ELSE {up}

\* The weights of the metrics of an interval, in percent.
Weights(interval) ==
  IF interval = "total" THEN [clones |-> 50, views |-> 50, momentum |-> 0]
  ELSE [clones |-> 50, views |-> 30, momentum |-> 20]

\* The weighted shares of one side, over the product of the denominators.
Raw(weight, c, v, m, side) ==
  weight.clones * c[side] * v[3] * m[3]
    + weight.views * c[3] * v[side] * m[3]
    + weight.momentum * c[3] * v[3] * m[side]

\* weightedThreePair, weightedTwoPair: both scores, each rounded on its own.
Scores(a, b, interval) ==
  LET c == SharePair(a.clones, b.clones)
      v == SharePair(a.views, b.views)
      m == MomentumPair(a.momentum, b.momentum)
      d == c[3] * v[3] * m[3]
      raw(side) == Raw(Weights(interval), c, v, m, side)
  IN Rounded(raw(1), d) \X Rounded(raw(2), d)

Leader(x, y) == IF x > y THEN x ELSE y
Gap(x, y) == IF x > y THEN x - y ELSE y - x

\* deltaPct and the thresholds of buildSuggestion, as 100 * gap against percent * leader.
Confidence(x, y) ==
  IF Leader(x, y) < 1 \/ 100 * Gap(x, y) < 10 * Leader(x, y) THEN "low"
  ELSE IF 100 * Gap(x, y) < 25 * Leader(x, y) THEN "medium" ELSE "high"

\* A leads a tie.
LeadsA(x, y) == x >= y

\* buildSuggestion: the metric the winner is said to lead on.
Rationale(a, b, x, y) ==
  CASE Confidence(x, y) = "low" -> "close"
    [] Confidence(x, y) = "high" /\ LeadsA(a.clones, b.clones) = LeadsA(x, y) -> "clones"
    [] OTHER -> IF LeadsA(a.views, b.views) = LeadsA(x, y) THEN "views" ELSE "overall"

-----------------------------------------------------------------------------
(* Traffic rules                                                            *)

Metrics == {"clones", "views"}
RuleWindows == {"1d", "7d", "30d", "lifetime", "wow"}

\* Mutant of Accepted: the window of a fleet rule is not checked.
Accepted_AnyWindow(rule) == rule.repo # "" \/ rule.scope # ""

\* normalizeRule of a traffic rule with a metric, a window and an op.
Accepted(rule) ==
  /\ rule.repo # "" \/ rule.scope # ""
  /\ rule.scope = "all_repos" => rule.window = "lifetime"

\* evaluateTrafficRuleScoped: the repositories a rule is evaluated for; the fleet is "".
Subjects(rule, visible) ==
  CASE rule.scope = "all_repos" -> {""}
    [] rule.scope = "each_repo" -> visible
    [] OTHER -> {rule.repo} \intersect visible

\* metricValueScoped: the days a rule looks at, for the fleet over all its tables.
Rows(tables, rule, repo) == IF repo \in DOMAIN tables THEN tables[repo][rule.metric] ELSE <<>>
FleetTotal(tables, metric, visible) ==
  Total([r \in visible |-> TotalClones(tables[r][metric])], visible)
RuleValue(tables, rule, repo, visible, now) ==
  IF rule.scope = "all_repos" /\ rule.window = "lifetime"
    THEN FleetTotal(tables, rule.metric, visible)
    ELSE CASE rule.window = "1d" -> Total(Rows(tables, rule, repo), {now})
           [] rule.window = "7d" -> Total(Rows(tables, rule, repo), Window(now, 0, Week))
           [] rule.window = "30d" -> Total(Rows(tables, rule, repo), Window(now, 0, Month))
           [] rule.window = "lifetime" -> TotalClones(Rows(tables, rule, repo))

\* wowDropPct >= threshold, in floats: on the boundary the drop may come out below.
DropFires(rows, now, percent) ==
  LET this == Total(rows, Window(now, 0, Week))
      last == Growth(0, Total(rows, Window(now, Week, Week)))[2]
      spare == (100 - percent) * last - 100 * this
  IN IF spare > 0 THEN {TRUE} ELSE IF spare = 0 THEN BOOLEAN ELSE {FALSE}

-----------------------------------------------------------------------------
(* The fleet freeze                                                         *)

\* Mutant of Stale: the day K days ago is not stale yet.
Stale_Strict(state, cutoff) ==
  state.status = "success" /\ state.latest # 0 /\ state.latest < cutoff

\* metricIsUpstreamStale; 0 is no day.
Stale(state, cutoff) ==
  state.status = "success" /\ state.latest # 0 /\ state.latest <= cutoff

\* repoUpstreamStaleObs: the later day of the stale metrics, 0 for none.
StuckSince(repo, cutoff) ==
  Max({0} \union {repo[m].state.latest : m \in {x \in Metrics : Stale(repo[x].state, cutoff)}})

\* repoHasNonZeroTrafficInWindow
Eligible(repo, completed) ==
  \E m \in Metrics : Total(repo[m].rows, (completed - (EligibleWindow - 1)) .. completed) > 0

Inactive == [active |-> FALSE, since |-> 0, days |-> 0, stuck |-> 0, eligible |-> 0]

\* DetectFleetUpstreamStale
FleetFreeze(fleet, k, now, lastSyncOK) ==
  LET completed == now - 1
      eligible == {r \in DOMAIN fleet : Eligible(fleet[r], completed)}
      stuck == {r \in eligible : StuckSince(fleet[r], completed - k) # 0}
      since == Max({0} \union {StuckSince(fleet[r], completed - k) : r \in stuck})
      counts == [Inactive EXCEPT !.stuck = Cardinality(stuck), !.eligible = Cardinality(eligible)]
  IN IF k <= 0 \/ ~lastSyncOK THEN Inactive
     ELSE IF Cardinality(stuck) < StuckMinimum \/ 2 * Cardinality(stuck) < Cardinality(eligible)
       THEN counts
       ELSE [counts EXCEPT !.active = TRUE, !.since = since, !.days = completed - since]
=============================================================================
