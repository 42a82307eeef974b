------------------------------ MODULE MCReports ------------------------------
(***************************************************************************)
(* Bounded inputs for the functions of Reports: an index of repositories,  *)
(* a pair to compare, the daily rows of a metric, a rule, a fleet with a   *)
(* freeze.  Each initial state is one input.                               *)
(***************************************************************************)
EXTENDS Reports

CONSTANTS
  MaxRepos,   \* repositories in the index
  MaxTraffic, \* clones, views
  LastDay,    \* days from 1 to today
  MaxFleet    \* repositories in the fleet

ASSUME InputAssumption ==
  /\ MaxRepos \in Nat /\ MaxRepos + MaxPerPage <= IntMax
  /\ MaxTraffic \in Nat /\ LastDay \in Nat \ {0, 1} /\ MaxFleet \in Nat

VARIABLE input

Is(kind) == input.kind = kind
Counts == 0 .. MaxTraffic

IndexInput ==
  \E n \in 0 .. MaxRepos : \E clones \in [1 .. n -> Counts], list \in SetToSeqs(1 .. n) :
    input = [kind |-> "index", clones |-> clones, list |-> list]

Side == [clones : Counts, views : Counts, momentum : {Growth(x, y) : x, y \in 0 .. 2}]
PairInput ==
  \E a, b \in Side, i \in {"7d", "total"} :
    input = [kind |-> "pair", a |-> a, b |-> b, interval |-> i]

DaysInput ==
  \E kept \in SUBSET (1 .. LastDay) : \E rows \in [kept -> 0 .. 2], p \in {30, 50, 100} :
    input = [kind |-> "days", rows |-> rows, percent |-> p]

Names == {"mine", "fork"}
RuleInput ==
  \E r \in [repo : Names \union {""}, scope : {"", "each_repo", "all_repos"},
            metric : Metrics, window : RuleWindows],
     visible \in SUBSET Names :
    input = [kind |-> "rule", rule |-> r, visible |-> visible]

\* The first "stuck" repositories have been frozen since a day, in one metric or in
\* both; the others report every day.
FleetInput ==
  \E n \in 0 .. MaxFleet : \E stuck \in 0 .. n, since \in 1 .. LastDay, both \in BOOLEAN,
     k \in 1 .. EligibleWindow + 1, ok \in BOOLEAN :
    input = [kind |-> "fleet", n |-> n, stuck |-> stuck, since |-> since, both |-> both,
             k |-> k, ok |-> ok]

ReportInit == IndexInput \/ PairInput \/ DaysInput \/ RuleInput \/ FleetInput
ReportNext == UNCHANGED input
ReportSpec == ReportInit /\ [][ReportNext]_input

-----------------------------------------------------------------------------

\* Any page of any size is inside a list of n.
PagesInside(n) ==
  \A size \in -1 .. MaxPerPage + 1, page \in -IntMax .. IntMax :
    Sliceable(n, APIPage(n, PageParam(page), PerPageParam(size)), PerPageParam(size))

Pages(list, size) ==
  [p \in 1 .. TotalPages(Len(list), size) |-> Slice(list, APIPage(Len(list), p, size), size)]

\* The repositories before r, and one.
RankOf(clones, r) == 1 + Cardinality({s \in DOMAIN clones : ClonesFirst(clones, s, r)})

\* Paging through the API shows every repository once, in the order of the list:
\* any page number that fits an int is inside the list, and the pages put
\* together are the list ("rankings are computed before pagination").  The ranks
\* are the same whatever the list is sorted by, and follow the clones.
PagesPartition ==
  Is("index") =>
    /\ PagesInside(Len(input.list))
    /\ \A size \in 1 .. MaxPerPage : FlattenSeq(Pages(input.list, size)) = input.list
    /\ \A r \in DOMAIN input.clones :
         Rank(input.list, input.clones, r) = RankOf(input.clones, r)

Ahead(a, b) ==
  /\ a.clones >= b.clones /\ a.views >= b.views
  /\ a.momentum[1] * b.momentum[2] >= b.momentum[1] * a.momentum[2]

\* The scores, the confidence and the reason given are fair to both sides.
FairTo(a, b, interval) ==
  /\ {<<s[2], s[1]>> : s \in Scores(a, b, interval)} = Scores(b, a, interval)
  /\ \A s \in Scores(a, b, interval) :
       /\ s[1] + s[2] \in 99 .. 101
       /\ Ahead(a, b) => s[1] >= s[2] - 1
       /\ Confidence(s[1], s[2]) # "low" =>
            LET winner == IF LeadsA(s[1], s[2]) THEN a ELSE b
                loser == IF LeadsA(s[1], s[2]) THEN b ELSE a
            IN /\ IF winner = a THEN s[1] >= s[2] ELSE s[2] >= s[1]
               /\ Rationale(a, b, s[1], s[2]) = "clones" => winner.clones >= loser.clones
               /\ Rationale(a, b, s[1], s[2]) = "views" => winner.views >= loser.views

\* "Weighted share of the pair's traffic": whatever is on the left is judged as on
\* the right, the two scores are the whole up to rounding, and nobody who is
\* behind nowhere loses by more than the rounding.  The winner named is the one with
\* the higher score, and is not behind on the metric given as the reason.
H2HFair == Is("pair") => FairTo(input.a, input.b, input.interval)

\* What the windows over the rows say of each other, on the day "now".
WindowsFit(rows, now) ==
  /\ Clones1d(rows, now) <= LastDays(rows, now, Week)
  /\ LastDays(rows, now, Week) <= LastDays(rows, now, Month)
  /\ LastDays(rows, now, Week) = Total(rows, Window(now, 0, Week))
  /\ Total(rows, Window(now, 0, Week)) + Total(rows, Window(now, Week, Week))
       = LastDays(rows, now, 2 * Week)
  /\ LET chart == MomentumChart(rows, now, Week)
     IN now \in DOMAIN rows => now \in DOMAIN chart /\ chart[now] = Momentum(rows, now, Week)

\* The windows computed in SQL and in Go agree: each holds the shorter one, the last
\* two weeks are two windows side by side, and where the momentum chart has a point
\* for today, that is the momentum of the score.
WindowsAgree == Is("days") => WindowsFit(input.rows, LastDay)

Busy == [d \in 1 .. LastDay |-> 1]

\* "Instead of shipping a dead alert": a rule that was accepted sees the traffic of
\* whatever it is about; "sum(last 7d) <= sum(previous 7d) x (1 - drop)" fires, and
\* nothing above it does, also when the previous week is empty.
RulesSeeTraffic ==
  /\ Is("rule") /\ Accepted(input.rule) /\ input.rule.window # "wow" =>
       \A repo \in Subjects(input.rule, input.visible) :
         input.visible # {} =>
           RuleValue([r \in Names |-> [m \in Metrics |-> Busy]], input.rule, repo,
                     input.visible, LastDay) > 0
  /\ Is("days") =>
       LET this == 100 * Total(input.rows, Window(LastDay, 0, Week))
           kept == (100 - input.percent) * Total(input.rows, Window(LastDay, Week, Week))
           fires == DropFires(input.rows, LastDay, input.percent)
       IN /\ this < kept => fires = {TRUE}
          /\ this > kept => fires = {FALSE}

Frozen == [rows |-> [d \in 1 .. input.since |-> 1],
           state |-> [status |-> "success", latest |-> input.since]]
Daily == [rows |-> Busy, state |-> [status |-> "success", latest |-> LastDay]]
Fleet == [r \in 1 .. input.n |->
            [clones |-> IF r <= input.stuck THEN Frozen ELSE Daily,
             views |-> IF r <= input.stuck /\ input.both THEN Frozen ELSE Daily]]

\* "K days, N>=3, stuck*2>=eligible": a freeze of half the fleet is reported from the
\* K-th completed day after its last one, with the days it has lasted.  A freeze of
\* both metrics is not reported any more once no day with traffic is left in the
\* window that makes a repository count.
FreezeReported ==
  Is("fleet") =>
    LET lasted == (LastDay - 1) - input.since
        seen == ~input.both \/ lasted < EligibleWindow
        due == /\ input.ok /\ seen /\ lasted >= input.k
               /\ input.stuck >= StuckMinimum /\ 2 * input.stuck >= input.n
        freeze == FleetFreeze(Fleet, input.k, LastDay, input.ok)
    IN /\ freeze.active = due
       /\ due => freeze.days = lasted /\ freeze.since = input.since
=============================================================================
