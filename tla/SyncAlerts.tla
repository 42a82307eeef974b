------------------------------ MODULE SyncAlerts ------------------------------
(***************************************************************************)
(* The after-sync callback: configureSyncAlerts of cmd/gghstats/serve.go   *)
(* and RunAllRules of internal/alert.  It refines the AfterSync step of    *)
(* SyncCoordinator: the callback of a run is several SQL statements and    *)
(* HTTP deliveries, outside the coordinator's lock, so the callbacks of    *)
(* two runs can overlap.                                                   *)
(*                                                                         *)
(* Each statement on alert_debounce and each fan-out is one step.  The     *)
(* statements succeed; sinks may fail.                                     *)
(***************************************************************************)
EXTENDS SyncCoordinator, Naturals, Sequences

CONSTANTS
  Rules,     \* GGHSTATS_ALERT_RULES: [kind, event, value, mode], each its own key;
             \* the rules of kind "milestone" are the rungs of one ladder
  Senders,   \* the configured sinks
  MaxDay,    \* bound: the UTC days are 1 .. MaxDay
  MaxConsec  \* bound: the consecutive counter saturates here, above every threshold

Days == 1 .. MaxDay

\* alert_debounce stamps: none, a day, or the word "fired".
Unset == 0
Fired == MaxDay + 1

RuleIds == DOMAIN Rules
MaxStars == Cardinality({i \in RuleIds : Rules[i].kind = "milestone"})

\* Rules about a freeze of the fleet.
StaleRule(i) == Rules[i].kind = "ops" /\ Rules[i].event = "upstream_stale"

ASSUME AlertAssumption ==
  /\ Rules \in Seq([kind : {"ops", "traffic", "milestone"}, event : STRING, value : Nat,
                    mode : {"every_sync", "once", "once_per_utc_day"}])
  /\ \A i \in RuleIds : Rules[i].kind = "milestone" => Rules[i].mode = "once"
  /\ MaxDay \in Nat \ {0} /\ MaxConsec \in Nat \ {0}

VARIABLES
  cb,        \* the callback of each thread: where it is and its local variables
  stamp,     \* alert_debounce: rule -> stamp
  consec,    \* alert_debounce: the stamp of ops|sync_failed|consecutive_count
  day,       \* the UTC date
  frozen,    \* DetectFleetUpstreamStale would find the fleet stuck
  busy,      \* the traffic of the day meets the traffic rules
  stars,     \* how many rungs of the ladder the star count reaches
  complete,  \* history: fan-outs without error, per rule and period, up to 2
  sent,      \* history: messages a sink took, per rule, period and sink, up to 2
  streak     \* history: failed snapshots since the last successful one

alertStore == <<stamp, consec>>
world == <<day, frozen, busy, stars>>
alertHistory == <<complete, sent, streak>>
alertVars == <<vars, cb, alertStore, world, alertHistory>>

Saturated(n, bound) == IF n < bound THEN n ELSE bound

NoSnap == [success |-> TRUE, failedRepos |-> 0, unreachable |-> FALSE, stale |-> FALSE]
NoCallback == [at |-> "", kind |-> "", i |-> 1, snap |-> NoSnap, consec |-> 0,
               today |-> 1, stars |-> 0]

InCallback(t, place) == cb[t].at = place
Callback(t, c) == cb' = [cb EXCEPT ![t] = c]

-----------------------------------------------------------------------------
(* configureSyncAlerts: the snapshot                                        *)

\* Snapshots the callback can build from a run's result.  The failed repositories
\* it counts are the reportable ones of the sample: none after a failure to resolve
\* the repositories, and none when all the failed ones are hidden; then the run
\* passes for a success.
Snapshots(o) ==
  LET Snap(n, unreachable) ==
        [success |-> n = 0, failedRepos |-> n, unreachable |-> unreachable,
         stale |-> frozen /\ n = 0]
  IN CASE o = "ok" -> {Snap(0, FALSE)}
       [] o = "resolve repos" -> {Snap(0, u) : u \in BOOLEAN}
       [] OTHER -> {Snap(n, FALSE) : n \in 0 .. 1}

\* The snapshot, with DetectFleetUpstreamStale, and the start of RunOpsRules.
TakeSnapshot(t) ==
  /\ pc[t] = "after"
  /\ InCallback(t, "")
  /\ \E snap \in Snapshots(outcome[t]) :
       /\ Callback(t, [NoCallback EXCEPT !.at = "counter", !.kind = "ops",
                                         !.snap = snap, !.today = day])
       /\ streak' = IF snap.success THEN 0 ELSE Saturated(streak + 1, MaxConsec)
  /\ UNCHANGED <<vars, alertStore, world, complete, sent>>

-----------------------------------------------------------------------------
(* RunOpsRules before its loop                                              *)

\* Mutant of ResetConsecutive: a success leaves the counter alone.
ResetConsecutive_Keeps(t) ==
  /\ InCallback(t, "counter")
  /\ cb[t].snap.success
  /\ Callback(t, [cb[t] EXCEPT !.at = "clear"])
  /\ UNCHANGED <<vars, alertStore, world, alertHistory>>

\* updateConsecutiveFailures(success): one Set
ResetConsecutive(t) ==
  /\ InCallback(t, "counter")
  /\ cb[t].snap.success
  /\ consec' = 0
  /\ Callback(t, [cb[t] EXCEPT !.at = "clear"])
  /\ UNCHANGED <<vars, stamp, world, alertHistory>>

\* updateConsecutiveFailures(failure): the Get ...
ReadConsecutive(t) ==
  /\ InCallback(t, "counter")
  /\ ~cb[t].snap.success
  /\ Callback(t, [cb[t] EXCEPT !.at = "counterSet",
                               !.consec = Saturated(consec + 1, MaxConsec)])
  /\ UNCHANGED <<vars, alertStore, world, alertHistory>>

\* ... and the Set of what was read plus one
WriteConsecutive(t) ==
  /\ InCallback(t, "counterSet")
  /\ consec' = cb[t].consec
  /\ Callback(t, [cb[t] EXCEPT !.at = "clear"])
  /\ UNCHANGED <<vars, stamp, world, alertHistory>>

\* clearUpstreamStaleDebounce, when the snapshot does not find the fleet stuck
ClearUpstreamStale(t) ==
  /\ InCallback(t, "clear")
  /\ stamp' = [i \in RuleIds |->
                 IF ~cb[t].snap.stale /\ StaleRule(i) THEN Unset ELSE stamp[i]]
  /\ Callback(t, [cb[t] EXCEPT !.at = "evaluate"])
  /\ UNCHANGED <<vars, consec, world, alertHistory>>

-----------------------------------------------------------------------------
(* The loops of RunOpsRules, RunTrafficRules and RunMilestoneRules          *)

\* The rules the current loop has not come to yet.
Ahead(t) == {i \in RuleIds : i >= cb[t].i /\ Rules[i].kind = cb[t].kind}

\* evaluateOpsRule, evaluateTrafficRuleScoped, crossedMilestonesScoped
Holds(t, rule) ==
  LET snap == cb[t].snap IN
  CASE rule.event = "sync_failed" -> cb[t].consec >= rule.value
    [] rule.event = "repo_fetch_failed" -> snap.failedRepos >= rule.value
    [] rule.event = "github_unreachable" -> snap.unreachable
    [] rule.event = "upstream_stale" -> snap.stale
    [] rule.kind = "traffic" -> busy
    [] rule.kind = "milestone" -> cb[t].stars >= rule.value

\* The next rule of the loop: its condition.
Evaluate(t) ==
  /\ InCallback(t, "evaluate")
  /\ \E i \in Ahead(t) :
       /\ \A j \in Ahead(t) : i <= j
       /\ Callback(t, IF Holds(t, Rules[i]) THEN [cb[t] EXCEPT !.at = "debounce", !.i = i]
                                            ELSE [cb[t] EXCEPT !.i = i + 1])
  /\ UNCHANGED <<vars, alertStore, world, alertHistory>>

\* The loop ends and the next one starts: traffic and milestone rules only after a
\* success.  Each loop reads the date, the ladder the star count.
NextLoop(t) ==
  /\ InCallback(t, "evaluate")
  /\ Ahead(t) = {}
  /\ cb[t].snap.success
  /\ cb[t].kind # "milestone"
  /\ Callback(t, [cb[t] EXCEPT !.kind = IF @ = "ops" THEN "traffic" ELSE "milestone",
                               !.i = 1, !.today = day, !.stars = stars])
  /\ UNCHANGED <<vars, alertStore, world, alertHistory>>

\* Mutant of ShouldFire: "once" needs a stamp instead of none.
ShouldFire_Inverted(t) ==
  /\ InCallback(t, "debounce")
  /\ LET i == cb[t].i
         fire == CASE Rules[i].mode = "every_sync" -> TRUE
                   [] Rules[i].mode = "once" -> stamp[i] # Unset
                   [] OTHER -> stamp[i] # cb[t].today
     IN Callback(t, IF fire THEN [cb[t] EXCEPT !.at = "send"]
                            ELSE [cb[t] EXCEPT !.at = "evaluate", !.i = i + 1])
  /\ UNCHANGED <<vars, alertStore, world, alertHistory>>

\* shouldFire
ShouldFire(t) ==
  /\ InCallback(t, "debounce")
  /\ LET i == cb[t].i
         fire == CASE Rules[i].mode = "every_sync" -> TRUE
                   [] Rules[i].mode = "once" -> stamp[i] = Unset
                   [] OTHER -> stamp[i] # cb[t].today
     IN Callback(t, IF fire THEN [cb[t] EXCEPT !.at = "send"]
                            ELSE [cb[t] EXCEPT !.at = "evaluate", !.i = i + 1])
  /\ UNCHANGED <<vars, alertStore, world, alertHistory>>

\* What counts as "once" for a rule: the day its callback is about, or for ever
\* (for upstream_stale until the freeze ends, see Thaw).
Period(t) == IF Rules[cb[t].i].mode = "once_per_utc_day" THEN cb[t].today ELSE 1

\* Mutant of FanOut: the errors of the sinks are swallowed.
FanOut_IgnoresErrors(t, took) ==
  /\ InCallback(t, "send")
  /\ LET i == cb[t].i  d == Period(t) IN
       /\ sent' = [sent EXCEPT ![i][d] = [s \in Senders |-> IF s \in took
                                            THEN Saturated(@[s] + 1, 2) ELSE @[s]]]
       /\ complete' = [complete EXCEPT ![i][d] = Saturated(@ + 1, 2)]
       /\ Callback(t, [cb[t] EXCEPT !.at = "mark"])
  /\ UNCHANGED <<vars, alertStore, world, streak>>

\* FanOut: every sink is tried; unless all took the message the rule stays unmarked.
FanOut(t, took) ==
  /\ InCallback(t, "send")
  /\ LET i == cb[t].i  d == Period(t) IN
       /\ sent' = [sent EXCEPT ![i][d] = [s \in Senders |-> IF s \in took
                                            THEN Saturated(@[s] + 1, 2) ELSE @[s]]]
       /\ IF took = Senders
            THEN /\ complete' = [complete EXCEPT ![i][d] = Saturated(@ + 1, 2)]
                 /\ Callback(t, [cb[t] EXCEPT !.at = "mark"])
            ELSE /\ Callback(t, [cb[t] EXCEPT !.at = "evaluate", !.i = i + 1])
                 /\ UNCHANGED complete
  /\ UNCHANGED <<vars, alertStore, world, streak>>

\* Mutant of MarkFired: the stamp is not written.
MarkFired_Forgets(t) ==
  /\ InCallback(t, "mark")
  /\ Callback(t, [cb[t] EXCEPT !.at = "evaluate", !.i = @ + 1])
  /\ UNCHANGED <<vars, alertStore, world, alertHistory>>

\* markFired
MarkFired(t) ==
  /\ InCallback(t, "mark")
  /\ LET i == cb[t].i IN
       /\ stamp' = CASE Rules[i].mode = "every_sync" -> stamp
                     [] Rules[i].mode = "once" -> [stamp EXCEPT ![i] = Fired]
                     [] OTHER -> [stamp EXCEPT ![i] = cb[t].today]
       /\ Callback(t, [cb[t] EXCEPT !.at = "evaluate", !.i = i + 1])
  /\ UNCHANGED <<vars, consec, world, alertHistory>>

\* Mutant of CallbackReturns: the goroutine goes on with the job of the run that is over.
CallbackReturns_KeepsJob(t) ==
  /\ InCallback(t, "evaluate")
  /\ Ahead(t) = {}
  /\ ~cb[t].snap.success \/ cb[t].kind = "milestone"
  /\ Callback(t, NoCallback)
  /\ Goto(t, IF t = Scheduler THEN "idle" ELSE "free")
  /\ UNCHANGED <<coordVars, job, outcome, ticker, stopping, lastOutcome,
                 alertStore, world, alertHistory>>

\* The callback returns.
CallbackReturns(t) ==
  /\ InCallback(t, "evaluate")
  /\ Ahead(t) = {}
  /\ ~cb[t].snap.success \/ cb[t].kind = "milestone"
  /\ Callback(t, NoCallback)
  /\ AfterSync(t)
  /\ UNCHANGED <<alertStore, world, alertHistory>>

-----------------------------------------------------------------------------
(* The world the rules look at (it moves only where some rule looks)        *)

Watched(kind, event) == \E i \in RuleIds : Rules[i].kind = kind \/ Rules[i].event = event

\* Midnight UTC: the day's traffic starts again.
NewDay ==
  /\ day < MaxDay
  /\ day' = day + 1
  /\ busy' = FALSE
  /\ UNCHANGED <<vars, cb, alertStore, frozen, stars, alertHistory>>

\* A sync brings, or GitHub revises, the numbers of the day.
TrafficChanges ==
  /\ Watched("traffic", "clones")
  /\ busy' = ~busy
  /\ UNCHANGED <<vars, cb, alertStore, day, frozen, stars, alertHistory>>

\* Stars come and go.
StarsChange(n) ==
  /\ stars' = n
  /\ n # stars
  /\ UNCHANGED <<vars, cb, alertStore, day, frozen, busy, alertHistory>>

\* GitHub stops advancing the traffic window for the fleet ...
Freeze ==
  /\ Watched("", "upstream_stale")
  /\ ~frozen
  /\ frozen' = TRUE
  /\ UNCHANGED <<vars, cb, alertStore, day, busy, stars, alertHistory>>

\* ... and goes on: the episode is over, a later freeze is another one.
Thaw ==
  /\ frozen
  /\ frozen' = FALSE
  /\ complete' = [i \in RuleIds |-> IF StaleRule(i)
                                      THEN [d \in Days |-> 0] ELSE complete[i]]
  /\ UNCHANGED <<vars, cb, alertStore, day, busy, stars, sent, streak>>

-----------------------------------------------------------------------------
AlertInit ==
  /\ Init
  /\ cb = [t \in Threads |-> NoCallback]
  /\ stamp = [i \in RuleIds |-> Unset]
  /\ consec = 0
  /\ day = 1
  /\ frozen = FALSE
  /\ busy = FALSE
  /\ stars = 0
  /\ complete = [i \in RuleIds |-> [d \in Days |-> 0]]
  /\ sent = [i \in RuleIds |-> [d \in Days |-> [s \in Senders |-> 0]]]
  /\ streak = 0

\* The callback's steps, for the goroutine that runs it.
CallbackStep(t) ==
  \/ TakeSnapshot(t)
  \/ ResetConsecutive(t)
  \/ ReadConsecutive(t)
  \/ WriteConsecutive(t)
  \/ ClearUpstreamStale(t)
  \/ Evaluate(t)
  \/ NextLoop(t)
  \/ ShouldFire(t)
  \/ \E took \in SUBSET Senders : FanOut(t, took)
  \/ MarkFired(t)
  \/ CallbackReturns(t)

WorldStep ==
  \/ NewDay
  \/ TrafficChanges
  \/ \E n \in 0 .. MaxStars : StarsChange(n)
  \/ Freeze
  \/ Thaw

AlertNext ==
  \/ NextButCallback /\ UNCHANGED <<cb, alertStore, world, alertHistory>>
  \/ \E t \in {Scheduler} \union Routines : CallbackStep(t)
  \/ WorldStep
  \/ Terminated /\ UNCHANGED alertVars

AlertSpec == AlertInit /\ [][AlertNext]_alertVars

\* Goroutines go on; sinks that are tried again and again for a rule take its message
\* at last, and runs that are started again and again succeed at last: sinks and
\* GitHub may be down for long, not for ever.
AlertFairness ==
  /\ Fairness
  /\ \A t \in {Scheduler} \union Routines :
       /\ WF_alertVars(CallbackStep(t))
       /\ \A i \in RuleIds : SF_alertVars(cb[t].i = i /\ FanOut(t, Senders))
       /\ SF_alertVars(RunReturns(t, "ok") /\ UNCHANGED <<cb, alertStore, world, alertHistory>>)

FairAlertSpec == AlertSpec /\ AlertFairness

-----------------------------------------------------------------------------
(* Properties                                                               *)

CallbackPlaces == {"", "counter", "counterSet", "clear", "evaluate", "debounce", "send", "mark"}

\* Types of the callbacks, the debounce table, the world and the history.
AlertTypeOK ==
  /\ \A t \in Threads :
       /\ cb[t].at \in CallbackPlaces
       /\ cb[t].kind \in {"", "ops", "traffic", "milestone"}
       /\ cb[t].at # "" => pc[t] = "after"
       /\ cb[t].at \in {"debounce", "send", "mark"} =>
            cb[t].i \in RuleIds /\ Rules[cb[t].i].kind = cb[t].kind
       /\ cb[t].consec \in 0 .. MaxConsec /\ cb[t].today \in Days
  /\ stamp \in [RuleIds -> {Unset, Fired} \union Days]
  /\ consec \in 0 .. MaxConsec /\ streak \in 0 .. MaxConsec
  /\ day \in Days /\ frozen \in BOOLEAN /\ busy \in BOOLEAN /\ stars \in 0 .. MaxStars
  /\ complete \in [RuleIds -> [Days -> 0 .. 2]]
  /\ sent \in [RuleIds -> [Days -> [Senders -> 0 .. 2]]]

\* A rule is silenced only by a message that every sink took: a stamp of a day, or
\* of a rung of the ladder, means that nobody missed the alert it stands for.
StampedMeansDelivered ==
  \A i \in RuleIds :
    LET period == IF stamp[i] = Fired THEN 1 ELSE stamp[i] IN
    (stamp[i] # Unset) => \A s \in Senders : sent[i][period][s] >= 1

\* README and comment of RunMilestoneRules: each rung of the ladder is announced at
\* most once, although the star count may fall below it and reach it again.  (An
\* announcement is a fan-out that every sink took.)
MilestoneOnce ==
  \A i \in RuleIds : Rules[i].kind = "milestone" => complete[i][1] <= 1

\* SPEC 8.4: a once_per_utc_day rule announces each day at most once.  (A rule about
\* a freeze can be given that mode too; a failed sync clears its stamp, and it
\* announces the day again.)
OncePerDay ==
  \A i \in RuleIds : Rules[i].mode = "once_per_utc_day" /\ ~StaleRule(i) =>
    \A d \in Days : complete[i][d] <= 1

\* No run ends while the callback of an earlier one is still evaluating its rules.
SerialCallbacks == \A t, u \in Threads : cb[t].at # "" /\ cb[u].at # "" => t = u

\* SPEC 8.7 consecutive_runs, "increments on failure; resets to 0 on successful
\* sync": the stored counter is the length of the current streak of failures.
ConsecutiveExact ==
  (\A t \in Threads : cb[t].at \notin {"counter", "counterSet"}) => consec = streak

\* What an announced-once rule is about holds in the world.
InEffect(rule) == IF rule.kind = "milestone" THEN stars >= rule.value
                                             ELSE rule.event = "upstream_stale" /\ frozen

\* A rung that the star count reaches for good, and a freeze that does not end, are
\* announced, whatever failed before, unless the program is stopped.
OnceAnnounced ==
  \A i \in RuleIds : Rules[i].mode = "once" =>
    (<>[](InEffect(Rules[i]) /\ ~stopping) => <>(stamp[i] = Fired))
=============================================================================
