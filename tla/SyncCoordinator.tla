--------------------------- MODULE SyncCoordinator ---------------------------
(***************************************************************************)
(* internal/sync/coordinator.go, the scheduler goroutine of                *)
(* cmd/gghstats/serve.go and the POST /api/v1/sync handlers of             *)
(* internal/server/sync.go: every way a sync run is requested, refused,    *)
(* executed and reported.                                                  *)
(*                                                                         *)
(* Each goroutine is a thread with a program counter.  Coordinator.mu is   *)
(* explicit: a thread holds it from the step that takes it to the step     *)
(* that ends the critical section.  What a run does with GitHub and SQLite *)
(* is reduced here to its result; the modules SyncRun and StarHistory      *)
(* look inside it, SyncAlerts looks inside the after-sync callback.        *)
(***************************************************************************)
EXTENDS FiniteSets

CONSTANTS
  Scheduler,      \* the goroutine startScheduler
  Handlers,       \* HTTP goroutines that may POST /api/v1/sync
  Routines,       \* goroutines that startBackground can have alive at once
                  \* (the bound on background runs plus unfinished callbacks)
  Repos,          \* repositories a single-repository sync can name
  SyncOnStartup,  \* GGHSTATS_SYNC_ON_STARTUP
  RunErrors,      \* the errors sync.Run can return (their text is last_error)
  NoOne           \* mu is free

Threads == {Scheduler} \union Handlers \union Routines

ASSUME ThreadsAssumption ==
  /\ Scheduler \notin Handlers \union Routines
  /\ Handlers \intersect Routines = {}
  /\ NoOne \notin Threads
  /\ SyncOnStartup \in BOOLEAN
  /\ "ok" \notin RunErrors /\ "" \notin RunErrors

\* What a run is asked for: every repository the filter and the pins select
\* (scope "all"), or one repository (scope "repo").
AllJob == [scope |-> "all", repo |-> ""]
RepoJob(r) == [scope |-> "repo", repo |-> r]
Jobs == {AllJob} \union {RepoJob(r) : r \in Repos}
NoJob == [scope |-> "", repo |-> ""]

\* How sync.Run returns: an error, or nil.
Outcomes == RunErrors \union {"ok"}
ErrorOf(outcome) == IF outcome = "ok" THEN "" ELSE outcome

VARIABLES
  mu,            \* holder of Coordinator.mu, or NoOne
  running,       \* Coordinator.running
  scope, repo,   \* Coordinator.scope and .repo
  everFinished,  \* ~lastFinishedAt.IsZero()
  lastError,     \* Coordinator.lastError, "" for none
  pc,            \* program counter of every thread
  job,           \* opt/scope/repo arguments of the thread's call, NoJob outside
  outcome,       \* err that sync.Run returned to the thread ("ok" before)
  ticker,        \* time.Ticker: "off" before it exists, then whether its channel
                 \* (capacity 1) is "empty" or holds a ticker, "full"
  stopping,      \* ctx is cancelled
  lastOutcome    \* history: outcome of the last run published by finishRun

coordVars == <<mu, running, scope, repo, everFinished, lastError>>
threadVars == <<pc, job, outcome>>
vars == <<coordVars, threadVars, ticker, stopping, lastOutcome>>

Goto(t, there) == pc' = [pc EXCEPT ![t] = there]

\* The threads between the acceptance of a run and the end of finishRun's
\* critical section: mark runs into spawn for a handler, into run otherwise.
InRun == {"spawn", "run", "finish", "publish"}
Runners == {t \in Threads : pc[t] \in InRun}

-----------------------------------------------------------------------------
(* Asking for a run: runBlocking (Scheduler) and startBackground (Handlers) *)

\* startScheduler: the startup sync when it is enabled, else straight to select.
Boot ==
  /\ pc[Scheduler] = "boot"
  /\ IF SyncOnStartup
       THEN /\ Goto(Scheduler, "want")
            /\ job' = [job EXCEPT ![Scheduler] = AllJob]
       ELSE Goto(Scheduler, "idle") /\ UNCHANGED job
  /\ UNCHANGED <<coordVars, outcome, ticker, stopping, lastOutcome>>

\* time.NewTicker, once the startup sync has returned.  loadServeConfig accepts
\* only positive intervals, so the guard for interval <= 0 is not reached.
NewTicker ==
  /\ pc[Scheduler] = "idle"
  /\ ticker = "off"
  /\ ticker' = "empty"
  /\ UNCHANGED <<coordVars, threadVars, stopping, lastOutcome>>

\* An interval elapses; a tick still in the channel absorbs it.
TickerFires ==
  /\ ticker = "empty"
  /\ pc[Scheduler] # "stopped"
  /\ ticker' = "full"
  /\ UNCHANGED <<coordVars, threadVars, stopping, lastOutcome>>

\* case <-ticker.C (select may choose it even when ctx is done as well).
SchedulerTick ==
  /\ pc[Scheduler] = "idle"
  /\ ticker = "full"
  /\ ticker' = "empty"
  /\ Goto(Scheduler, "want")
  /\ job' = [job EXCEPT ![Scheduler] = AllJob]
  /\ UNCHANGED <<coordVars, outcome, stopping, lastOutcome>>

\* case <-ctx.Done()
SchedulerStops ==
  /\ pc[Scheduler] = "idle"
  /\ ticker # "off"
  /\ stopping
  /\ Goto(Scheduler, "stopped")
  /\ UNCHANGED <<coordVars, job, outcome, ticker, stopping, lastOutcome>>

\* SIGINT or SIGTERM: the context is cancelled and the HTTP server takes no new
\* request; runs in progress are not interrupted.
Shutdown ==
  /\ ~stopping
  /\ stopping' = TRUE
  /\ UNCHANGED <<coordVars, threadVars, ticker, lastOutcome>>

\* POST /api/v1/sync, with or without ?repo=
Post(h, j) ==
  /\ pc[h] = "idle"
  /\ ~stopping
  /\ Goto(h, "want")
  /\ job' = [job EXCEPT ![h] = j]
  /\ UNCHANGED <<coordVars, outcome, ticker, stopping, lastOutcome>>

\* c.mu.Lock() in runBlocking and startBackground
LockStart(t) ==
  /\ pc[t] = "want"
  /\ mu = NoOne
  /\ mu' = t
  /\ Goto(t, "check")
  /\ UNCHANGED <<running, scope, repo, everFinished, lastError, job, outcome, ticker,
                 stopping, lastOutcome>>

\* Mutant of Refuse: the scheduler takes ErrInProgress for fatal.
Refuse_EndsScheduler(t) ==
  /\ pc[t] = "check"
  /\ running
  /\ mu' = NoOne
  /\ Goto(t, IF t = Scheduler THEN "stopped" ELSE "conflict")
  /\ job' = [job EXCEPT ![t] = NoJob]
  /\ UNCHANGED <<running, scope, repo, everFinished, lastError, outcome, ticker,
                 stopping, lastOutcome>>

\* if c.running { c.mu.Unlock(); return ErrInProgress }: the scheduler logs the
\* skipped tick and selects again, a handler goes on to read the status.
Refuse(t) ==
  /\ pc[t] = "check"
  /\ running
  /\ mu' = NoOne
  /\ Goto(t, IF t = Scheduler THEN "idle" ELSE "conflict")
  /\ job' = [job EXCEPT ![t] = NoJob]
  /\ UNCHANGED <<running, scope, repo, everFinished, lastError, outcome, ticker,
                 stopping, lastOutcome>>

\* Mutant of Accept: the lock is let go between the check and the mark.
Accept_Unlocks(t) ==
  /\ pc[t] = "check"
  /\ ~running
  /\ mu' = NoOne
  /\ Goto(t, "mark")
  /\ UNCHANGED <<running, scope, repo, everFinished, lastError, job, outcome, ticker,
                 stopping, lastOutcome>>

Accept(t) ==
  /\ pc[t] = "check"
  /\ ~running
  /\ Goto(t, "mark")
  /\ UNCHANGED <<coordVars, job, outcome, ticker, stopping, lastOutcome>>

\* Mutant of MarkRunning: the error of the previous run stays.
MarkRunning_KeepsError(t) ==
  /\ pc[t] = "mark"
  /\ running' = TRUE
  /\ scope' = job[t].scope
  /\ repo' = job[t].repo
  /\ mu' = NoOne
  /\ Goto(t, IF t = Scheduler THEN "run" ELSE "spawn")
  /\ UNCHANGED <<everFinished, lastError, job, outcome, ticker, stopping, lastOutcome>>

\* markRunningLocked, and Unlock
MarkRunning(t) ==
  /\ pc[t] = "mark"
  /\ running' = TRUE
  /\ scope' = job[t].scope
  /\ repo' = job[t].repo
  /\ lastError' = ""
  /\ mu' = NoOne
  /\ Goto(t, IF t = Scheduler THEN "run" ELSE "spawn")
  /\ UNCHANGED <<everFinished, job, outcome, ticker, stopping, lastOutcome>>

\* go func() {...}(); return nil, and the handler answers 202
Spawn(h, g) ==
  /\ pc[h] = "spawn"
  /\ pc[g] = "free"
  /\ pc' = [pc EXCEPT ![h] = "idle", ![g] = "run"]
  /\ job' = [job EXCEPT ![h] = NoJob, ![g] = job[h]]
  /\ UNCHANGED <<coordVars, outcome, ticker, stopping, lastOutcome>>

\* 409 with coord.Status(), read in a critical section of its own
AnswerConflict(h) ==
  /\ pc[h] = "conflict"
  /\ mu = NoOne
  /\ Goto(h, "idle")
  /\ UNCHANGED <<coordVars, job, outcome, ticker, stopping, lastOutcome>>

-----------------------------------------------------------------------------
(* Executing a run and publishing its result: Run, then finishRun           *)

\* Mutant of RunReturns: the run waits for the context to be cancelled.
RunReturns_AwaitsShutdown(t, o) ==
  /\ pc[t] = "run"
  /\ stopping
  /\ outcome' = [outcome EXCEPT ![t] = o]
  /\ Goto(t, "finish")
  /\ UNCHANGED <<coordVars, job, ticker, stopping, lastOutcome>>

\* Run returns err, or nil
RunReturns(t, o) ==
  /\ pc[t] = "run"
  /\ outcome' = [outcome EXCEPT ![t] = o]
  /\ Goto(t, "finish")
  /\ UNCHANGED <<coordVars, job, ticker, stopping, lastOutcome>>

\* c.mu.Lock() in finishRun
LockFinish(t) ==
  /\ pc[t] = "finish"
  /\ mu = NoOne
  /\ mu' = t
  /\ Goto(t, "publish")
  /\ UNCHANGED <<running, scope, repo, everFinished, lastError, job, outcome, ticker,
                 stopping, lastOutcome>>

\* Mutant of FinishRun: scope is cleared, repo is not.
FinishRun_KeepsRepo(t) ==
  /\ pc[t] = "publish"
  /\ running' = FALSE
  /\ scope' = ""
  /\ everFinished' = TRUE
  /\ lastError' = IF outcome[t] = "ok" THEN lastError ELSE ErrorOf(outcome[t])
  /\ mu' = NoOne
  /\ lastOutcome' = outcome[t]
  /\ Goto(t, "after")
  /\ UNCHANGED <<repo, job, outcome, ticker, stopping>>

\* finishRun's critical section, and Unlock.  The callback follows outside of it: the
\* next run may already be executing.
FinishRun(t) ==
  /\ pc[t] = "publish"
  /\ running' = FALSE
  /\ scope' = ""
  /\ repo' = ""
  /\ everFinished' = TRUE
  /\ lastError' = IF outcome[t] = "ok" THEN lastError ELSE ErrorOf(outcome[t])
  /\ mu' = NoOne
  /\ lastOutcome' = outcome[t]
  /\ Goto(t, "after")
  /\ UNCHANGED <<job, outcome, ticker, stopping>>

\* after(result) returns: the scheduler selects again, a goroutine ends.
AfterSync(t) ==
  /\ pc[t] = "after"
  /\ Goto(t, IF t = Scheduler THEN "idle" ELSE "free")
  /\ job' = [job EXCEPT ![t] = NoJob]
  /\ outcome' = [outcome EXCEPT ![t] = "ok"]
  /\ UNCHANGED <<coordVars, ticker, stopping, lastOutcome>>

-----------------------------------------------------------------------------
Init ==
  /\ mu = NoOne
  /\ running = FALSE
  /\ scope = ""
  /\ repo = ""
  /\ everFinished = FALSE
  /\ lastError = ""
  /\ pc = [t \in Threads |-> CASE t = Scheduler -> "boot"
                               [] t \in Handlers -> "idle"
                               [] t \in Routines -> "free"]
  /\ job = [t \in Threads |-> NoJob]
  /\ outcome = [t \in Threads |-> "ok"]
  /\ ticker = "off"
  /\ stopping = FALSE
  /\ lastOutcome = "ok"

\* The steps of runBlocking and startBackground, for whoever called them.
Request(t) ==
  \/ LockStart(t)
  \/ Refuse(t)
  \/ Accept(t)
  \/ MarkRunning(t)
  \/ t \in Handlers /\ \E g \in Routines : Spawn(t, g)
  \/ t \in Handlers /\ AnswerConflict(t)

\* The steps of a run and of finishRun, up to the after-sync callback.
Execute(t) ==
  \/ \E o \in Outcomes : RunReturns(t, o)
  \/ LockFinish(t)
  \/ FinishRun(t)

SchedulerStep == Boot \/ NewTicker \/ TickerFires \/ SchedulerTick \/ SchedulerStops

\* Everything stopped for good: the process has nothing left to do.
Terminated ==
  /\ stopping
  /\ pc[Scheduler] = "stopped"
  /\ \A h \in Handlers : pc[h] = "idle"
  /\ \A g \in Routines : pc[g] = "free"
  /\ UNCHANGED vars

\* Every step but the after-sync callback's.
NextButCallback ==
  \/ SchedulerStep
  \/ Shutdown
  \/ \E h \in Handlers, j \in Jobs : Post(h, j)
  \/ \E t \in {Scheduler} \union Handlers : Request(t)
  \/ \E t \in {Scheduler} \union Routines : Execute(t)

Next ==
  \/ NextButCallback
  \/ \E t \in {Scheduler} \union Routines : AfterSync(t)
  \/ Terminated

Spec == Init /\ [][Next]_vars

(***************************************************************************)
(* Fairness.  A goroutine that can run does run (the Go scheduler), the    *)
(* ticker keeps firing, and Run returns: its requests have a 30 s timeout  *)
(* and a bounded number of attempts, and the callback must not block       *)
(* forever (the comment on SetAfterSync), which holds as long as mail      *)
(* servers answer (Outbound).  A sync.Mutex hands itself to a waiter that  *)
(* has starved for 1 ms, hence strong fairness of Lock.                    *)
(***************************************************************************)
Fairness ==
  /\ WF_vars(Boot) /\ WF_vars(NewTicker) /\ WF_vars(TickerFires) /\ WF_vars(SchedulerTick)
  /\ \A t \in {Scheduler} \union Handlers :
       /\ SF_vars(LockStart(t))
       /\ WF_vars(Refuse(t) \/ Accept(t) \/ MarkRunning(t))
  /\ \A h \in Handlers :
       /\ WF_vars(\E g \in Routines : Spawn(h, g))
       /\ SF_vars(AnswerConflict(h))
  /\ \A t \in {Scheduler} \union Routines :
       /\ WF_vars(\E o \in Outcomes : RunReturns(t, o))
       /\ SF_vars(LockFinish(t))
       /\ WF_vars(FinishRun(t) \/ AfterSync(t))

FairSpec == Spec /\ Fairness

-----------------------------------------------------------------------------
(* Properties                                                              *)

\* The places a goroutine of each kind can be at.
Calling == {"want", "check", "mark"}
Running == {"run", "finish", "publish", "after"}
SchedulerPlaces == {"boot", "idle", "stopped"} \union Calling \union Running
HandlerPlaces == {"idle", "spawn", "conflict"} \union Calling
RoutinePlaces == {"free"} \union Running

FieldsOK ==
  /\ mu \in Threads \union {NoOne}
  /\ running \in BOOLEAN /\ everFinished \in BOOLEAN
  /\ [scope |-> scope, repo |-> repo] \in Jobs \union {NoJob}
  /\ lastError \in RunErrors \union {""}
  /\ stopping \in BOOLEAN
  /\ ticker \in {"off", "empty", "full"}
  /\ lastOutcome \in Outcomes

GoroutinesOK ==
  /\ pc \in [Threads -> SchedulerPlaces \union HandlerPlaces \union RoutinePlaces]
  /\ pc[Scheduler] \in SchedulerPlaces
  /\ \A h \in Handlers : pc[h] \in HandlerPlaces
  /\ \A g \in Routines : pc[g] \in RoutinePlaces
  /\ job \in [Threads -> Jobs \union {NoJob}]
  /\ outcome \in [Threads -> Outcomes]

\* Types of the coordinator's fields and of the goroutines' local state.
TypeOK == FieldsOK /\ GoroutinesOK

\* README "Sync serialization": only one sync cycle runs at a time, whoever asked
\* for it (startup, tick, POST): two threads are never both between the acceptance
\* of a run and the end of finishRun's critical section.
AtMostOneRun == \A t, u \in Runners : t = u

\* What GET /api/v1/sync reports is the truth of the goroutines: whenever a reader
\* can take mu, running says whether some goroutine is executing a run, and scope
\* and repo name exactly that goroutine's job, nothing when there is none.
StatusTruthful ==
  mu = NoOne =>
    /\ running <=> Runners # {}
    /\ \A t \in Runners : job[t] = [scope |-> scope, repo |-> repo]
    /\ ~running => [scope |-> scope, repo |-> repo] = NoJob

\* README: last_error is non-empty if the last run failed.  Between runs it is the
\* error of the last run to finish, of whichever goroutine; an error of an older
\* run does not outlive a later success.
LastErrorOfLastRun == (mu = NoOne /\ ~running) => lastError = ErrorOf(lastOutcome)

ReportStep ==
  /\ (~running /\ running') => \E t \in Threads : pc[t] = "mark" /\ pc'[t] \in InRun
  /\ (running /\ ~running') => \E t \in Runners : t \notin Runners'
  /\ (running /\ running') => UNCHANGED <<scope, repo, lastError>>

\* A request that was refused leaves no trace: only the thread that was accepted
\* changes running from FALSE to TRUE, only the thread that ran changes it back,
\* and last_error never changes while a run goes on.
OnlyTheRunnerReports == [][ReportStep]_vars

\* Every POST is answered, 202 or 409, however many runs, ticks and callbacks
\* compete for mu (a handler that finds every slot of Routines taken waits for the
\* callback of an earlier run, which the code would not do: that only makes the
\* promise harder to keep).
PostAnswered == \A h \in Handlers : pc[h] = "want" ~> pc[h] = "idle"

\* A run that was accepted is executed and reported finished, and its callback
\* runs to the end.
RunCompletes == \A t \in Threads : pc[t] = "run" ~> pc[t] \in {"idle", "free", "stopped"}

\* The dashboard does not stop refreshing: ticks may be skipped, but then another
\* run is in progress, so runs start again and again until shutdown.
SyncsRecur == []<>(running \/ stopping)

-----------------------------------------------------------------------------
(* The coordinator implements the abstract one-job-at-a-time service.       *)

InProgress == IF Runners = {} THEN NoJob ELSE job[CHOOSE t \in Runners : TRUE]

Abstract == INSTANCE AbstractSync WITH
  Jobs <- Jobs, Errors <- RunErrors, Idle <- NoJob, NoError <- "",
  current <- InProgress, error <- lastError

\* Every step of every goroutine is a step of the abstract service or a stutter.
ImplementsAbstract == Abstract!SafeSpec

\* The same with the promise that a job that began completes.
ImplementsAbstractLive == Abstract!Spec
=============================================================================
