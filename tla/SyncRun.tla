------------------------------- MODULE SyncRun -------------------------------
(***************************************************************************)
(* One execution of sync.Run (internal/sync/sync.go) with its worker pool  *)
(* (worker.go) and failure counter (stats.go): the repositories to sync    *)
(* are resolved, handed one by one to the workers through an unbuffered    *)
(* channel, and when all workers are gone the failures are counted, the    *)
(* deltas of the day are recomputed and the result is returned; then what  *)
(* the after-sync callback of serve.go makes of that result.               *)
(*                                                                         *)
(* The work on one repository (syncRepo) is an interval that ends well or  *)
(* in error.                                                               *)
(***************************************************************************)
EXTENDS Naturals, FiniteSets, Sequences, Functions

CONSTANTS
  NumRepos,      \* bound: the most repositories resolveTracked returns
  NumWorkers,    \* Options.Workers (--sync-workers)
  MaxNames,      \* repoFailCounter.maxName: failed names kept for the alerts
  Reportable,    \* repositories the report scope shows
  Cancellable    \* whether ctx may be cancelled; Run passes context.Background()

Repos == 1 .. NumRepos

\* workerCount and the head of runWorkers: values below 1 collapse to 1.
Workers == 1 .. (IF NumWorkers < 1 THEN 1 ELSE NumWorkers)

ASSUME RunAssumption ==
  /\ NumRepos \in Nat /\ NumWorkers \in Nat /\ MaxNames \in Nat
  /\ Reportable \subseteq Repos
  /\ Cancellable \in BOOLEAN

NoRepo == 0

VARIABLES
  phase,       \* where Run is
  tracked,     \* len(repos): the repositories to sync are 1 .. tracked
  next,        \* the repository the dispatcher offers next
  closed,      \* close(jobs) has happened
  cancelled,   \* ctx is done
  worker,      \* what each worker is doing: [at |-> place, repo |-> its repository]
  failed,      \* repoFailCounter.failed
  names,       \* repoFailCounter.names
  result,      \* the RunResult being built
  started,     \* history: how often the work on each repository started
  ended        \* history: how the work on each repository ended, "open" for not yet

poolVars == <<tracked, next, closed, worker>>
counterVars == <<failed, names>>
history == <<started, ended>>
vars == <<phase, poolVars, cancelled, counterVars, result, history>>

NoResult == [success |-> FALSE, attempted |-> 0, failed |-> 0, names |-> <<>>,
             unreachable |-> FALSE, err |-> "nil"]

At(w, place) == worker[w].at = place
Move(w, place, r) == worker' = [worker EXCEPT ![w] = [at |-> place, repo |-> r]]

-----------------------------------------------------------------------------
(* Run before the pool                                                      *)

\* resolveTracked fails: on the network (unreachable), or otherwise.
ResolveFails(unreachable) ==
  /\ phase = "resolve"
  /\ result' = [NoResult EXCEPT !.unreachable = unreachable, !.err = "resolve repos"]
  /\ phase' = "returned"
  /\ UNCHANGED <<poolVars, cancelled, counterVars, history>>

\* No repository to sync is a success.
NothingToSync ==
  /\ phase = "resolve"
  /\ result' = [NoResult EXCEPT !.success = TRUE]
  /\ phase' = "returned"
  /\ UNCHANGED <<poolVars, cancelled, counterVars, history>>

\* n repositories; a fresh counter and the workers, all at range jobs.
StartPool(n) ==
  /\ phase = "resolve"
  /\ tracked' = n
  /\ worker' = [w \in Workers |-> [at |-> "receive", repo |-> NoRepo]]
  /\ phase' = "dispatch"
  /\ UNCHANGED <<next, closed, cancelled, counterVars, result, history>>

-----------------------------------------------------------------------------
(* The dispatcher                                                           *)

\* case jobs <- repo: the channel is unbuffered, a waiting worker takes it.
HandOver(w) ==
  /\ phase = "dispatch"
  /\ next <= tracked
  /\ At(w, "receive")
  /\ Move(w, "got", next)
  /\ next' = next + 1
  /\ UNCHANGED <<phase, tracked, closed, cancelled, counterVars, result, history>>

\* Mutant of CloseJobs: the loop ends one repository early.
CloseJobs_Early ==
  /\ phase = "dispatch"
  /\ next >= tracked \/ cancelled
  /\ closed' = TRUE
  /\ phase' = "wait"
  /\ UNCHANGED <<tracked, next, worker, cancelled, counterVars, result, history>>

\* Everything handed over, or case <-ctx.Done(): close(jobs), then wg.Wait().
CloseJobs ==
  /\ phase = "dispatch"
  /\ next > tracked \/ cancelled
  /\ closed' = TRUE
  /\ phase' = "wait"
  /\ UNCHANGED <<tracked, next, worker, cancelled, counterVars, result, history>>

\* Mutant of PoolDone: a wait for the context as well as for the workers.
PoolDone_AwaitsCancel ==
  /\ phase = "wait"
  /\ cancelled
  /\ \A w \in Workers : At(w, "done")
  /\ phase' = "snapshot"
  /\ UNCHANGED <<poolVars, cancelled, counterVars, result, history>>

\* wg.Wait() returns
PoolDone ==
  /\ phase = "wait"
  /\ \A w \in Workers : At(w, "done")
  /\ phase' = "snapshot"
  /\ UNCHANGED <<poolVars, cancelled, counterVars, result, history>>

-----------------------------------------------------------------------------
(* A worker                                                                 *)

\* for repo := range jobs ends
WorkerSeesClose(w) ==
  /\ At(w, "receive")
  /\ closed
  /\ Move(w, "done", NoRepo)
  /\ UNCHANGED <<phase, tracked, next, closed, cancelled, counterVars, result, history>>

\* ctx.Err() is read with the job in hand: the job is dropped.
WorkerSeesCancel(w) ==
  /\ At(w, "got")
  /\ cancelled
  /\ Move(w, "done", NoRepo)
  /\ UNCHANGED <<phase, tracked, next, closed, cancelled, counterVars, result, history>>

BeginWork(w) ==
  /\ At(w, "got")
  /\ ~cancelled
  /\ Move(w, "work", worker[w].repo)
  /\ started' = [started EXCEPT ![worker[w].repo] = @ + 1]
  /\ UNCHANGED <<phase, tracked, next, closed, cancelled, counterVars, result, ended>>

WorkSucceeds(w) ==
  /\ At(w, "work")
  /\ ended' = [ended EXCEPT ![worker[w].repo] = "success"]
  /\ Move(w, "receive", NoRepo)
  /\ UNCHANGED <<phase, tracked, next, closed, cancelled, counterVars, result, started>>

WorkFails(w) ==
  /\ At(w, "work")
  /\ ended' = [ended EXCEPT ![worker[w].repo] = "error"]
  /\ Move(w, "note", worker[w].repo)
  /\ UNCHANGED <<phase, tracked, next, closed, cancelled, counterVars, result, started>>

\* Mutant of NoteFail: a failure is not counted when the sample is full.
NoteFail_Capped(w) ==
  /\ At(w, "note")
  /\ failed' = IF Len(names) < MaxNames THEN failed + 1 ELSE failed
  /\ names' = IF Len(names) < MaxNames THEN Append(names, worker[w].repo) ELSE names
  /\ Move(w, "receive", NoRepo)
  /\ UNCHANGED <<phase, tracked, next, closed, cancelled, result, history>>

\* counter.noteFail, under the counter's mutex; then the next job.
NoteFail(w) ==
  /\ At(w, "note")
  /\ failed' = failed + 1
  /\ names' = IF Len(names) < MaxNames THEN Append(names, worker[w].repo) ELSE names
  /\ Move(w, "receive", NoRepo)
  /\ UNCHANGED <<phase, tracked, next, closed, cancelled, result, history>>

-----------------------------------------------------------------------------
(* Run after the pool                                                       *)

\* counter.snapshot() into the result
Snapshot ==
  /\ phase = "snapshot"
  /\ result' = [NoResult EXCEPT !.attempted = tracked, !.failed = failed, !.names = names]
  /\ phase' = "deltas"
  /\ UNCHANGED <<poolVars, cancelled, counterVars, history>>

\* UpdateDeltasSince(today) and syncFeaturedMeta: their errors are only logged.
\* Then success is decided and Run returns.
Finish ==
  /\ phase = "deltas"
  /\ result' = [result EXCEPT !.success = (result.failed = 0),
                              !.err = IF result.failed = 0 THEN "nil" ELSE "failed repos"]
  /\ phase' = "returned"
  /\ UNCHANGED <<poolVars, cancelled, counterVars, history>>

\* Nothing in the program cancels the context of a run today; the pool is written
\* for it.
Cancel ==
  /\ Cancellable
  /\ ~cancelled
  /\ phase \in {"dispatch", "wait"}
  /\ cancelled' = TRUE
  /\ UNCHANGED <<phase, poolVars, counterVars, result, history>>

-----------------------------------------------------------------------------
Init ==
  /\ phase = "resolve"
  /\ tracked = 0
  /\ next = 1
  /\ closed = FALSE
  /\ cancelled = FALSE
  /\ worker = [w \in Workers |-> [at |-> "unborn", repo |-> NoRepo]]
  /\ failed = 0
  /\ names = <<>>
  /\ result = NoResult
  /\ started = [r \in Repos |-> 0]
  /\ ended = [r \in Repos |-> "open"]

Dispatcher ==
  \/ \E unreachable \in BOOLEAN : ResolveFails(unreachable)
  \/ NothingToSync
  \/ \E n \in Repos : StartPool(n)
  \/ CloseJobs
  \/ PoolDone
  \/ Snapshot
  \/ Finish

Worker(w) ==
  \/ HandOver(w)
  \/ WorkerSeesClose(w)
  \/ WorkerSeesCancel(w)
  \/ BeginWork(w)
  \/ WorkSucceeds(w)
  \/ WorkFails(w)
  \/ NoteFail(w)

\* Run has returned; the process does something else.
Returned == phase = "returned" /\ UNCHANGED vars

Next ==
  \/ Dispatcher
  \/ \E w \in Workers : Worker(w)
  \/ Cancel
  \/ Returned

Spec == Init /\ [][Next]_vars

\* Goroutines that can run do run, and syncRepo returns: every request it makes has
\* a timeout and a bounded number of attempts.
Fairness == WF_vars(Dispatcher) /\ \A w \in Workers : WF_vars(Worker(w))

FairSpec == Spec /\ Fairness

-----------------------------------------------------------------------------
(* What the after-sync callback makes of the result (serve.go 431-442)      *)

\* reportableFailedRepos: the names of the sample the report scope shows.
ReportableSample == SelectSeq(result.names, LAMBDA r : r \in Reportable)

\* SyncSnapshot.Success
SnapSuccess == result.success \/ ReportableSample = <<>>

-----------------------------------------------------------------------------
(* Properties                                                               *)

RunFieldsOK ==
  /\ phase \in {"resolve", "dispatch", "wait", "snapshot", "deltas", "returned"}
  /\ tracked \in 0 .. NumRepos /\ next \in 1 .. tracked + 1
  /\ closed \in BOOLEAN /\ cancelled \in BOOLEAN
  /\ failed \in 0 .. tracked /\ names \in Seq(Repos)
  /\ result \in [success : BOOLEAN, attempted : 0 .. NumRepos, failed : 0 .. NumRepos,
                  names : Seq(Repos), unreachable : BOOLEAN,
                  err : {"nil", "resolve repos", "failed repos"}]

WorkersOK ==
  worker \in [Workers -> [at : {"unborn", "receive", "got", "work", "note", "done"},
                          repo : {NoRepo} \union Repos]]

\* Types of Run's locals, of the counter, the workers and the history.
TypeOK ==
  /\ RunFieldsOK
  /\ WorkersOK
  /\ started \in [Repos -> 0 .. 1]
  /\ ended \in [Repos -> {"open", "success", "error"}]

Resolved == result.err # "resolve repos"

\* The comment on runWorkers, "returning when every repo has either completed or
\* failed": when Run returns, the work on every resolved repository was started
\* exactly once and has ended, whatever the failures, the number of workers and the
\* interleaving; only a cancelled run may leave repositories out.
EachRepoOnce ==
  (phase = "returned" /\ Resolved /\ ~cancelled) =>
    \A r \in 1 .. tracked : started[r] = 1 /\ ended[r] # "open"

\* A repository is with at most one worker, and the work on it never begins twice.
NeverTwoWorkers ==
  /\ \A v, w \in Workers : (v # w /\ worker[v].repo # NoRepo) => worker[v].repo # worker[w].repo
  /\ \A r \in Repos : started[r] <= 1

FailedRepos == {r \in Repos : ended[r] = "error"}

\* The result accounts for every failure: ReposFailed is their number, FailedRepos a
\* sample of them without repetition, full unless it is capped, and Success says
\* that there was none, although the workers count concurrently.
FailuresAccounted ==
  (phase = "returned" /\ Resolved) =>
    /\ result.failed = Cardinality(FailedRepos)
    /\ Range(result.names) \subseteq FailedRepos
    /\ Cardinality(Range(result.names)) = Len(result.names)
    /\ result.failed <= MaxNames => Range(result.names) = FailedRepos
    /\ result.failed >= MaxNames => Len(result.names) = MaxNames
    /\ result.success <=> FailedRepos = {}

\* UpdateDeltasSince reads the tables the workers write: no worker is inside
\* syncRepo, or yet to count a failure, from the counter's snapshot to the return.
NoWorkAfterPool ==
  phase \in {"snapshot", "deltas", "returned"} =>
    \A w \in Workers : worker[w].at \notin {"got", "work", "note"}

\* The pool neither deadlocks nor leaks a goroutine: Run returns, with every worker
\* that was started gone.
RunReturns == <>(phase = "returned" /\ \A w \in Workers : worker[w].at \in {"unborn", "done"})

\* Claimed by SPEC.md 8.7 (sync_failed: "an entire sync run ended in error (or
\* aborted before useful work)"): the rules see a run that could not even list the
\* repositories as a failure.  Such a run names no failed repository, which the
\* callback takes for success.
AbortedRunIsNoSuccess == (phase = "returned" /\ ~Resolved) => ~SnapSuccess
=============================================================================
