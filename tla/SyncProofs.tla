------------------------------ MODULE SyncProofs ------------------------------
(***************************************************************************)
(* Theorems about SyncCoordinator and SyncAlerts, for every number of      *)
(* handlers, goroutines, repositories, rules and sinks.                    *)
(*                                                                         *)
(* CoordInv is the inductive invariant of the coordinator: type            *)
(* correctness, what holding mu means, and that running, scope, repo and   *)
(* last_error describe the goroutines.  It is needed because AtMostOneRun  *)
(* alone is not inductive: a thread at "mark" has already read running and *)
(* only the mutex keeps that reading true until it writes.                 *)
(*                                                                         *)
(* AlertInv is that of the after-sync callbacks, however they overlap;     *)
(* SerialInv is what holds besides while they do not: what a callback has  *)
(* read of the counter and of the stamps is still true when it writes.     *)
(***************************************************************************)
EXTENDS SyncAlerts, FiniteSetTheorems, TLAPS

\* mu is held by exactly the thread inside a critical section.
LockInv == \A t \in Threads : mu = t <=> pc[t] \in {"check", "mark", "publish"}

\* A thread about to mark the run started has a job, and nobody is running.
MarkInv ==
  /\ \A t \in Threads : pc[t] = "mark" => ~running
  /\ \A t \in Threads : pc[t] \in {"want", "check", "mark"} => job[t] \in Jobs

\* running, scope and repo describe the only runner.
RunInv ==
  /\ \A t, u \in Threads : pc[t] \in InRun /\ pc[u] \in InRun => t = u
  /\ \A t \in Threads : pc[t] \in InRun =>
       running /\ job[t] \in Jobs /\ job[t] = [scope |-> scope, repo |-> repo]
  /\ running => \E t \in Threads : pc[t] \in InRun
  /\ ~running => scope = "" /\ repo = ""

\* last_error is blank during a run and the last run's error between runs.
ErrorInv == lastError = IF running THEN "" ELSE ErrorOf(lastOutcome)

CoordInv == TypeOK /\ LockInv /\ MarkInv /\ RunInv /\ ErrorInv

\* A job is determined by its scope and repository, and its scope is one of two.
LEMMA JobFields ==
  /\ \A j \in Jobs : j = [scope |-> j.scope, repo |-> j.repo]
  /\ \A j \in Jobs \union {NoJob} : j.scope \in {"", "all", "repo"}
<1>1. AllJob.scope = "all" /\ AllJob.repo = "" /\ NoJob.scope = ""
  BY DEF AllJob, NoJob
<1>2. \A r \in Repos : RepoJob(r).scope = "repo" /\ RepoJob(r).repo = r
  BY DEF RepoJob
<1>3. \A j \in Jobs : j = AllJob \/ \E r \in Repos : j = RepoJob(r)
  BY DEF Jobs
<1>4. \A j \in Jobs : j = [scope |-> j.scope, repo |-> j.repo]
  <2>1. AllJob = [scope |-> AllJob.scope, repo |-> AllJob.repo]
    BY DEF AllJob
  <2>2. \A r \in Repos : RepoJob(r) = [scope |-> RepoJob(r).scope, repo |-> RepoJob(r).repo]
    BY DEF RepoJob
  <2> QED
    BY <1>3, <2>1, <2>2
<1> QED
  BY <1>1, <1>2, <1>3, <1>4

\* The goroutines start outside, with nothing running.
LEMMA InitCoordInv == Init => CoordInv
<1> SUFFICES ASSUME Init PROVE CoordInv
  OBVIOUS
<1> USE ThreadsAssumption DEF Init, Threads
<1>1. FieldsOK
  BY DEF FieldsOK, Jobs, NoJob, Outcomes
<1>2. GoroutinesOK
  <2>1. \A t \in Threads : pc[t] = IF t = Scheduler THEN "boot"
                                   ELSE IF t \in Handlers THEN "idle" ELSE "free"
    OBVIOUS
  <2> QED
    BY <2>1 DEF GoroutinesOK, SchedulerPlaces, HandlerPlaces, RoutinePlaces, Calling,
                Running, Outcomes
<1>3. LockInv
  BY DEF LockInv
<1>4. MarkInv
  BY DEF MarkInv
<1>5. RunInv
  BY DEF RunInv, InRun
<1>6. ErrorInv
  BY DEF ErrorInv, ErrorOf
<1> QED
  BY <1>1, <1>2, <1>3, <1>4, <1>5, <1>6 DEF CoordInv, TypeOK

\* Every step of every goroutine preserves the invariant: one step per action, and
\* under it one per conjunct.
LEMMA NextCoordInv == CoordInv /\ [Next]_vars => CoordInv'
<1> SUFFICES ASSUME CoordInv, [Next]_vars PROVE CoordInv'
  OBVIOUS
<1> USE ThreadsAssumption DEF Threads, Goto, coordVars, threadVars
<1>1. ASSUME Boot PROVE CoordInv'
  <2>1. FieldsOK'
    BY <1>1 DEF Boot, CoordInv, TypeOK, FieldsOK, GoroutinesOK, MarkInv, Jobs, AllJob, RepoJob, NoJob, Outcomes, ErrorOf
  <2>2. GoroutinesOK'
    BY <1>1 DEF Boot, CoordInv, TypeOK, GoroutinesOK, SchedulerPlaces, HandlerPlaces, RoutinePlaces, Calling, Running, Jobs, NoJob, AllJob, Outcomes
  <2>3. LockInv'
    BY <1>1 DEF Boot, CoordInv, TypeOK, GoroutinesOK, LockInv, SchedulerPlaces, HandlerPlaces, RoutinePlaces, Calling, Running
  <2>b. \/ pc' = [pc EXCEPT ![Scheduler] = "want"] /\ job' = [job EXCEPT ![Scheduler] = AllJob]
        \/ pc' = [pc EXCEPT ![Scheduler] = "idle"] /\ job' = job
    BY <1>1 DEF Boot
  <2>4. MarkInv'
    <3>1. AllJob \in Jobs /\ running' = running
      BY <1>1 DEF Boot, Jobs
    <3> QED
      BY <2>b, <3>1 DEF CoordInv, TypeOK, GoroutinesOK, MarkInv
  <2>5. RunInv'
    <3>1. pc[Scheduler] = "boot" /\ UNCHANGED <<running, scope, repo>>
      BY <1>1 DEF Boot
    <3>2. \A t \in Threads : pc'[t] \in InRun <=> pc[t] \in InRun
      BY <2>b, <3>1 DEF CoordInv, TypeOK, GoroutinesOK, InRun
    <3>3. \A t \in Threads : pc[t] \in InRun => job'[t] = job[t]
      BY <2>b, <3>1 DEF CoordInv, TypeOK, GoroutinesOK, InRun
    <3> QED
      BY <3>1, <3>2, <3>3 DEF CoordInv, RunInv
  <2>6. ErrorInv'
    BY <1>1 DEF Boot, CoordInv, TypeOK, GoroutinesOK, RunInv, InRun, ErrorInv, ErrorOf
  <2> QED
    BY <2>1, <2>2, <2>3, <2>4, <2>5, <2>6 DEF CoordInv, TypeOK
<1>2. ASSUME NewTicker PROVE CoordInv'
  <2>1. FieldsOK'
    BY <1>2 DEF NewTicker, CoordInv, TypeOK, FieldsOK, GoroutinesOK, MarkInv, Jobs, AllJob, RepoJob, NoJob, Outcomes, ErrorOf
  <2>2. GoroutinesOK'
    BY <1>2 DEF NewTicker, CoordInv, TypeOK, GoroutinesOK, SchedulerPlaces, HandlerPlaces, RoutinePlaces, Calling, Running, Jobs, NoJob, AllJob, Outcomes
  <2>3. LockInv'
    BY <1>2 DEF NewTicker, CoordInv, TypeOK, GoroutinesOK, LockInv, SchedulerPlaces, HandlerPlaces, RoutinePlaces, Calling, Running
  <2>4. MarkInv'
    BY <1>2 DEF NewTicker, CoordInv, TypeOK, GoroutinesOK, LockInv, MarkInv, RunInv, InRun, SchedulerPlaces, HandlerPlaces, RoutinePlaces, Calling, Running, Jobs
  <2>5. RunInv'
    BY <1>2 DEF NewTicker, CoordInv, TypeOK, GoroutinesOK, LockInv, MarkInv, RunInv, InRun, SchedulerPlaces, HandlerPlaces, RoutinePlaces, Calling, Running, Jobs, AllJob, RepoJob
  <2>6. ErrorInv'
    BY <1>2 DEF NewTicker, CoordInv, TypeOK, GoroutinesOK, RunInv, InRun, ErrorInv, ErrorOf
  <2> QED
    BY <2>1, <2>2, <2>3, <2>4, <2>5, <2>6 DEF CoordInv, TypeOK
<1>3. ASSUME TickerFires PROVE CoordInv'
  <2>1. FieldsOK'
    BY <1>3 DEF TickerFires, CoordInv, TypeOK, FieldsOK, GoroutinesOK, MarkInv, Jobs, AllJob, RepoJob, NoJob, Outcomes, ErrorOf
  <2>2. GoroutinesOK'
    BY <1>3 DEF TickerFires, CoordInv, TypeOK, GoroutinesOK, SchedulerPlaces, HandlerPlaces, RoutinePlaces, Calling, Running, Jobs, NoJob, AllJob, Outcomes
  <2>3. LockInv'
    BY <1>3 DEF TickerFires, CoordInv, TypeOK, GoroutinesOK, LockInv, SchedulerPlaces, HandlerPlaces, RoutinePlaces, Calling, Running
  <2>4. MarkInv'
    BY <1>3 DEF TickerFires, CoordInv, TypeOK, GoroutinesOK, LockInv, MarkInv, RunInv, InRun, SchedulerPlaces, HandlerPlaces, RoutinePlaces, Calling, Running, Jobs
  <2>5. RunInv'
    BY <1>3 DEF TickerFires, CoordInv, TypeOK, GoroutinesOK, LockInv, MarkInv, RunInv, InRun, SchedulerPlaces, HandlerPlaces, RoutinePlaces, Calling, Running, Jobs, AllJob, RepoJob
  <2>6. ErrorInv'
    BY <1>3 DEF TickerFires, CoordInv, TypeOK, GoroutinesOK, RunInv, InRun, ErrorInv, ErrorOf
  <2> QED
    BY <2>1, <2>2, <2>3, <2>4, <2>5, <2>6 DEF CoordInv, TypeOK
<1>4. ASSUME SchedulerTick PROVE CoordInv'
  <2>1. FieldsOK'
    BY <1>4 DEF SchedulerTick, CoordInv, TypeOK, FieldsOK, GoroutinesOK, MarkInv, Jobs, AllJob, RepoJob, NoJob, Outcomes, ErrorOf
  <2>2. GoroutinesOK'
    BY <1>4 DEF SchedulerTick, CoordInv, TypeOK, GoroutinesOK, SchedulerPlaces, HandlerPlaces, RoutinePlaces, Calling, Running, Jobs, NoJob, AllJob, Outcomes
  <2>3. LockInv'
    BY <1>4 DEF SchedulerTick, CoordInv, TypeOK, GoroutinesOK, LockInv, SchedulerPlaces, HandlerPlaces, RoutinePlaces, Calling, Running
  <2>4. MarkInv'
    BY <1>4 DEF SchedulerTick, CoordInv, TypeOK, GoroutinesOK, LockInv, MarkInv, RunInv, InRun, SchedulerPlaces, HandlerPlaces, RoutinePlaces, Calling, Running, Jobs
  <2>5. RunInv'
    BY <1>4 DEF SchedulerTick, CoordInv, TypeOK, GoroutinesOK, LockInv, MarkInv, RunInv, InRun, SchedulerPlaces, HandlerPlaces, RoutinePlaces, Calling, Running, Jobs, AllJob, RepoJob
  <2>6. ErrorInv'
    BY <1>4 DEF SchedulerTick, CoordInv, TypeOK, GoroutinesOK, RunInv, InRun, ErrorInv, ErrorOf
  <2> QED
    BY <2>1, <2>2, <2>3, <2>4, <2>5, <2>6 DEF CoordInv, TypeOK
<1>5. ASSUME SchedulerStops PROVE CoordInv'
  <2>1. FieldsOK'
    BY <1>5 DEF SchedulerStops, CoordInv, TypeOK, FieldsOK, GoroutinesOK, MarkInv, Jobs, AllJob, RepoJob, NoJob, Outcomes, ErrorOf
  <2>2. GoroutinesOK'
    BY <1>5 DEF SchedulerStops, CoordInv, TypeOK, GoroutinesOK, SchedulerPlaces, HandlerPlaces, RoutinePlaces, Calling, Running, Jobs, NoJob, AllJob, Outcomes
  <2>3. LockInv'
    BY <1>5 DEF SchedulerStops, CoordInv, TypeOK, GoroutinesOK, LockInv, SchedulerPlaces, HandlerPlaces, RoutinePlaces, Calling, Running
  <2>4. MarkInv'
    BY <1>5 DEF SchedulerStops, CoordInv, TypeOK, GoroutinesOK, LockInv, MarkInv, RunInv, InRun, SchedulerPlaces, HandlerPlaces, RoutinePlaces, Calling, Running, Jobs
  <2>5. RunInv'
    BY <1>5 DEF SchedulerStops, CoordInv, TypeOK, GoroutinesOK, LockInv, MarkInv, RunInv, InRun, SchedulerPlaces, HandlerPlaces, RoutinePlaces, Calling, Running, Jobs, AllJob, RepoJob
  <2>6. ErrorInv'
    BY <1>5 DEF SchedulerStops, CoordInv, TypeOK, GoroutinesOK, RunInv, InRun, ErrorInv, ErrorOf
  <2> QED
    BY <2>1, <2>2, <2>3, <2>4, <2>5, <2>6 DEF CoordInv, TypeOK
<1>6. ASSUME Shutdown PROVE CoordInv'
  <2>1. FieldsOK'
    BY <1>6 DEF Shutdown, CoordInv, TypeOK, FieldsOK, GoroutinesOK, MarkInv, Jobs, AllJob, RepoJob, NoJob, Outcomes, ErrorOf
  <2>2. GoroutinesOK'
    BY <1>6 DEF Shutdown, CoordInv, TypeOK, GoroutinesOK, SchedulerPlaces, HandlerPlaces, RoutinePlaces, Calling, Running, Jobs, NoJob, AllJob, Outcomes
  <2>3. LockInv'
    BY <1>6 DEF Shutdown, CoordInv, TypeOK, GoroutinesOK, LockInv, SchedulerPlaces, HandlerPlaces, RoutinePlaces, Calling, Running
  <2>4. MarkInv'
    BY <1>6 DEF Shutdown, CoordInv, TypeOK, GoroutinesOK, LockInv, MarkInv, RunInv, InRun, SchedulerPlaces, HandlerPlaces, RoutinePlaces, Calling, Running, Jobs
  <2>5. RunInv'
    BY <1>6 DEF Shutdown, CoordInv, TypeOK, GoroutinesOK, LockInv, MarkInv, RunInv, InRun, SchedulerPlaces, HandlerPlaces, RoutinePlaces, Calling, Running, Jobs, AllJob, RepoJob
  <2>6. ErrorInv'
    BY <1>6 DEF Shutdown, CoordInv, TypeOK, GoroutinesOK, RunInv, InRun, ErrorInv, ErrorOf
  <2> QED
    BY <2>1, <2>2, <2>3, <2>4, <2>5, <2>6 DEF CoordInv, TypeOK
<1>7. ASSUME NEW h \in Handlers, NEW j \in Jobs, Post(h, j) PROVE CoordInv'
  <2>1. FieldsOK'
    BY <1>7 DEF Post, CoordInv, TypeOK, FieldsOK, GoroutinesOK, MarkInv, Jobs, AllJob, RepoJob, NoJob, Outcomes, ErrorOf
  <2>2. GoroutinesOK'
    BY <1>7 DEF Post, CoordInv, TypeOK, GoroutinesOK, SchedulerPlaces, HandlerPlaces, RoutinePlaces, Calling, Running, Jobs, NoJob, AllJob, Outcomes
  <2>3. LockInv'
    BY <1>7 DEF Post, CoordInv, TypeOK, GoroutinesOK, LockInv, SchedulerPlaces, HandlerPlaces, RoutinePlaces, Calling, Running
  <2>4. MarkInv'
    BY <1>7 DEF Post, CoordInv, TypeOK, GoroutinesOK, LockInv, MarkInv, RunInv, InRun, SchedulerPlaces, HandlerPlaces, RoutinePlaces, Calling, Running, Jobs
  <2>5. RunInv'
    BY <1>7 DEF Post, CoordInv, TypeOK, GoroutinesOK, LockInv, MarkInv, RunInv, InRun, SchedulerPlaces, HandlerPlaces, RoutinePlaces, Calling, Running, Jobs, AllJob, RepoJob
  <2>6. ErrorInv'
    BY <1>7 DEF Post, CoordInv, TypeOK, GoroutinesOK, RunInv, InRun, ErrorInv, ErrorOf
  <2> QED
    BY <2>1, <2>2, <2>3, <2>4, <2>5, <2>6 DEF CoordInv, TypeOK
<1>8. ASSUME NEW t \in {Scheduler} \union Handlers, LockStart(t) PROVE CoordInv'
  <2>1. FieldsOK'
    BY <1>8 DEF LockStart, CoordInv, TypeOK, FieldsOK, GoroutinesOK, MarkInv, Jobs, AllJob, RepoJob, NoJob, Outcomes, ErrorOf
  <2>2. GoroutinesOK'
    BY <1>8 DEF LockStart, CoordInv, TypeOK, GoroutinesOK, SchedulerPlaces, HandlerPlaces, RoutinePlaces, Calling, Running, Jobs, NoJob, AllJob, Outcomes
  <2>3. LockInv'
    BY <1>8 DEF LockStart, CoordInv, TypeOK, GoroutinesOK, LockInv, SchedulerPlaces, HandlerPlaces, RoutinePlaces, Calling, Running
  <2>4. MarkInv'
    BY <1>8 DEF LockStart, CoordInv, TypeOK, GoroutinesOK, LockInv, MarkInv, RunInv, InRun, SchedulerPlaces, HandlerPlaces, RoutinePlaces, Calling, Running, Jobs
  <2>5. RunInv'
    BY <1>8 DEF LockStart, CoordInv, TypeOK, GoroutinesOK, LockInv, MarkInv, RunInv, InRun, SchedulerPlaces, HandlerPlaces, RoutinePlaces, Calling, Running, Jobs, AllJob, RepoJob
  <2>6. ErrorInv'
    BY <1>8 DEF LockStart, CoordInv, TypeOK, GoroutinesOK, RunInv, InRun, ErrorInv, ErrorOf
  <2> QED
    BY <2>1, <2>2, <2>3, <2>4, <2>5, <2>6 DEF CoordInv, TypeOK
<1>9. ASSUME NEW t \in {Scheduler} \union Handlers, Refuse(t) PROVE CoordInv'
  <2>1. FieldsOK'
    BY <1>9 DEF Refuse, CoordInv, TypeOK, FieldsOK, GoroutinesOK, MarkInv, Jobs, AllJob, RepoJob, NoJob, Outcomes, ErrorOf
  <2>2. GoroutinesOK'
    BY <1>9 DEF Refuse, CoordInv, TypeOK, GoroutinesOK, SchedulerPlaces, HandlerPlaces, RoutinePlaces, Calling, Running, Jobs, NoJob, AllJob, Outcomes
  <2>3. LockInv'
    BY <1>9 DEF Refuse, CoordInv, TypeOK, GoroutinesOK, LockInv, SchedulerPlaces, HandlerPlaces, RoutinePlaces, Calling, Running
  <2>4. MarkInv'
    BY <1>9 DEF Refuse, CoordInv, TypeOK, GoroutinesOK, LockInv, MarkInv, RunInv, InRun, SchedulerPlaces, HandlerPlaces, RoutinePlaces, Calling, Running, Jobs
  <2>5. RunInv'
    BY <1>9 DEF Refuse, CoordInv, TypeOK, GoroutinesOK, LockInv, MarkInv, RunInv, InRun, SchedulerPlaces, HandlerPlaces, RoutinePlaces, Calling, Running, Jobs, AllJob, RepoJob
  <2>6. ErrorInv'
    BY <1>9 DEF Refuse, CoordInv, TypeOK, GoroutinesOK, RunInv, InRun, ErrorInv, ErrorOf
  <2> QED
    BY <2>1, <2>2, <2>3, <2>4, <2>5, <2>6 DEF CoordInv, TypeOK
<1>10. ASSUME NEW t \in {Scheduler} \union Handlers, Accept(t) PROVE CoordInv'
  <2>1. FieldsOK'
    BY <1>10 DEF Accept, CoordInv, TypeOK, FieldsOK, GoroutinesOK, MarkInv, Jobs, AllJob, RepoJob, NoJob, Outcomes, ErrorOf
  <2>2. GoroutinesOK'
    BY <1>10 DEF Accept, CoordInv, TypeOK, GoroutinesOK, SchedulerPlaces, HandlerPlaces, RoutinePlaces, Calling, Running, Jobs, NoJob, AllJob, Outcomes
  <2>3. LockInv'
    BY <1>10 DEF Accept, CoordInv, TypeOK, GoroutinesOK, LockInv, SchedulerPlaces, HandlerPlaces, RoutinePlaces, Calling, Running
  <2>4. MarkInv'
    BY <1>10 DEF Accept, CoordInv, TypeOK, GoroutinesOK, LockInv, MarkInv, RunInv, InRun, SchedulerPlaces, HandlerPlaces, RoutinePlaces, Calling, Running, Jobs
  <2>5. RunInv'
    BY <1>10 DEF Accept, CoordInv, TypeOK, GoroutinesOK, LockInv, MarkInv, RunInv, InRun, SchedulerPlaces, HandlerPlaces, RoutinePlaces, Calling, Running, Jobs, AllJob, RepoJob
  <2>6. ErrorInv'
    BY <1>10 DEF Accept, CoordInv, TypeOK, GoroutinesOK, RunInv, InRun, ErrorInv, ErrorOf
  <2> QED
    BY <2>1, <2>2, <2>3, <2>4, <2>5, <2>6 DEF CoordInv, TypeOK
<1>11. ASSUME NEW t \in {Scheduler} \union Handlers, MarkRunning(t) PROVE CoordInv'
  <2>1. FieldsOK'
    <3>1. job[t] \in Jobs
      BY <1>11 DEF MarkRunning, CoordInv, MarkInv
    <3>2. [scope |-> scope', repo |-> repo'] = job[t]
      BY <1>11, <3>1, JobFields DEF MarkRunning
    <3> QED
      BY <1>11, <3>1, <3>2 DEF MarkRunning, CoordInv, TypeOK, FieldsOK
  <2>2. GoroutinesOK'
    BY <1>11 DEF MarkRunning, CoordInv, TypeOK, GoroutinesOK, SchedulerPlaces, HandlerPlaces, RoutinePlaces, Calling, Running, Jobs, NoJob, AllJob, Outcomes
  <2>3. LockInv'
    BY <1>11 DEF MarkRunning, CoordInv, TypeOK, GoroutinesOK, LockInv, SchedulerPlaces, HandlerPlaces, RoutinePlaces, Calling, Running
  <2>4. MarkInv'
    BY <1>11 DEF MarkRunning, CoordInv, TypeOK, GoroutinesOK, LockInv, MarkInv, RunInv, InRun, SchedulerPlaces, HandlerPlaces, RoutinePlaces, Calling, Running, Jobs
  <2>5. RunInv'
    <3>1. job[t] \in Jobs /\ ~running
      BY <1>11 DEF MarkRunning, CoordInv, MarkInv
    <3>2. [scope |-> scope', repo |-> repo'] = job[t]
      BY <1>11, <3>1, JobFields DEF MarkRunning
    <3>3. \A u \in Threads : pc'[u] \in InRun <=> u = t
      BY <1>11, <3>1 DEF MarkRunning, CoordInv, TypeOK, GoroutinesOK, RunInv, InRun
    <3> QED
      BY <1>11, <3>1, <3>2, <3>3 DEF MarkRunning, RunInv
  <2>6. ErrorInv'
    BY <1>11 DEF MarkRunning, CoordInv, TypeOK, GoroutinesOK, RunInv, InRun, ErrorInv, ErrorOf
  <2> QED
    BY <2>1, <2>2, <2>3, <2>4, <2>5, <2>6 DEF CoordInv, TypeOK
<1>12. ASSUME NEW h \in Handlers, NEW g \in Routines, Spawn(h, g) PROVE CoordInv'
  <2>1. FieldsOK'
    BY <1>12 DEF Spawn, CoordInv, TypeOK, FieldsOK, GoroutinesOK, MarkInv, Jobs, AllJob, RepoJob, NoJob, Outcomes, ErrorOf
  <2>2. GoroutinesOK'
    BY <1>12 DEF Spawn, CoordInv, TypeOK, GoroutinesOK, SchedulerPlaces, HandlerPlaces, RoutinePlaces, Calling, Running, Jobs, NoJob, AllJob, Outcomes
  <2>3. LockInv'
    BY <1>12 DEF Spawn, CoordInv, TypeOK, GoroutinesOK, LockInv, SchedulerPlaces, HandlerPlaces, RoutinePlaces, Calling, Running
  <2>4. MarkInv'
    BY <1>12 DEF Spawn, CoordInv, TypeOK, GoroutinesOK, LockInv, MarkInv, RunInv, InRun, SchedulerPlaces, HandlerPlaces, RoutinePlaces, Calling, Running, Jobs
  <2>5. RunInv'
    BY <1>12 DEF Spawn, CoordInv, TypeOK, GoroutinesOK, LockInv, MarkInv, RunInv, InRun, SchedulerPlaces, HandlerPlaces, RoutinePlaces, Calling, Running, Jobs, AllJob, RepoJob
  <2>6. ErrorInv'
    BY <1>12 DEF Spawn, CoordInv, TypeOK, GoroutinesOK, RunInv, InRun, ErrorInv, ErrorOf
  <2> QED
    BY <2>1, <2>2, <2>3, <2>4, <2>5, <2>6 DEF CoordInv, TypeOK
<1>13. ASSUME NEW h \in Handlers, AnswerConflict(h) PROVE CoordInv'
  <2>1. FieldsOK'
    BY <1>13 DEF AnswerConflict, CoordInv, TypeOK, FieldsOK, GoroutinesOK, MarkInv, Jobs, AllJob, RepoJob, NoJob, Outcomes, ErrorOf
  <2>2. GoroutinesOK'
    BY <1>13 DEF AnswerConflict, CoordInv, TypeOK, GoroutinesOK, SchedulerPlaces, HandlerPlaces, RoutinePlaces, Calling, Running, Jobs, NoJob, AllJob, Outcomes
  <2>3. LockInv'
    BY <1>13 DEF AnswerConflict, CoordInv, TypeOK, GoroutinesOK, LockInv, SchedulerPlaces, HandlerPlaces, RoutinePlaces, Calling, Running
  <2>4. MarkInv'
    BY <1>13 DEF AnswerConflict, CoordInv, TypeOK, GoroutinesOK, LockInv, MarkInv, RunInv, InRun, SchedulerPlaces, HandlerPlaces, RoutinePlaces, Calling, Running, Jobs
  <2>5. RunInv'
    BY <1>13 DEF AnswerConflict, CoordInv, TypeOK, GoroutinesOK, LockInv, MarkInv, RunInv, InRun, SchedulerPlaces, HandlerPlaces, RoutinePlaces, Calling, Running, Jobs, AllJob, RepoJob
  <2>6. ErrorInv'
    BY <1>13 DEF AnswerConflict, CoordInv, TypeOK, GoroutinesOK, RunInv, InRun, ErrorInv, ErrorOf
  <2> QED
    BY <2>1, <2>2, <2>3, <2>4, <2>5, <2>6 DEF CoordInv, TypeOK
<1>14. ASSUME NEW t \in {Scheduler} \union Routines, NEW o \in Outcomes, RunReturns(t, o) PROVE CoordInv'
  <2>1. FieldsOK'
    BY <1>14 DEF RunReturns, CoordInv, TypeOK, FieldsOK, GoroutinesOK, MarkInv, Jobs, AllJob, RepoJob, NoJob, Outcomes, ErrorOf
  <2>2. GoroutinesOK'
    BY <1>14 DEF RunReturns, CoordInv, TypeOK, GoroutinesOK, SchedulerPlaces, HandlerPlaces, RoutinePlaces, Calling, Running, Jobs, NoJob, AllJob, Outcomes
  <2>3. LockInv'
    BY <1>14 DEF RunReturns, CoordInv, TypeOK, GoroutinesOK, LockInv, SchedulerPlaces, HandlerPlaces, RoutinePlaces, Calling, Running
  <2>4. MarkInv'
    BY <1>14 DEF RunReturns, CoordInv, TypeOK, GoroutinesOK, LockInv, MarkInv, RunInv, InRun, SchedulerPlaces, HandlerPlaces, RoutinePlaces, Calling, Running, Jobs
  <2>5. RunInv'
    BY <1>14 DEF RunReturns, CoordInv, TypeOK, GoroutinesOK, LockInv, MarkInv, RunInv, InRun, SchedulerPlaces, HandlerPlaces, RoutinePlaces, Calling, Running, Jobs, AllJob, RepoJob
  <2>6. ErrorInv'
    BY <1>14 DEF RunReturns, CoordInv, TypeOK, GoroutinesOK, RunInv, InRun, ErrorInv, ErrorOf
  <2> QED
    BY <2>1, <2>2, <2>3, <2>4, <2>5, <2>6 DEF CoordInv, TypeOK
<1>15. ASSUME NEW t \in {Scheduler} \union Routines, LockFinish(t) PROVE CoordInv'
  <2>1. FieldsOK'
    BY <1>15 DEF LockFinish, CoordInv, TypeOK, FieldsOK, GoroutinesOK, MarkInv, Jobs, AllJob, RepoJob, NoJob, Outcomes, ErrorOf
  <2>2. GoroutinesOK'
    BY <1>15 DEF LockFinish, CoordInv, TypeOK, GoroutinesOK, SchedulerPlaces, HandlerPlaces, RoutinePlaces, Calling, Running, Jobs, NoJob, AllJob, Outcomes
  <2>3. LockInv'
    BY <1>15 DEF LockFinish, CoordInv, TypeOK, GoroutinesOK, LockInv, SchedulerPlaces, HandlerPlaces, RoutinePlaces, Calling, Running
  <2>4. MarkInv'
    BY <1>15 DEF LockFinish, CoordInv, TypeOK, GoroutinesOK, LockInv, MarkInv, RunInv, InRun, SchedulerPlaces, HandlerPlaces, RoutinePlaces, Calling, Running, Jobs
  <2>5. RunInv'
    BY <1>15 DEF LockFinish, CoordInv, TypeOK, GoroutinesOK, LockInv, MarkInv, RunInv, InRun, SchedulerPlaces, HandlerPlaces, RoutinePlaces, Calling, Running, Jobs, AllJob, RepoJob
  <2>6. ErrorInv'
    BY <1>15 DEF LockFinish, CoordInv, TypeOK, GoroutinesOK, RunInv, InRun, ErrorInv, ErrorOf
  <2> QED
    BY <2>1, <2>2, <2>3, <2>4, <2>5, <2>6 DEF CoordInv, TypeOK
<1>16. ASSUME NEW t \in {Scheduler} \union Routines, FinishRun(t) PROVE CoordInv'
  <2>1. FieldsOK'
    BY <1>16 DEF FinishRun, CoordInv, TypeOK, FieldsOK, GoroutinesOK, MarkInv, Jobs, AllJob, RepoJob, NoJob, Outcomes, ErrorOf
  <2>2. GoroutinesOK'
    BY <1>16 DEF FinishRun, CoordInv, TypeOK, GoroutinesOK, SchedulerPlaces, HandlerPlaces, RoutinePlaces, Calling, Running, Jobs, NoJob, AllJob, Outcomes
  <2>3. LockInv'
    <3>1. \A u \in Threads : pc[u] \in {"check", "mark", "publish"} <=> u = t
      BY <1>16 DEF FinishRun, CoordInv, LockInv
    <3>2. \A u \in Threads : pc'[u] \notin {"check", "mark", "publish"}
      BY <1>16, <3>1 DEF FinishRun, CoordInv, TypeOK, GoroutinesOK
    <3> QED
      BY <1>16, <3>2 DEF FinishRun, LockInv
  <2>4. MarkInv'
    BY <1>16 DEF FinishRun, CoordInv, TypeOK, GoroutinesOK, LockInv, MarkInv, RunInv, InRun, SchedulerPlaces, HandlerPlaces, RoutinePlaces, Calling, Running, Jobs
  <2>5. RunInv'
    BY <1>16 DEF FinishRun, CoordInv, TypeOK, GoroutinesOK, LockInv, MarkInv, RunInv, InRun, SchedulerPlaces, HandlerPlaces, RoutinePlaces, Calling, Running, Jobs, AllJob, RepoJob
  <2>6. ErrorInv'
    BY <1>16 DEF FinishRun, CoordInv, TypeOK, GoroutinesOK, RunInv, InRun, ErrorInv, ErrorOf
  <2> QED
    BY <2>1, <2>2, <2>3, <2>4, <2>5, <2>6 DEF CoordInv, TypeOK
<1>17. ASSUME NEW t \in {Scheduler} \union Routines, AfterSync(t) PROVE CoordInv'
  <2>1. FieldsOK'
    BY <1>17 DEF AfterSync, CoordInv, TypeOK, FieldsOK, GoroutinesOK, MarkInv, Jobs, AllJob, RepoJob, NoJob, Outcomes, ErrorOf
  <2>2. GoroutinesOK'
    BY <1>17 DEF AfterSync, CoordInv, TypeOK, GoroutinesOK, SchedulerPlaces, HandlerPlaces, RoutinePlaces, Calling, Running, Jobs, NoJob, AllJob, Outcomes
  <2>3. LockInv'
    BY <1>17 DEF AfterSync, CoordInv, TypeOK, GoroutinesOK, LockInv, SchedulerPlaces, HandlerPlaces, RoutinePlaces, Calling, Running
  <2>4. MarkInv'
    BY <1>17 DEF AfterSync, CoordInv, TypeOK, GoroutinesOK, LockInv, MarkInv, RunInv, InRun, SchedulerPlaces, HandlerPlaces, RoutinePlaces, Calling, Running, Jobs
  <2>5. RunInv'
    BY <1>17 DEF AfterSync, CoordInv, TypeOK, GoroutinesOK, LockInv, MarkInv, RunInv, InRun, SchedulerPlaces, HandlerPlaces, RoutinePlaces, Calling, Running, Jobs, AllJob, RepoJob
  <2>6. ErrorInv'
    BY <1>17 DEF AfterSync, CoordInv, TypeOK, GoroutinesOK, RunInv, InRun, ErrorInv, ErrorOf
  <2> QED
    BY <2>1, <2>2, <2>3, <2>4, <2>5, <2>6 DEF CoordInv, TypeOK
<1>18. CASE UNCHANGED vars
  BY <1>18 DEF CoordInv, TypeOK, FieldsOK, GoroutinesOK, LockInv, MarkInv, RunInv, ErrorInv, vars
<1> QED
  BY <1>1, <1>2, <1>3, <1>4, <1>5, <1>6, <1>7, <1>8, <1>9, <1>10, <1>11, <1>12, <1>13, <1>14, <1>15, <1>16, <1>17, <1>18
     DEF Next, NextButCallback, SchedulerStep, Request, Execute, Terminated

\* The inductive invariant holds throughout: mu, running, the error and the places
\* of all threads agree.
THEOREM CoordInvAlways == Spec => []CoordInv
BY InitCoordInv, NextCoordInv, PTL DEF Spec

\* The types of every field hold in every reachable state, for every set of
\* handlers, goroutines and repositories.
THEOREM TypeCorrect == Spec => []TypeOK
<1>1. CoordInv => TypeOK
  BY DEF CoordInv
<1> QED
  BY <1>1, CoordInvAlways, PTL

\* Only one sync cycle runs at a time: the promise the coordinator exists for.
THEOREM MutualExclusion == Spec => []AtMostOneRun
<1>1. CoordInv => AtMostOneRun
  BY DEF CoordInv, RunInv, AtMostOneRun, Runners
<1> QED
  BY <1>1, CoordInvAlways, PTL

\* What GET /api/v1/sync reports about the present is the truth of the goroutines.
THEOREM StatusIsTruthful == Spec => []StatusTruthful
<1>1. CoordInv => StatusTruthful
  BY DEF CoordInv, RunInv, StatusTruthful, Runners, NoJob
<1> QED
  BY <1>1, CoordInvAlways, PTL

\* Between runs last_error is the error of the last run to finish.
THEOREM LastErrorIsOfLastRun == Spec => []LastErrorOfLastRun
<1>1. CoordInv => LastErrorOfLastRun
  BY DEF CoordInv, ErrorInv, LastErrorOfLastRun
<1> QED
  BY <1>1, CoordInvAlways, PTL

\* Only the step that marks a run started, and the step that publishes its end, touch
\* what Status() reports, and they do it for the thread that runs.
LEMMA ReportSteps == CoordInv /\ [Next]_vars => ReportStep
<1> SUFFICES ASSUME CoordInv, [Next]_vars PROVE ReportStep
  OBVIOUS
<1>1. CASE \E t \in {Scheduler} \union Handlers : MarkRunning(t)
  <2>1. PICK t \in {Scheduler} \union Handlers : MarkRunning(t)
    BY <1>1
  <2>2. t \in Threads /\ pc[t] = "mark" /\ ~running /\ running'
    BY <2>1 DEF MarkRunning, CoordInv, MarkInv, Threads
  <2>3. pc'[t] \in InRun
    BY <2>1, <2>2 DEF MarkRunning, Goto, InRun, CoordInv, TypeOK, GoroutinesOK
  <2> QED
    BY <2>2, <2>3 DEF ReportStep
<1>2. CASE \E t \in {Scheduler} \union Routines : FinishRun(t)
  <2>1. PICK t \in {Scheduler} \union Routines : FinishRun(t)
    BY <1>2
  <2>2. t \in Runners /\ running /\ ~running'
    BY <2>1 DEF FinishRun, CoordInv, RunInv, Runners, InRun, Threads
  <2>3. pc'[t] = "after"
    BY <2>1, <2>2 DEF FinishRun, Goto, Runners, CoordInv, TypeOK, GoroutinesOK
  <2>4. t \notin Runners'
    BY <2>3 DEF Runners, InRun
  <2> QED
    BY <2>2, <2>4 DEF ReportStep
<1>3. CASE UNCHANGED vars
  BY <1>3 DEF vars, coordVars, ReportStep
<1>4. CASE /\ Next
           /\ ~ \E t \in {Scheduler} \union Handlers : MarkRunning(t)
           /\ ~ \E t \in {Scheduler} \union Routines : FinishRun(t)
  <2>1. UNCHANGED <<running, scope, repo, lastError>>
    BY <1>4
    DEF Next, NextButCallback, SchedulerStep, Request, Execute, Terminated, vars, Boot,
        NewTicker, TickerFires, SchedulerTick, SchedulerStops, Shutdown, Post, LockStart,
        Refuse, Accept, Spawn, AnswerConflict, RunReturns, LockFinish,
        AfterSync, coordVars, threadVars
  <2> QED
    BY <2>1 DEF ReportStep
<1> QED
  BY <1>1, <1>2, <1>3, <1>4

\* A refused request changes nothing of what Status() reports, and nobody but the
\* thread that runs ends a run.
THEOREM RunnerAloneReports == Spec => OnlyTheRunnerReports
<1>1. CoordInv /\ [Next]_vars => [ReportStep]_vars
  BY ReportSteps
<1> QED
  BY <1>1, CoordInvAlways, PTL DEF Spec, OnlyTheRunnerReports

-----------------------------------------------------------------------------
(* Refinement: every step is a step of AbstractSync or a stutter.           *)

\* The job in progress, seen from the coordinator's fields.
View == IF running THEN [scope |-> scope, repo |-> repo] ELSE NoJob

\* The job of the goroutine that executes is the one the fields name.
LEMMA ViewIsInProgress == CoordInv => InProgress = View
<1> SUFFICES ASSUME CoordInv PROVE InProgress = View
  OBVIOUS
<1>1. CASE Runners = {}
  BY <1>1 DEF InProgress, View, CoordInv, RunInv, Runners
<1>2. CASE Runners # {}
  <2>1. (CHOOSE t \in Runners : TRUE) \in Runners
    BY <1>2
  <2>2. \A t \in Runners : running /\ job[t] = [scope |-> scope, repo |-> repo]
    BY DEF CoordInv, RunInv, Runners
  <2> QED
    BY <1>2, <2>1, <2>2 DEF InProgress, View
<1> QED
  BY <1>1, <1>2

\* A step leaves the fields alone, or marks a run started while there is none, or
\* publishes the end of the run in progress.
LEMMA StepKinds ==
  ASSUME CoordInv, [Next]_vars
  PROVE \/ UNCHANGED <<running, scope, repo, lastError>>
        \/ /\ ~running /\ running' /\ lastError' = ""
           /\ [scope |-> scope', repo |-> repo'] \in Jobs
        \/ running /\ ~running' /\ lastError' \in RunErrors \union {""}
<1> USE DEF coordVars, threadVars
<1>1. CASE \E t \in {Scheduler} \union Handlers : MarkRunning(t)
  <2>1. PICK t \in {Scheduler} \union Handlers : MarkRunning(t)
    BY <1>1
  <2>2. job[t] \in Jobs /\ ~running
    BY <2>1 DEF MarkRunning, CoordInv, MarkInv, Threads
  <2>3. [scope |-> scope', repo |-> repo'] = job[t]
    BY <2>1, <2>2, JobFields DEF MarkRunning
  <2> QED
    BY <2>1, <2>2, <2>3 DEF MarkRunning
<1>2. CASE \E t \in {Scheduler} \union Routines : FinishRun(t)
  <2>1. PICK t \in {Scheduler} \union Routines : FinishRun(t)
    BY <1>2
  <2>2. running
    BY <2>1 DEF FinishRun, CoordInv, RunInv, InRun, Threads
  <2>3. outcome[t] \in Outcomes /\ lastError \in RunErrors \union {""}
    BY <2>1 DEF CoordInv, TypeOK, FieldsOK, GoroutinesOK, Threads
  <2> QED
    BY <2>1, <2>2, <2>3 DEF FinishRun, ErrorOf, Outcomes
<1>3. CASE UNCHANGED vars
  BY <1>3 DEF vars
<1>4. CASE /\ Next
           /\ ~ \E t \in {Scheduler} \union Handlers : MarkRunning(t)
           /\ ~ \E t \in {Scheduler} \union Routines : FinishRun(t)
  BY <1>4
  DEF Next, NextButCallback, SchedulerStep, Request, Execute, Terminated, vars, Boot,
      NewTicker, TickerFires, SchedulerTick, SchedulerStops, Shutdown, Post, LockStart,
      Refuse, Accept, Spawn, AnswerConflict, RunReturns, LockFinish, AfterSync
<1> QED
  BY <1>1, <1>2, <1>3, <1>4

\* The coordinator with its goroutines, its mutex and its scheduler implements the
\* service that executes one job at a time.
THEOREM Refinement == Spec => ImplementsAbstract
<1>1. Init => Abstract!Init
  <2> SUFFICES ASSUME Init PROVE Abstract!Init
    OBVIOUS
  <2>1. CoordInv
    BY InitCoordInv
  <2>2. InProgress = NoJob
    BY <2>1, ViewIsInProgress DEF View, Init
  <2> QED
    BY <2>2 DEF Abstract!Init, Init
<1>2. CoordInv /\ CoordInv' /\ [Next]_vars => [Abstract!Next]_(Abstract!vars)
  <2> SUFFICES ASSUME CoordInv, CoordInv', [Next]_vars
               PROVE [Abstract!Next]_(Abstract!vars)
    OBVIOUS
  <2>1. InProgress = View
    BY ViewIsInProgress
  <2>2. InProgress' = View'
    <3>1. CASE Runners' = {}
      BY <3>1 DEF InProgress, View, CoordInv, RunInv, Runners
    <3>2. CASE Runners' # {}
      <4>1. (CHOOSE t \in Runners' : TRUE) \in Runners'
        BY <3>2
      <4>2. \A t \in Runners' : running' /\ job'[t] = [scope |-> scope', repo |-> repo']
        BY DEF CoordInv, RunInv, Runners
      <4> QED
        BY <3>2, <4>1, <4>2 DEF InProgress, View
    <3> QED
      BY <3>1, <3>2
  <2>3. CASE UNCHANGED <<running, scope, repo, lastError>>
    BY <2>1, <2>2, <2>3 DEF View, Abstract!vars
  <2>4. CASE /\ ~running /\ running' /\ lastError' = ""
             /\ [scope |-> scope', repo |-> repo'] \in Jobs
    <3>1. InProgress = NoJob /\ InProgress' = [scope |-> scope', repo |-> repo']
      BY <2>1, <2>2, <2>4 DEF View
    <3>2. Abstract!Begin(InProgress')
      BY <2>4, <3>1 DEF Abstract!Begin
    <3> QED
      BY <2>4, <3>1, <3>2 DEF Abstract!Next
  <2>5. CASE running /\ ~running' /\ lastError' \in RunErrors \union {""}
    <3>1. InProgress # NoJob
      <4>1. \E t \in Threads : pc[t] \in InRun
        BY <2>5 DEF CoordInv, RunInv
      <4>2. [scope |-> scope, repo |-> repo] \in Jobs
        BY <4>1 DEF CoordInv, RunInv
      <4>3. NoJob \notin Jobs
        BY DEF NoJob, Jobs, AllJob, RepoJob
      <4> QED
        BY <2>1, <2>5, <4>2, <4>3 DEF View
    <3>2. Abstract!Complete
      BY <2>2, <2>5, <3>1 DEF Abstract!Complete, View
    <3> QED
      BY <3>2 DEF Abstract!Next
  <2> QED
    BY <2>3, <2>4, <2>5, StepKinds
<1> QED
  BY <1>1, <1>2, CoordInvAlways, PTL DEF Spec, ImplementsAbstract, Abstract!SafeSpec

-----------------------------------------------------------------------------
(* The after-sync callbacks: the records of their local variables           *)

\* A callback's record, by its fields.
Cb(a, k, i, s, c, d, n) ==
  [at |-> a, kind |-> k, i |-> i, snap |-> s, consec |-> c, today |-> d, stars |-> n]
IsCb(x) == \E a, k, i, s, c, d, n : x = Cb(a, k, i, s, c, d, n)

\* The callbacks' records have their fields.
RecordsOK == /\ cb = [t \in Threads |-> cb[t]]
             /\ \A t \in Threads : IsCb(cb[t])

\* The other threads' callbacks stay where they are.
Alone(t) == \A u \in Threads \ {t} : cb'[u] = cb[u]

\* What a callback is about stays.
SameSubject(y, x) == y.kind = x.kind /\ y.snap = x.snap /\ y.today = x.today

\* A record's fields.
LEMMA CbFields ==
  ASSUME NEW a, NEW k, NEW i, NEW s, NEW c, NEW d, NEW n, NEW x, x = Cb(a, k, i, s, c, d, n)
  PROVE  /\ x.at = a /\ x.kind = k /\ x.i = i /\ x.snap = s /\ x.consec = c /\ x.today = d
         /\ IsCb(x)
BY DEF Cb, IsCb

\* A step of a callback writes its own record only.
LEMMA CallbackAlone ==
  ASSUME RecordsOK, NEW t \in Threads, NEW c, IsCb(c), Callback(t, c)
  PROVE  RecordsOK' /\ Alone(t) /\ cb'[t] = c
BY DEF RecordsOK, Alone, Callback

\* The callback moves on.
LEMMA MovesOn ==
  ASSUME RecordsOK, NEW t \in Threads, NEW a, Callback(t, [cb[t] EXCEPT !.at = a])
  PROVE  /\ RecordsOK' /\ Alone(t) /\ SameSubject(cb'[t], cb[t])
         /\ cb'[t].at = a /\ cb'[t].i = cb[t].i /\ cb'[t].consec = cb[t].consec
<1> DEFINE y == [cb[t] EXCEPT !.at = a]
<1>1. PICK a0, k, i, s, c, d, n : cb[t] = Cb(a0, k, i, s, c, d, n)
  BY DEF RecordsOK, IsCb
<1>2. y = Cb(a, k, i, s, c, d, n)
  BY <1>1 DEF Cb
<1>3. IsCb(y)
  BY <1>2 DEF IsCb
<1> HIDE DEF y
<1>4. RecordsOK' /\ Alone(t) /\ cb'[t] = y
  BY <1>3, CallbackAlone DEF y
<1> QED
  BY <1>1, <1>2, <1>4, CbFields DEF SameSubject

\* The callback moves on and its loop to the next rule.
LEMMA MovesOnAndSteps ==
  ASSUME RecordsOK, NEW t \in Threads, NEW a, NEW j,
         Callback(t, [cb[t] EXCEPT !.at = a, !.i = j])
  PROVE  /\ RecordsOK' /\ Alone(t) /\ SameSubject(cb'[t], cb[t])
         /\ cb'[t].at = a /\ cb'[t].i = j /\ cb'[t].consec = cb[t].consec
<1> DEFINE y1 == [cb[t] EXCEPT !.at = a]
           y == [y1 EXCEPT !.i = j]
<1>1. PICK a0, k, i, s, c, d, n : cb[t] = Cb(a0, k, i, s, c, d, n)
  BY DEF RecordsOK, IsCb
<1>2. y1 = Cb(a, k, i, s, c, d, n)
  BY <1>1 DEF Cb
<1>0. Callback(t, y)
  OBVIOUS
<1> HIDE DEF y1
<1>3. y = Cb(a, k, j, s, c, d, n)
  BY <1>2 DEF Cb
<1> HIDE DEF y
<1>4. IsCb(y)
  BY <1>3 DEF IsCb
<1>5. RecordsOK' /\ Alone(t) /\ cb'[t] = y
  BY <1>0, <1>4, CallbackAlone
<1> QED
  BY <1>1, <1>3, <1>5, CbFields DEF SameSubject

\* The loop moves to the next rule.
LEMMA LoopSteps ==
  ASSUME RecordsOK, NEW t \in Threads, NEW j, Callback(t, [cb[t] EXCEPT !.i = j])
  PROVE  /\ RecordsOK' /\ Alone(t) /\ SameSubject(cb'[t], cb[t])
         /\ cb'[t].at = cb[t].at /\ cb'[t].consec = cb[t].consec
<1> DEFINE y == [cb[t] EXCEPT !.i = j]
<1>1. PICK a, k, i, s, c, d, n : cb[t] = Cb(a, k, i, s, c, d, n)
  BY DEF RecordsOK, IsCb
<1>2. y = Cb(a, k, j, s, c, d, n)
  BY <1>1 DEF Cb
<1>3. IsCb(y)
  BY <1>2 DEF IsCb
<1> HIDE DEF y
<1>4. RecordsOK' /\ Alone(t) /\ cb'[t] = y
  BY <1>3, CallbackAlone DEF y
<1> QED
  BY <1>1, <1>2, <1>4, CbFields DEF SameSubject

\* The callback moves on with the count it has read.
LEMMA MovesOnWithCount ==
  ASSUME RecordsOK, NEW t \in Threads, NEW a, NEW m,
         Callback(t, [cb[t] EXCEPT !.at = a, !.consec = m])
  PROVE  /\ RecordsOK' /\ Alone(t) /\ SameSubject(cb'[t], cb[t])
         /\ cb'[t].at = a /\ cb'[t].i = cb[t].i /\ cb'[t].consec = m
<1> DEFINE y1 == [cb[t] EXCEPT !.at = a]
           y == [y1 EXCEPT !.consec = m]
<1>1. PICK a0, k, i, s, c, d, n : cb[t] = Cb(a0, k, i, s, c, d, n)
  BY DEF RecordsOK, IsCb
<1>2. y1 = Cb(a, k, i, s, c, d, n)
  BY <1>1 DEF Cb
<1>0. Callback(t, y)
  OBVIOUS
<1> HIDE DEF y1
<1>3. y = Cb(a, k, i, s, m, d, n)
  BY <1>2 DEF Cb
<1> HIDE DEF y
<1>4. IsCb(y)
  BY <1>3 DEF IsCb
<1>5. RecordsOK' /\ Alone(t) /\ cb'[t] = y
  BY <1>0, <1>4, CallbackAlone
<1> QED
  BY <1>1, <1>3, <1>5, CbFields DEF SameSubject

\* A record with the kind, the rule, the date and the star count of another loop, and one
\* with the place, the kind, the snapshot and the date of a new callback.
AtLoop(x, l, j, d, n) == [x EXCEPT !.kind = l, !.i = j, !.today = d, !.stars = n]
AtStart(x, a, k, s, d) == [x EXCEPT !.at = a, !.kind = k, !.snap = s, !.today = d]

\* The record of the next loop.
LEMMA LoopFields ==
  ASSUME NEW x, IsCb(x), NEW l, NEW j, NEW d1, NEW n1
  PROVE  /\ IsCb(AtLoop(x, l, j, d1, n1))
         /\ AtLoop(x, l, j, d1, n1).at = x.at
         /\ AtLoop(x, l, j, d1, n1).kind = l
         /\ AtLoop(x, l, j, d1, n1).today = d1
         /\ AtLoop(x, l, j, d1, n1).consec = x.consec
         /\ AtLoop(x, l, j, d1, n1).snap = x.snap
<1> DEFINE y1 == [x EXCEPT !.kind = l]
           y2 == [y1 EXCEPT !.i = j]
           y3 == [y2 EXCEPT !.today = d1]
           y == [y3 EXCEPT !.stars = n1]
<1>1. PICK a, k, i, s, c, d, n : x = Cb(a, k, i, s, c, d, n)
  BY DEF IsCb
<1>0. AtLoop(x, l, j, d1, n1) = y
  BY DEF AtLoop
<1>2. y1 = Cb(a, l, i, s, c, d, n)
  BY <1>1 DEF Cb
<1> HIDE DEF y1
<1>3. y2 = Cb(a, l, j, s, c, d, n)
  BY <1>2 DEF Cb
<1> HIDE DEF y2
<1>4. y3 = Cb(a, l, j, s, c, d1, n)
  BY <1>3 DEF Cb
<1> HIDE DEF y3
<1>5. y = Cb(a, l, j, s, c, d1, n1)
  BY <1>4 DEF Cb
<1> HIDE DEF y
<1>6. IsCb(y) /\ y.at = a /\ y.kind = l /\ y.snap = s /\ y.today = d1 /\ y.consec = c
  BY <1>5, CbFields
<1>7. x.at = a /\ x.consec = c /\ x.snap = s
  BY <1>1, CbFields
<1> QED
  BY <1>0, <1>6, <1>7

\* The record of no callback.
LEMMA NoCallbackFields ==
  /\ IsCb(NoCallback) /\ NoCallback.at = "" /\ NoCallback.kind = ""
  /\ NoCallback.consec = 0 /\ NoCallback.today = 1
<1>1. NoCallback = Cb("", "", 1, NoSnap, 0, 1, 0)
  BY DEF NoCallback, Cb
<1>2. IsCb(NoCallback)
  BY <1>1 DEF IsCb
<1> QED
  BY <1>1, <1>2 DEF Cb

\* The record of a new callback.
LEMMA StartFields ==
  ASSUME NEW x, IsCb(x), NEW a1, NEW k1, NEW s1, NEW d1
  PROVE  /\ IsCb(AtStart(x, a1, k1, s1, d1))
         /\ AtStart(x, a1, k1, s1, d1).at = a1
         /\ AtStart(x, a1, k1, s1, d1).kind = k1
         /\ AtStart(x, a1, k1, s1, d1).snap = s1
         /\ AtStart(x, a1, k1, s1, d1).today = d1
         /\ AtStart(x, a1, k1, s1, d1).consec = x.consec
<1> DEFINE y1 == [x EXCEPT !.at = a1]
           y2 == [y1 EXCEPT !.kind = k1]
           y3 == [y2 EXCEPT !.snap = s1]
           y == [y3 EXCEPT !.today = d1]
<1>1. PICK a, k, i, s, c, d, n : x = Cb(a, k, i, s, c, d, n)
  BY DEF IsCb
<1>0. AtStart(x, a1, k1, s1, d1) = y
  BY DEF AtStart
<1>2. y1 = Cb(a1, k, i, s, c, d, n)
  BY <1>1 DEF Cb
<1> HIDE DEF y1
<1>3. y2 = Cb(a1, k1, i, s, c, d, n)
  BY <1>2 DEF Cb
<1> HIDE DEF y2
<1>4. y3 = Cb(a1, k1, i, s1, c, d, n)
  BY <1>3 DEF Cb
<1> HIDE DEF y3
<1>5. y = Cb(a1, k1, i, s1, c, d1, n)
  BY <1>4 DEF Cb
<1> HIDE DEF y
<1>6. IsCb(y) /\ y.at = a1 /\ y.kind = k1 /\ y.snap = s1 /\ y.today = d1 /\ y.consec = c
  BY <1>5, CbFields
<1>7. x.consec = c
  BY <1>1, CbFields
<1> QED
  BY <1>0, <1>6, <1>7

-----------------------------------------------------------------------------
(* Types, and the refinement of the callback in one step                   *)

\* Types of one thread's callback.
LocalOK(t) ==
  /\ cb[t].at \in CallbackPlaces
  /\ cb[t].kind \in {"", "ops", "traffic", "milestone"}
  /\ cb[t].at # "" => pc[t] = "after"
  /\ cb[t].at \in {"debounce", "send", "mark"} =>
       cb[t].i \in RuleIds /\ Rules[cb[t].i].kind = cb[t].kind
  /\ cb[t].consec \in 0 .. MaxConsec /\ cb[t].today \in Days

TableOK == stamp \in [RuleIds -> {Unset, Fired} \union Days] /\ consec \in 0 .. MaxConsec
WorldOK == day \in Days /\ frozen \in BOOLEAN /\ busy \in BOOLEAN /\ stars \in 0 .. MaxStars
HistoryOK == /\ streak \in 0 .. MaxConsec
             /\ complete \in [RuleIds -> [Days -> 0 .. 2]]
             /\ sent \in [RuleIds -> [Days -> [Senders -> 0 .. 2]]]

\* The type invariant, with the fields of the records.
AlertTypes == RecordsOK /\ (\A t \in Threads : LocalOK(t)) /\ TableOK /\ WorldOK /\ HistoryOK

\* Every rule's kind and mode is one of three, the ladder is announced once, and the
\* first day is a day.
LEMMA RuleFacts ==
  /\ \A i \in RuleIds : Rules[i].mode \in {"every_sync", "once", "once_per_utc_day"}
  /\ \A i \in RuleIds : Rules[i].kind \in {"ops", "traffic", "milestone"}
  /\ \A i \in RuleIds : Rules[i].kind = "milestone" => Rules[i].mode = "once"
  /\ 1 \in Days /\ MaxDay \in Nat /\ MaxConsec \in Nat /\ Fired \notin Days
<1> DEFINE R == [kind : {"ops", "traffic", "milestone"}, event : STRING, value : Nat,
                 mode : {"every_sync", "once", "once_per_utc_day"}]
<1>0. Rules \in Seq(R)
  BY AlertAssumption
<1> HIDE DEF R
<1>1. \A i \in RuleIds : Rules[i] \in R
  BY <1>0 DEF RuleIds
<1> USE DEF R
<1>2. \A i \in RuleIds : /\ Rules[i].mode \in {"every_sync", "once", "once_per_utc_day"}
                         /\ Rules[i].kind \in {"ops", "traffic", "milestone"}
  BY <1>1
<1> QED
  BY <1>2, AlertAssumption DEF Days, Fired

\* The ladder has a number of rungs.
LEMMA RungsAreCounted == MaxStars \in Nat
<1>1. RuleIds = 1 .. Len(Rules) /\ Len(Rules) \in Nat
  BY AlertAssumption DEF RuleIds
<1>2. IsFiniteSet(RuleIds)
  BY <1>1, FS_Interval
<1>3. IsFiniteSet({i \in RuleIds : Rules[i].kind = "milestone"})
  BY <1>2, FS_Subset
<1> QED
  BY <1>3, FS_CardinalityType DEF MaxStars

\* What a saturating increment returns.
LEMMA SaturatedBound ==
  \A n, b \in Nat : /\ Saturated(n, b) \in 0 .. b
                    /\ Saturated(n, b) <= n
                    /\ b # 0 /\ n # 0 => Saturated(n, b) >= 1
BY DEF Saturated

\* A fan-out adds to what the sinks of one rule and period took, and takes nothing away.
LEMMA SentGrows ==
  ASSUME HistoryOK, NEW i \in RuleIds, NEW d \in Days, NEW took \in SUBSET Senders,
         sent' = [sent EXCEPT ![i][d] = [s \in Senders |-> IF s \in took
                                            THEN Saturated(@[s] + 1, 2) ELSE @[s]]]
  PROVE  /\ sent' \in [RuleIds -> [Days -> [Senders -> 0 .. 2]]]
         /\ \A j \in RuleIds, e \in Days, s \in Senders : sent'[j][e][s] >= sent[j][e][s]
         /\ \A s \in took : sent'[i][d][s] >= 1
<1> DEFINE row == [s \in Senders |-> IF s \in took THEN Saturated(sent[i][d][s] + 1, 2)
                                                   ELSE sent[i][d][s]]
<1>1. /\ row \in [Senders -> 0 .. 2]
      /\ \A s \in Senders : row[s] >= sent[i][d][s] /\ (s \in took => row[s] >= 1)
  BY DEF HistoryOK, Saturated
<1>2. sent' = [sent EXCEPT ![i] = [sent[i] EXCEPT ![d] = row]]
  OBVIOUS
<1> HIDE DEF row
<1>3. sent \in [RuleIds -> [Days -> [Senders -> 0 .. 2]]]
  BY DEF HistoryOK
<1>4. sent' \in [RuleIds -> [Days -> [Senders -> 0 .. 2]]] /\ sent'[i][d] = row
  BY <1>1, <1>2, <1>3
<1>5. \A j \in RuleIds, e \in Days : (j # i \/ e # d) => sent'[j][e] = sent[j][e]
  BY <1>2, <1>3
<1>6. ASSUME NEW j \in RuleIds, NEW e \in Days, NEW s \in Senders
      PROVE  sent'[j][e][s] >= sent[j][e][s]
  <2>1. sent[j][e][s] \in 0 .. 2
    BY <1>3
  <2> QED BY <1>1, <1>4, <1>5, <2>1
<1> QED BY <1>1, <1>4, <1>6

\* A fan-out that every sink took counts for its rule and period.
LEMMA CompleteGrows ==
  ASSUME HistoryOK, NEW i \in RuleIds, NEW d \in Days,
         complete' = [complete EXCEPT ![i][d] = Saturated(@ + 1, 2)]
  PROVE  /\ complete' \in [RuleIds -> [Days -> 0 .. 2]]
         /\ complete'[i][d] <= complete[i][d] + 1
         /\ \A j \in RuleIds, e \in Days : (j # i \/ e # d) => complete'[j][e] = complete[j][e]
<1> DEFINE m == Saturated(complete[i][d] + 1, 2)
<1>1. m \in 0 .. 2 /\ m <= complete[i][d] + 1
  BY DEF HistoryOK, Saturated
<1>2. complete' = [complete EXCEPT ![i] = [complete[i] EXCEPT ![d] = m]]
  OBVIOUS
<1> HIDE DEF m
<1>3. complete \in [RuleIds -> [Days -> 0 .. 2]]
  BY DEF HistoryOK
<1> QED BY <1>1, <1>2, <1>3

\* No step of the coordinator moves a thread that is in its callback.
LEMMA CallbackHeld ==
  ASSUME CoordInv, NextButCallback
  PROVE  \A t \in Threads : pc[t] = "after" => pc'[t] = "after"
<1> USE ThreadsAssumption DEF Threads, Goto, coordVars, threadVars
<1>1. pc \in [Threads -> SchedulerPlaces \union HandlerPlaces \union RoutinePlaces]
  BY DEF CoordInv, TypeOK, GoroutinesOK
<1> QED
  BY <1>1 DEF NextButCallback, SchedulerStep, Request, Execute, Boot, NewTicker, TickerFires,
      SchedulerTick, SchedulerStops, Shutdown, Post, LockStart, Refuse, Accept, MarkRunning,
      Spawn, AnswerConflict, RunReturns, LockFinish, FinishRun

\* A step of the callback is the AfterSync step of the coordinator, or none of its steps.
LEMMA CallbackRefines ==
  ASSUME NEW t \in {Scheduler} \union Routines, CallbackStep(t)
  PROVE  UNCHANGED vars \/ (CallbackReturns(t) /\ AfterSync(t))
BY DEF CallbackStep, TakeSnapshot, ResetConsecutive, ReadConsecutive, WriteConsecutive,
       ClearUpstreamStale, Evaluate, NextLoop, ShouldFire, FanOut, MarkFired, CallbackReturns

\* Every step with callbacks is a step of the coordinator or none.
LEMMA AlertNextRefines == [AlertNext]_alertVars => [Next]_vars
<1> SUFFICES ASSUME [AlertNext]_alertVars PROVE [Next]_vars
  OBVIOUS
<1>1. CASE NextButCallback
  BY <1>1 DEF Next
<1>2. ASSUME NEW t \in {Scheduler} \union Routines, CallbackStep(t) PROVE [Next]_vars
  BY <1>2, CallbackRefines DEF Next
<1>3. CASE WorldStep
  BY <1>3 DEF WorldStep, NewDay, TrafficChanges, StarsChange, Freeze, Thaw
<1>4. CASE Terminated
  BY <1>4 DEF Next
<1>5. CASE UNCHANGED alertVars
  BY <1>5 DEF alertVars
<1> QED BY <1>1, <1>2, <1>3, <1>4, <1>5 DEF AlertNext

\* The coordinator with its callbacks, step by step and overlapping, implements the
\* coordinator whose callback is one step.
THEOREM CallbackRefinement == AlertSpec => Spec
<1>1. AlertInit => Init
  BY DEF AlertInit
<1> QED BY <1>1, AlertNextRefines, PTL DEF AlertSpec, Spec

-----------------------------------------------------------------------------
(* A rule is silenced only by a delivered message                          *)

\* Every sink took the alert of a rule for a period.
Delivered(i, d) == \A s \in Senders : sent[i][d][s] >= 1

\* A callback about to stamp a rule has delivered its message.
MarksDelivered == \A t \in Threads : cb[t].at = "mark" => Delivered(cb[t].i, Period(t))

AlertInv == AlertTypes /\ StampedMeansDelivered /\ MarksDelivered

\* A step of one callback keeps the types of the others.
LEMMA OthersKeepTypes ==
  ASSUME AlertTypes, NEW t \in Threads, Alone(t), UNCHANGED pc, LocalOK(t)'
  PROVE  \A u \in Threads : LocalOK(u)'
<1> SUFFICES ASSUME NEW u \in Threads, u # t PROVE LocalOK(u)'
  OBVIOUS
<1>1. cb'[u] = cb[u] /\ LocalOK(u)
  BY DEF AlertTypes, Alone
<1> QED BY <1>1 DEF LocalOK

\* A step that writes neither the stamps nor what was sent, and after which the callback
\* is not about to write a stamp, leaves every promise kept.
LEMMA PromisesStay ==
  ASSUME AlertInv, NEW t \in Threads, Alone(t), cb'[t].at # "mark", UNCHANGED <<stamp, sent>>
  PROVE  StampedMeansDelivered' /\ MarksDelivered'
<1>1. StampedMeansDelivered'
  BY DEF AlertInv, StampedMeansDelivered
<1>2. ASSUME NEW u \in Threads, cb'[u].at = "mark" PROVE Delivered(cb[u].i, Period(u))'
  <2>1. cb'[u] = cb[u]
    BY <1>2 DEF Alone
  <2> QED BY <1>2, <2>1 DEF AlertInv, MarksDelivered, Delivered, Period
<1> QED BY <1>1, <1>2 DEF MarksDelivered

\* The table starts empty and no callback runs.
LEMMA InitAlertInv == AlertInit => AlertInv
<1> SUFFICES ASSUME AlertInit PROVE AlertInv
  OBVIOUS
<1> USE DEF AlertInit
<1>1. \A t \in Threads : cb[t] = NoCallback
  OBVIOUS
<1>2. RecordsOK
  BY <1>1, NoCallbackFields DEF RecordsOK
<1>3. \A t \in Threads : LocalOK(t)
  <2>1. 0 \in 0 .. MaxConsec /\ 1 \in Days
    BY RuleFacts
  <2> QED BY <1>1, <2>1, NoCallbackFields DEF LocalOK, CallbackPlaces
<1>4. TableOK
  BY RuleFacts DEF TableOK
<1>5. WorldOK
  <2>1. 1 \in Days /\ 0 \in 0 .. MaxStars
    BY RuleFacts, RungsAreCounted
  <2> QED BY <2>1 DEF WorldOK
<1>6. HistoryOK
  BY RuleFacts DEF HistoryOK
<1>7. StampedMeansDelivered
  BY DEF StampedMeansDelivered
<1>8. MarksDelivered
  BY <1>1, NoCallbackFields DEF MarksDelivered
<1> QED BY <1>2, <1>3, <1>4, <1>5, <1>6, <1>7, <1>8 DEF AlertInv, AlertTypes

\* A step of a callback keeps the types and the promises.
LEMMA CallbackKeepsAlertInv ==
  ASSUME CoordInv, AlertInv, NEW t \in {Scheduler} \union Routines, CallbackStep(t)
  PROVE  AlertInv'
<1> t \in Threads
  BY DEF Threads
<1>0. RecordsOK /\ LocalOK(t) /\ TableOK /\ WorldOK /\ HistoryOK
  BY DEF AlertInv, AlertTypes
<1> USE DEF InCallback, alertStore, world, alertHistory
<1>1. CASE TakeSnapshot(t)
  <2>1. PICK s : /\ Callback(t, AtStart(NoCallback, "counter", "ops", s, day))
                 /\ streak' = IF s.success THEN 0 ELSE Saturated(streak + 1, MaxConsec)
    BY <1>1 DEF TakeSnapshot, AtStart
  <2>2. /\ RecordsOK' /\ Alone(t) /\ cb'[t].at = "counter" /\ cb'[t].kind = "ops"
        /\ cb'[t].today = day /\ cb'[t].consec = 0
    <3> DEFINE y == AtStart(NoCallback, "counter", "ops", s, day)
    <3>1. IsCb(NoCallback) /\ NoCallback.consec = 0
      BY NoCallbackFields
    <3>2. IsCb(y) /\ y.at = "counter" /\ y.kind = "ops" /\ y.today = day /\ y.consec = 0
      BY <3>1, StartFields
    <3> HIDE DEF y
    <3>3. RecordsOK' /\ Alone(t) /\ cb'[t] = y
      BY <1>0, <2>1, <3>2, CallbackAlone DEF y
    <3> QED BY <3>2, <3>3
  <2>3. UNCHANGED <<vars, stamp, consec, day, frozen, busy, stars, complete, sent>>
        /\ pc[t] = "after"
    BY <1>1 DEF TakeSnapshot
  <2>4. LocalOK(t)'
    <3>1. 0 \in 0 .. MaxConsec /\ day \in Days
      BY <1>0, RuleFacts DEF WorldOK
    <3> QED BY <2>2, <2>3, <3>1 DEF LocalOK, CallbackPlaces, vars, threadVars
  <2>5. \A u \in Threads : LocalOK(u)'
    BY <2>2, <2>3, <2>4, OthersKeepTypes DEF AlertInv, vars, threadVars
  <2>6. HistoryOK' /\ TableOK' /\ WorldOK'
    <3>1. streak' \in 0 .. MaxConsec
      BY <1>0, <2>1, RuleFacts DEF HistoryOK, Saturated
    <3> QED BY <1>0, <2>3, <3>1 DEF HistoryOK, TableOK, WorldOK
  <2> QED BY <2>2, <2>3, <2>5, <2>6, PromisesStay DEF AlertInv, AlertTypes
<1>2. CASE ResetConsecutive(t)
  <2>1. Callback(t, [cb[t] EXCEPT !.at = "clear"]) /\ cb[t].at = "counter"
        /\ UNCHANGED <<vars, stamp, day, frozen, busy, stars, complete, sent, streak>> /\ consec' = 0
    BY <1>2 DEF ResetConsecutive
  <2>2. /\ RecordsOK' /\ Alone(t) /\ SameSubject(cb'[t], cb[t])
        /\ cb'[t].at = "clear" /\ cb'[t].i = cb[t].i /\ cb'[t].consec = cb[t].consec
    BY <1>0, <2>1, MovesOn
  <2>4. LocalOK(t)'
    BY <1>0, <2>1, <2>2 DEF LocalOK, CallbackPlaces, SameSubject, vars, threadVars
  <2>5. \A u \in Threads : LocalOK(u)'
    BY <2>1, <2>2, <2>4, OthersKeepTypes DEF AlertInv, vars, threadVars
  <2>6. HistoryOK' /\ TableOK' /\ WorldOK'
    BY <1>0, <2>1, RuleFacts DEF HistoryOK, TableOK, WorldOK
  <2> QED BY <2>1, <2>2, <2>5, <2>6, PromisesStay DEF AlertInv, AlertTypes
<1>3. CASE ReadConsecutive(t)
  <2>1. /\ Callback(t, [cb[t] EXCEPT !.at = "counterSet", !.consec = Saturated(consec + 1, MaxConsec)])
        /\ cb[t].at = "counter"
        /\ UNCHANGED <<vars, stamp, consec, day, frozen, busy, stars, complete, sent, streak>>
    BY <1>3 DEF ReadConsecutive
  <2>2. /\ RecordsOK' /\ Alone(t) /\ SameSubject(cb'[t], cb[t]) /\ cb'[t].at = "counterSet"
        /\ cb'[t].i = cb[t].i /\ cb'[t].consec = Saturated(consec + 1, MaxConsec)
    BY <1>0, <2>1, MovesOnWithCount
  <2>3. cb'[t].consec \in 0 .. MaxConsec
    BY <1>0, <2>2, RuleFacts, SaturatedBound DEF TableOK
  <2>4. LocalOK(t)'
    BY <1>0, <2>1, <2>2, <2>3 DEF LocalOK, CallbackPlaces, SameSubject, vars, threadVars
  <2>5. \A u \in Threads : LocalOK(u)'
    BY <2>1, <2>2, <2>4, OthersKeepTypes DEF AlertInv, vars, threadVars
  <2>6. HistoryOK' /\ TableOK' /\ WorldOK'
    BY <1>0, <2>1 DEF HistoryOK, TableOK, WorldOK
  <2> QED BY <2>1, <2>2, <2>5, <2>6, PromisesStay DEF AlertInv, AlertTypes
<1>4. CASE WriteConsecutive(t)
  <2>1. Callback(t, [cb[t] EXCEPT !.at = "clear"]) /\ cb[t].at = "counterSet"
        /\ UNCHANGED <<vars, stamp, day, frozen, busy, stars, complete, sent, streak>>
        /\ consec' = cb[t].consec
    BY <1>4 DEF WriteConsecutive
  <2>2. /\ RecordsOK' /\ Alone(t) /\ SameSubject(cb'[t], cb[t])
        /\ cb'[t].at = "clear" /\ cb'[t].i = cb[t].i /\ cb'[t].consec = cb[t].consec
    BY <1>0, <2>1, MovesOn
  <2>4. LocalOK(t)'
    BY <1>0, <2>1, <2>2 DEF LocalOK, CallbackPlaces, SameSubject, vars, threadVars
  <2>5. \A u \in Threads : LocalOK(u)'
    BY <2>1, <2>2, <2>4, OthersKeepTypes DEF AlertInv, vars, threadVars
  <2>6. HistoryOK' /\ TableOK' /\ WorldOK'
    BY <1>0, <2>1 DEF HistoryOK, TableOK, WorldOK, LocalOK
  <2> QED BY <2>1, <2>2, <2>5, <2>6, PromisesStay DEF AlertInv, AlertTypes
<1>5. CASE ClearUpstreamStale(t)
  <2>1. /\ Callback(t, [cb[t] EXCEPT !.at = "evaluate"]) /\ cb[t].at = "clear"
        /\ UNCHANGED <<vars, consec, day, frozen, busy, stars, complete, sent, streak>>
    BY <1>5 DEF ClearUpstreamStale
  <2>2. /\ RecordsOK' /\ Alone(t) /\ SameSubject(cb'[t], cb[t])
        /\ cb'[t].at = "evaluate" /\ cb'[t].i = cb[t].i /\ cb'[t].consec = cb[t].consec
    BY <1>0, <2>1, MovesOn
  <2>3. stamp' = [i \in RuleIds |->
                    IF ~cb[t].snap.stale /\ StaleRule(i) THEN Unset ELSE stamp[i]]
    BY <1>5 DEF ClearUpstreamStale
  <2>4. LocalOK(t)'
    BY <1>0, <2>1, <2>2 DEF LocalOK, CallbackPlaces, SameSubject, vars, threadVars
  <2>5. \A u \in Threads : LocalOK(u)'
    BY <2>1, <2>2, <2>4, OthersKeepTypes DEF AlertInv, vars, threadVars
  <2>6. \A i \in RuleIds : stamp'[i] = Unset \/ stamp'[i] = stamp[i]
    BY <2>3
  <2>7. HistoryOK' /\ TableOK' /\ WorldOK'
    BY <1>0, <2>1, <2>3, <2>6 DEF HistoryOK, TableOK, WorldOK
  <2>8. StampedMeansDelivered'
    BY <2>1, <2>6 DEF AlertInv, StampedMeansDelivered
  <2>9. ASSUME NEW u \in Threads, cb'[u].at = "mark" PROVE Delivered(cb[u].i, Period(u))'
    <3>1. cb'[u] = cb[u]
      BY <2>2, <2>9 DEF Alone
    <3> QED BY <2>1, <2>9, <3>1 DEF AlertInv, MarksDelivered, Delivered, Period
  <2>10. MarksDelivered'
    BY <2>9 DEF MarksDelivered
  <2> QED BY <2>1, <2>2, <2>5, <2>7, <2>8, <2>10 DEF AlertInv, AlertTypes
<1>6. CASE Evaluate(t)
  <2>1. PICK i \in Ahead(t) : Callback(t, IF Holds(t, Rules[i]) THEN [cb[t] EXCEPT !.at = "debounce", !.i = i]
                                            ELSE [cb[t] EXCEPT !.i = i + 1])
    BY <1>6 DEF Evaluate
  <2>2. cb[t].at = "evaluate"
        /\ UNCHANGED <<vars, stamp, consec, day, frozen, busy, stars, complete, sent, streak>>
    BY <1>6 DEF Evaluate
  <2>3. i \in RuleIds /\ Rules[i].kind = cb[t].kind
    BY <2>1 DEF Ahead
  <2>4. CASE Callback(t, [cb[t] EXCEPT !.at = "debounce", !.i = i])
    <3>1. /\ RecordsOK' /\ Alone(t) /\ SameSubject(cb'[t], cb[t])
          /\ cb'[t].at = "debounce" /\ cb'[t].i = i /\ cb'[t].consec = cb[t].consec
      BY <1>0, <2>4, MovesOnAndSteps
    <3>2. LocalOK(t)'
      BY <1>0, <2>2, <2>3, <3>1 DEF LocalOK, CallbackPlaces, SameSubject, vars, threadVars
    <3>3. \A u \in Threads : LocalOK(u)'
      BY <2>2, <3>1, <3>2, OthersKeepTypes DEF AlertInv, vars, threadVars
    <3>4. HistoryOK' /\ TableOK' /\ WorldOK'
      BY <1>0, <2>2 DEF HistoryOK, TableOK, WorldOK
    <3> QED BY <2>2, <3>1, <3>3, <3>4, PromisesStay DEF AlertInv, AlertTypes
  <2>5. CASE Callback(t, [cb[t] EXCEPT !.i = i + 1])
    <3>1. /\ RecordsOK' /\ Alone(t) /\ SameSubject(cb'[t], cb[t])
          /\ cb'[t].at = "evaluate" /\ cb'[t].consec = cb[t].consec
      BY <1>0, <2>2, <2>5, LoopSteps
    <3>2. LocalOK(t)'
      BY <1>0, <2>2, <3>1 DEF LocalOK, CallbackPlaces, SameSubject, vars, threadVars
    <3>3. \A u \in Threads : LocalOK(u)'
      BY <2>2, <3>1, <3>2, OthersKeepTypes DEF AlertInv, vars, threadVars
    <3>4. HistoryOK' /\ TableOK' /\ WorldOK'
      BY <1>0, <2>2 DEF HistoryOK, TableOK, WorldOK
    <3> QED BY <2>2, <3>1, <3>3, <3>4, PromisesStay DEF AlertInv, AlertTypes
  <2> QED BY <2>1, <2>4, <2>5
<1>7. CASE NextLoop(t)
  <2>1. /\ Callback(t, [cb[t] EXCEPT !.kind = IF @ = "ops" THEN "traffic" ELSE "milestone",
                                     !.i = 1, !.today = day, !.stars = stars])
        /\ cb[t].at = "evaluate"
        /\ UNCHANGED <<vars, stamp, consec, day, frozen, busy, stars, complete, sent, streak>>
    BY <1>7 DEF NextLoop
  <2> DEFINE l == IF cb[t].kind = "ops" THEN "traffic" ELSE "milestone"
  <2>2. l \in {"traffic", "milestone"} /\ Callback(t, AtLoop(cb[t], l, 1, day, stars))
    BY <2>1 DEF AtLoop
  <2> HIDE DEF l
  <2>3. /\ RecordsOK' /\ Alone(t) /\ cb'[t].at = cb[t].at /\ cb'[t].kind = l
        /\ cb'[t].today = day /\ cb'[t].consec = cb[t].consec
    <3> DEFINE y == AtLoop(cb[t], l, 1, day, stars)
    <3>1. IsCb(cb[t])
      BY <1>0 DEF RecordsOK
    <3>2. /\ IsCb(y) /\ y.at = cb[t].at /\ y.kind = l /\ y.today = day
          /\ y.consec = cb[t].consec
      BY <3>1, LoopFields
    <3> HIDE DEF y
    <3>3. RecordsOK' /\ Alone(t) /\ cb'[t] = y
      BY <1>0, <2>2, <3>2, CallbackAlone DEF y
    <3> QED BY <3>2, <3>3
  <2>4. LocalOK(t)'
    BY <1>0, <2>1, <2>2, <2>3 DEF LocalOK, CallbackPlaces, WorldOK, vars, threadVars
  <2>5. \A u \in Threads : LocalOK(u)'
    BY <2>1, <2>3, <2>4, OthersKeepTypes DEF AlertInv, vars, threadVars
  <2>6. HistoryOK' /\ TableOK' /\ WorldOK'
    BY <1>0, <2>1 DEF HistoryOK, TableOK, WorldOK
  <2> QED BY <2>1, <2>3, <2>5, <2>6, PromisesStay DEF AlertInv, AlertTypes
<1>8. CASE ShouldFire(t)
  <2>1. /\ cb[t].at = "debounce"
        /\ UNCHANGED <<vars, stamp, consec, day, frozen, busy, stars, complete, sent, streak>>
    BY <1>8 DEF ShouldFire
  <2>2. \/ Callback(t, [cb[t] EXCEPT !.at = "send"])
        \/ Callback(t, [cb[t] EXCEPT !.at = "evaluate", !.i = cb[t].i + 1])
    BY <1>8 DEF ShouldFire
  <2>3. /\ RecordsOK' /\ Alone(t) /\ SameSubject(cb'[t], cb[t]) /\ cb'[t].consec = cb[t].consec
        /\ (cb'[t].at = "send" /\ cb'[t].i = cb[t].i) \/ cb'[t].at = "evaluate"
    BY <1>0, <2>2, MovesOn, MovesOnAndSteps
  <2>4. LocalOK(t)'
    BY <1>0, <2>1, <2>3 DEF LocalOK, CallbackPlaces, SameSubject, vars, threadVars
  <2>5. \A u \in Threads : LocalOK(u)'
    BY <2>1, <2>3, <2>4, OthersKeepTypes DEF AlertInv, vars, threadVars
  <2>6. HistoryOK' /\ TableOK' /\ WorldOK'
    BY <1>0, <2>1 DEF HistoryOK, TableOK, WorldOK
  <2> QED BY <2>1, <2>3, <2>5, <2>6, PromisesStay DEF AlertInv, AlertTypes
<1>9. CASE \E took \in SUBSET Senders : FanOut(t, took)
  <2>1. PICK took \in SUBSET Senders : FanOut(t, took)
    BY <1>9
  <2> DEFINE i == cb[t].i
             d == Period(t)
  <2>2. cb[t].at = "send" /\ i \in RuleIds /\ d \in Days /\ Rules[i].kind = cb[t].kind
    BY <1>0, <2>1, RuleFacts DEF FanOut, LocalOK, Period
  <2>3. /\ UNCHANGED <<vars, stamp, consec, day, frozen, busy, stars, streak>>
        /\ sent' = [sent EXCEPT ![i][d] = [s \in Senders |-> IF s \in took
                                            THEN Saturated(@[s] + 1, 2) ELSE @[s]]]
    BY <2>1 DEF FanOut
  <2>4. \/ /\ took = Senders
           /\ complete' = [complete EXCEPT ![i][d] = Saturated(@ + 1, 2)]
           /\ Callback(t, [cb[t] EXCEPT !.at = "mark"])
        \/ /\ Callback(t, [cb[t] EXCEPT !.at = "evaluate", !.i = i + 1])
           /\ UNCHANGED complete
    BY <2>1 DEF FanOut
  <2>d. d = Period(t)
    OBVIOUS
  <2> HIDE DEF d
  <2>5. /\ sent' \in [RuleIds -> [Days -> [Senders -> 0 .. 2]]]
        /\ \A j \in RuleIds, e \in Days, s \in Senders : sent'[j][e][s] >= sent[j][e][s]
        /\ \A s \in took : sent'[i][d][s] >= 1
    BY <1>0, <2>2, <2>3, SentGrows
  <2>6. complete' \in [RuleIds -> [Days -> 0 .. 2]]
    BY <1>0, <2>2, <2>4, CompleteGrows DEF HistoryOK
  <2>7. /\ RecordsOK' /\ Alone(t) /\ SameSubject(cb'[t], cb[t]) /\ cb'[t].consec = cb[t].consec
        /\ \/ cb'[t].at = "mark" /\ cb'[t].i = i /\ took = Senders
           \/ cb'[t].at = "evaluate"
    BY <1>0, <2>4, MovesOn, MovesOnAndSteps
  <2>8. LocalOK(t)'
    BY <1>0, <2>2, <2>3, <2>7 DEF LocalOK, CallbackPlaces, SameSubject, vars, threadVars
  <2>9. \A u \in Threads : LocalOK(u)'
    BY <2>3, <2>7, <2>8, OthersKeepTypes DEF AlertInv, vars, threadVars
  <2>10. HistoryOK' /\ TableOK' /\ WorldOK'
    BY <1>0, <2>3, <2>5, <2>6 DEF HistoryOK, TableOK, WorldOK
  <2>11. \A j \in RuleIds, e \in Days : Delivered(j, e) => Delivered(j, e)'
    <3> SUFFICES ASSUME NEW j \in RuleIds, NEW e \in Days, Delivered(j, e), NEW s \in Senders
                 PROVE  sent'[j][e][s] >= 1
      BY DEF Delivered
    <3>1. sent'[j][e][s] >= sent[j][e][s] /\ sent[j][e][s] >= 1
      BY <2>5 DEF Delivered
    <3>2. sent'[j][e][s] \in 0 .. 2 /\ sent[j][e][s] \in 0 .. 2
      BY <1>0, <2>5 DEF HistoryOK
    <3> QED BY <3>1, <3>2
  <2>12. StampedMeansDelivered'
    <3> SUFFICES ASSUME NEW j \in RuleIds, stamp[j] # Unset
                 PROVE  Delivered(j, IF stamp[j] = Fired THEN 1 ELSE stamp[j])'
      BY <2>3 DEF StampedMeansDelivered, Delivered
    <3>1. (IF stamp[j] = Fired THEN 1 ELSE stamp[j]) \in Days
      BY <1>0, RuleFacts DEF TableOK
    <3>2. Delivered(j, IF stamp[j] = Fired THEN 1 ELSE stamp[j])
      BY DEF AlertInv, StampedMeansDelivered, Delivered
    <3> QED BY <2>3, <2>11, <3>1, <3>2
  <2>13. ASSUME NEW u \in Threads, cb'[u].at = "mark" PROVE Delivered(cb[u].i, Period(u))'
    <3>1. CASE u = t
      <4>1. cb'[t].i = i /\ took = Senders /\ Period(t)' = d
        BY <2>7, <2>13, <2>d, <3>1 DEF SameSubject, Period
      <4> QED BY <2>5, <3>1, <4>1 DEF Delivered
    <3>2. CASE u # t
      <4>1. cb'[u] = cb[u] /\ Period(u)' = Period(u)
        BY <2>7, <3>2 DEF Alone, Period
      <4>2. cb[u].i \in RuleIds /\ Period(u) \in Days /\ Delivered(cb[u].i, Period(u))
        BY <2>13, <4>1, RuleFacts DEF AlertInv, AlertTypes, LocalOK, MarksDelivered, Period
      <4> QED BY <2>11, <4>1, <4>2
    <3> QED BY <3>1, <3>2
  <2>14. MarksDelivered'
    BY <2>13 DEF MarksDelivered
  <2> QED BY <2>7, <2>9, <2>10, <2>12, <2>14 DEF AlertInv, AlertTypes
<1>10. CASE MarkFired(t)
  <2>1. /\ cb[t].at = "mark" /\ Callback(t, [cb[t] EXCEPT !.at = "evaluate", !.i = cb[t].i + 1])
        /\ UNCHANGED <<vars, consec, day, frozen, busy, stars, complete, sent, streak>>
    BY <1>10 DEF MarkFired
  <2>2. /\ RecordsOK' /\ Alone(t) /\ SameSubject(cb'[t], cb[t])
        /\ cb'[t].at = "evaluate" /\ cb'[t].consec = cb[t].consec
    BY <1>0, <2>1, MovesOnAndSteps
  <2>3. LocalOK(t)'
    BY <1>0, <2>1, <2>2 DEF LocalOK, CallbackPlaces, SameSubject, vars, threadVars
  <2>4. \A u \in Threads : LocalOK(u)'
    BY <2>1, <2>2, <2>3, OthersKeepTypes DEF AlertInv, vars, threadVars
  <2> DEFINE i == cb[t].i
  <2>5. i \in RuleIds /\ cb[t].today \in Days
    BY <1>0, <2>1 DEF LocalOK
  <2>6. \/ stamp' = stamp
        \/ Rules[i].mode = "once" /\ stamp' = [stamp EXCEPT ![i] = Fired]
        \/ Rules[i].mode = "once_per_utc_day" /\ stamp' = [stamp EXCEPT ![i] = cb[t].today]
    BY <1>10, <2>5, RuleFacts DEF MarkFired
  <2>7. HistoryOK' /\ TableOK' /\ WorldOK'
    BY <1>0, <2>1, <2>5, <2>6 DEF HistoryOK, TableOK, WorldOK
  <2>8. Delivered(i, Period(t))
    BY <2>1 DEF AlertInv, MarksDelivered
  <2>9. ASSUME NEW j \in RuleIds, stamp'[j] # Unset
        PROVE  Delivered(j, IF stamp'[j] = Fired THEN 1 ELSE stamp'[j])
    <3>1. CASE stamp'[j] = stamp[j]
      BY <2>9, <3>1 DEF AlertInv, StampedMeansDelivered, Delivered
    <3>2. CASE stamp'[j] # stamp[j]
      <4>1. j = i /\ (\/ Rules[i].mode = "once" /\ stamp'[j] = Fired
                      \/ Rules[i].mode = "once_per_utc_day" /\ stamp'[j] = cb[t].today)
        BY <1>0, <2>5, <2>6, <3>2 DEF TableOK
      <4>2. (IF stamp'[j] = Fired THEN 1 ELSE stamp'[j]) = Period(t)
        BY <2>5, <4>1, RuleFacts DEF Period
      <4> QED BY <2>8, <4>1, <4>2
    <3> QED BY <3>1, <3>2
  <2>10. StampedMeansDelivered'
    BY <2>1, <2>9 DEF StampedMeansDelivered, Delivered
  <2>11. ASSUME NEW u \in Threads, cb'[u].at = "mark" PROVE Delivered(cb[u].i, Period(u))'
    <3>1. cb'[u] = cb[u]
      BY <2>2, <2>11 DEF Alone
    <3> QED BY <2>1, <2>11, <3>1 DEF AlertInv, MarksDelivered, Delivered, Period
  <2>12. MarksDelivered'
    BY <2>11 DEF MarksDelivered
  <2> QED BY <2>2, <2>4, <2>7, <2>10, <2>12 DEF AlertInv, AlertTypes
<1>11. CASE CallbackReturns(t)
  <2>1. /\ Callback(t, NoCallback) /\ cb[t].at = "evaluate" /\ AfterSync(t)
        /\ UNCHANGED <<stamp, consec, day, frozen, busy, stars, complete, sent, streak>>
    BY <1>11 DEF CallbackReturns
  <2>2. RecordsOK' /\ Alone(t) /\ cb'[t] = NoCallback
    BY <1>0, <2>1, CallbackAlone, NoCallbackFields
  <2>3. LocalOK(t)'
    <3>1. 0 \in 0 .. MaxConsec /\ 1 \in Days
      BY RuleFacts
    <3> QED BY <2>2, <3>1, NoCallbackFields DEF LocalOK, CallbackPlaces
  <2>4. ASSUME NEW u \in Threads, u # t PROVE LocalOK(u)'
    <3>1. cb'[u] = cb[u] /\ LocalOK(u)
      BY <2>2, <2>4 DEF Alone, AlertInv, AlertTypes
    <3>2. pc'[u] = pc[u]
      BY <2>1, <2>4 DEF AfterSync, Goto, CoordInv, TypeOK, GoroutinesOK
    <3> QED BY <3>1, <3>2 DEF LocalOK
  <2>5. HistoryOK' /\ TableOK' /\ WorldOK'
    BY <1>0, <2>1 DEF HistoryOK, TableOK, WorldOK
  <2>6. cb'[t].at # "mark"
    BY <2>2, NoCallbackFields
  <2> QED BY <2>1, <2>2, <2>3, <2>4, <2>5, <2>6, PromisesStay DEF AlertInv, AlertTypes
<1> QED
  BY <1>1, <1>2, <1>3, <1>4, <1>5, <1>6, <1>7, <1>8, <1>9, <1>10, <1>11 DEF CallbackStep

\* Every other step keeps them too.
LEMMA NextAlertInv == CoordInv /\ AlertInv /\ [AlertNext]_alertVars => AlertInv'
<1> SUFFICES ASSUME CoordInv, AlertInv, [AlertNext]_alertVars PROVE AlertInv'
  OBVIOUS
<1> USE DEF alertStore, world, alertHistory
<1>0. RecordsOK /\ (\A t \in Threads : LocalOK(t)) /\ TableOK /\ WorldOK /\ HistoryOK
  BY DEF AlertInv, AlertTypes
<1>1. CASE /\ UNCHANGED <<cb, stamp, consec, day, frozen, busy, stars, complete, sent, streak>>
           /\ \A t \in Threads : pc[t] = "after" => pc'[t] = "after"
  <2>1. \A t \in Threads : LocalOK(t)'
    BY <1>0, <1>1 DEF LocalOK
  <2>2. RecordsOK' /\ TableOK' /\ WorldOK' /\ HistoryOK'
    BY <1>0, <1>1 DEF RecordsOK, TableOK, WorldOK, HistoryOK
  <2>3. StampedMeansDelivered' /\ MarksDelivered'
    BY <1>1 DEF AlertInv, StampedMeansDelivered, MarksDelivered, Delivered, Period
  <2> QED BY <2>1, <2>2, <2>3 DEF AlertInv, AlertTypes
<1>2. CASE NextButCallback /\ UNCHANGED <<cb, alertStore, world, alertHistory>>
  BY <1>1, <1>2, CallbackHeld
<1>3. ASSUME NEW t \in {Scheduler} \union Routines, CallbackStep(t) PROVE AlertInv'
  BY <1>3, CallbackKeepsAlertInv
<1>4. CASE WorldStep
  <2>1. UNCHANGED <<vars, cb, stamp, consec, sent, streak>>
    BY <1>4 DEF WorldStep, NewDay, TrafficChanges, StarsChange, Freeze, Thaw
  <2>2. \A t \in Threads : LocalOK(t)'
    BY <1>0, <2>1 DEF LocalOK, vars, threadVars
  <2>3. RecordsOK' /\ TableOK'
    BY <1>0, <2>1 DEF RecordsOK, TableOK
  <2>4. WorldOK'
    <3>1. CASE NewDay
      <4>1. day' \in Days
        BY <1>0, <3>1, RuleFacts DEF WorldOK, NewDay, Days
      <4> QED BY <1>0, <3>1, <4>1 DEF WorldOK, NewDay
    <3>2. CASE TrafficChanges
      BY <1>0, <3>2 DEF WorldOK, TrafficChanges
    <3>3. CASE \E n \in 0 .. MaxStars : StarsChange(n)
      BY <1>0, <3>3 DEF WorldOK, StarsChange
    <3>4. CASE Freeze \/ Thaw
      BY <1>0, <3>4 DEF WorldOK, Freeze, Thaw
    <3> QED BY <1>4, <3>1, <3>2, <3>3, <3>4 DEF WorldStep
  <2>5. complete' \in [RuleIds -> [Days -> 0 .. 2]]
    <3>1. CASE Thaw
      BY <1>0, <3>1 DEF Thaw, HistoryOK
    <3>2. CASE UNCHANGED complete
      BY <1>0, <3>2 DEF HistoryOK
    <3> QED BY <1>4, <3>1, <3>2 DEF WorldStep, NewDay, TrafficChanges, StarsChange, Freeze
  <2>6. HistoryOK'
    BY <1>0, <2>1, <2>5 DEF HistoryOK
  <2>7. StampedMeansDelivered' /\ MarksDelivered'
    BY <2>1 DEF AlertInv, StampedMeansDelivered, MarksDelivered, Delivered, Period
  <2> QED BY <2>2, <2>3, <2>4, <2>6, <2>7 DEF AlertInv, AlertTypes
<1>5. CASE UNCHANGED alertVars
  BY <1>1, <1>5 DEF alertVars, vars, threadVars
<1>6. CASE Terminated /\ UNCHANGED alertVars
  BY <1>5, <1>6
<1> QED BY <1>2, <1>3, <1>4, <1>5, <1>6 DEF AlertNext

\* The coordinator's invariant and the callbacks' hold throughout.
THEOREM AlertInvAlways == AlertSpec => [](CoordInv /\ AlertInv)
<1>1. AlertSpec => []CoordInv
  BY CallbackRefinement, CoordInvAlways, PTL
<1> QED BY <1>1, InitAlertInv, NextAlertInv, PTL DEF AlertSpec

\* The types of every callback, of the debounce table and of the history hold in every
\* reachable state.
THEOREM AlertTypeCorrect == AlertSpec => []AlertTypeOK
<1>1. AlertInv => AlertTypeOK
  BY DEF AlertInv, AlertTypes, LocalOK, TableOK, WorldOK, HistoryOK, AlertTypeOK
<1> QED BY <1>1, AlertInvAlways, PTL

\* No rule is silenced by a message that some sink did not take.
THEOREM NobodyMissedTheAlert == AlertSpec => []StampedMeansDelivered
<1>1. AlertInv => StampedMeansDelivered
  BY DEF AlertInv
<1> QED BY <1>1, AlertInvAlways, PTL

-----------------------------------------------------------------------------
(* Callbacks that do not overlap                                           *)

\* A callback about to count has the counter that the streak needs.
CountInv ==
  /\ ConsecutiveExact
  /\ \A t \in Threads :
       /\ cb[t].at = "counter" =>
            streak = IF cb[t].snap.success THEN 0 ELSE Saturated(consec + 1, MaxConsec)
       /\ cb[t].at = "counterSet" => cb[t].consec = streak

DailyRule(i) == Rules[i].mode = "once_per_utc_day" /\ ~StaleRule(i)
Rung(i) == Rules[i].kind = "milestone"

\* A callback has announced a rule, of the day d, and is about to stamp it.
Marking(i, d) == \E t \in Threads : cb[t].at = "mark" /\ cb[t].i = i /\ cb[t].today = d
MarkingRung(i) == \E t \in Threads : cb[t].at = "mark" /\ cb[t].i = i

\* A rule that announced a day has a stamp of it, or of a later one, or is about to get
\* it; no stamp is ahead of the callback that reads it; what is about to be sent for a
\* day has no stamp of the day.
DailyInv ==
  /\ OncePerDay
  /\ \A i \in RuleIds : DailyRule(i) =>
       /\ stamp[i] <= day
       /\ \A d \in Days : complete[i][d] >= 1 => stamp[i] >= d \/ Marking(i, d)
       /\ \A t \in Threads : cb[t].at # "" => stamp[i] <= cb[t].today
  /\ \A t \in Threads : cb[t].at # "" => cb[t].today <= day
  /\ \A t \in Threads : cb[t].at = "send" /\ DailyRule(cb[t].i) =>
       stamp[cb[t].i] # cb[t].today

\* A rung that was announced is marked or about to be; one about to be sent is not.
LadderInv ==
  /\ MilestoneOnce
  /\ \A i \in RuleIds : Rung(i) /\ complete[i][1] >= 1 => stamp[i] = Fired \/ MarkingRung(i)
  /\ \A t \in Threads : cb[t].at = "send" /\ Rung(cb[t].i) => stamp[cb[t].i] = Unset

SerialInv == CountInv /\ DailyInv /\ LadderInv

\* Days and stamps are numbers.
LEMMA DaysAreNumbers ==
  /\ \A d \in Days : d \in Nat
  /\ \A s \in {Unset, Fired} \union Days : s \in Nat
<1>1. MaxDay \in Nat
  BY AlertAssumption
<1> QED BY <1>1 DEF Days, Unset, Fired

\* A callback keeps its date, or reads it anew.
DateKept(t) ==
  cb'[t].at # "" => cb'[t].today = day \/ (cb[t].at # "" /\ cb'[t].today = cb[t].today)

\* A step between two statements on the table keeps what is known of the stamps.
LEMMA StampsStay ==
  ASSUME AlertInv, AlertInv', DailyInv, LadderInv, NEW t \in Threads, Alone(t),
         UNCHANGED <<stamp, complete, day>>,
         cb[t].at # "mark", cb'[t].at \notin {"send", "mark"},
         DateKept(t)
  PROVE  DailyInv' /\ LadderInv'
<1>1. \A u \in Threads : cb'[u].at = "send" => u # t /\ cb'[u] = cb[u]
  BY DEF Alone
<1>2. \A u \in Threads : cb[u].at = "mark" => cb'[u] = cb[u]
  BY DEF Alone
<1>3. \A i \in RuleIds, d \in Days : Marking(i, d) => Marking(i, d)'
  BY <1>2 DEF Marking
<1>4. \A i \in RuleIds : MarkingRung(i) => MarkingRung(i)'
  BY <1>2 DEF MarkingRung
<1>5. ASSUME NEW i \in RuleIds, DailyRule(i), NEW u \in Threads, cb'[u].at # ""
      PROVE  stamp'[i] <= cb'[u].today
  BY <1>5 DEF DailyInv, Alone, DateKept
<1>7. day <= day
  BY DaysAreNumbers DEF AlertInv, AlertTypes, WorldOK
<1>8. cb'[t].at # "" => cb'[t].today <= day
  BY <1>7 DEF DailyInv, DateKept
<1>9. \A u \in Threads : cb'[u].at # "" => cb'[u].today <= day'
  BY <1>8 DEF DailyInv, Alone
<1>6. OncePerDay' /\ MilestoneOnce'
  BY DEF OncePerDay, MilestoneOnce, DailyInv, LadderInv
<1>10. DailyInv'
  BY <1>1, <1>3, <1>5, <1>6, <1>9 DEF DailyInv, DailyRule, StaleRule
<1>11. LadderInv'
  BY <1>1, <1>4, <1>6 DEF LadderInv, Rung
<1> QED BY <1>10, <1>11

\* A step of a callback that is past its counter keeps the count.
LEMMA CountStays ==
  ASSUME CountInv, NEW t \in Threads, Alone(t), UNCHANGED <<consec, streak>>,
         cb[t].at \notin {"counter", "counterSet"}, cb'[t].at \notin {"counter", "counterSet"}
  PROVE  CountInv'
<1>1. \A u \in Threads : cb'[u].at \in {"counter", "counterSet"} => cb'[u] = cb[u]
  BY DEF Alone
<1>2. \A u \in Threads : cb[u].at \in {"counter", "counterSet"} => cb'[u] = cb[u]
  BY DEF Alone
<1> QED BY <1>1, <1>2 DEF CountInv, ConsecutiveExact

\* No callback runs at first.
LEMMA InitSerialInv == AlertInit => SerialInv
<1> SUFFICES ASSUME AlertInit PROVE SerialInv
  OBVIOUS
<1>1. \A t \in Threads : cb[t].at = ""
  BY NoCallbackFields DEF AlertInit
<1>2. \A i \in RuleIds : stamp[i] = 0 /\ \A d \in Days : complete[i][d] = 0
  BY DEF AlertInit, Unset
<1>3. consec = 0 /\ streak = 0 /\ day = 1 /\ 1 \in Days
  BY RuleFacts DEF AlertInit
<1>4. CountInv
  BY <1>1, <1>3 DEF CountInv, ConsecutiveExact
<1>5. DailyInv
  <2>1. OncePerDay
    BY <1>2 DEF OncePerDay
  <2>2. \A i \in RuleIds : stamp[i] <= day /\ \A d \in Days : ~(complete[i][d] >= 1)
    BY <1>2, <1>3
  <2> QED BY <1>1, <2>1, <2>2 DEF DailyInv
<1>6. LadderInv
  <2>1. \A i \in RuleIds : complete[i][1] = 0
    BY <1>2, <1>3
  <2>2. MilestoneOnce
    BY <2>1 DEF MilestoneOnce
  <2>3. \A i \in RuleIds : ~(complete[i][1] >= 1)
    BY <2>1
  <2> QED BY <1>1, <2>2, <2>3 DEF LadderInv
<1> QED BY <1>4, <1>5, <1>6 DEF SerialInv

\* Where callbacks do not overlap, a step of one keeps what is known of counter and stamps.
LEMMA CallbackKeepsSerialInv ==
  ASSUME SerialCallbacks, SerialCallbacks', AlertInv, AlertInv', SerialInv,
         NEW t \in {Scheduler} \union Routines, CallbackStep(t)
  PROVE  SerialInv'
<1> t \in Threads
  BY DEF Threads
<1>0. RecordsOK /\ LocalOK(t) /\ TableOK /\ WorldOK /\ HistoryOK
  BY DEF AlertInv, AlertTypes
<1>a. CountInv /\ DailyInv /\ LadderInv
  BY DEF SerialInv
<1>b. cb[t].at # "" => \A u \in Threads \ {t} : cb[u].at = ""
  BY DEF SerialCallbacks
<1> USE DEF InCallback, alertStore, world, alertHistory
<1>1. CASE TakeSnapshot(t)
  <2>1. PICK s : /\ Callback(t, AtStart(NoCallback, "counter", "ops", s, day))
                 /\ streak' = IF s.success THEN 0 ELSE Saturated(streak + 1, MaxConsec)
    BY <1>1 DEF TakeSnapshot, AtStart
  <2>2. /\ RecordsOK' /\ Alone(t) /\ cb'[t].at = "counter" /\ cb'[t].today = day
        /\ cb'[t].snap = s
    <3> DEFINE y == AtStart(NoCallback, "counter", "ops", s, day)
    <3>1. IsCb(NoCallback)
      BY NoCallbackFields
    <3>2. IsCb(y) /\ y.at = "counter" /\ y.today = day /\ y.snap = s
      BY <3>1, StartFields
    <3> HIDE DEF y
    <3>3. RecordsOK' /\ Alone(t) /\ cb'[t] = y
      BY <1>0, <2>1, <3>2, CallbackAlone DEF y
    <3> QED BY <3>2, <3>3
  <2>3. UNCHANGED <<stamp, consec, day, complete>> /\ cb[t].at = ""
    BY <1>1 DEF TakeSnapshot
  <2>4. DailyInv' /\ LadderInv'
    BY <1>a, <2>2, <2>3, StampsStay DEF DateKept
  <2>5. \A u \in Threads \ {t} : cb'[u].at = "" /\ cb[u].at = ""
    BY <2>2 DEF SerialCallbacks, Alone
  <2>6. consec = streak
    BY <1>a, <2>3, <2>5 DEF CountInv, ConsecutiveExact
  <2>7. CountInv'
    BY <2>1, <2>2, <2>3, <2>5, <2>6 DEF CountInv, ConsecutiveExact
  <2> QED BY <2>4, <2>7 DEF SerialInv
<1>2. CASE ResetConsecutive(t)
  <2>1. Callback(t, [cb[t] EXCEPT !.at = "clear"]) /\ cb[t].at = "counter" /\ cb[t].snap.success
        /\ UNCHANGED <<stamp, day, complete, streak>> /\ consec' = 0
    BY <1>2 DEF ResetConsecutive
  <2>2. Alone(t) /\ SameSubject(cb'[t], cb[t]) /\ cb'[t].at = "clear"
    BY <1>0, <2>1, MovesOn
  <2>3. DailyInv' /\ LadderInv'
    BY <1>a, <2>1, <2>2, StampsStay DEF SameSubject, DateKept
  <2>4. \A u \in Threads : cb'[u].at \in {"", "clear"}
    BY <1>b, <2>1, <2>2 DEF Alone
  <2>5. streak = 0
    BY <1>a, <2>1 DEF CountInv
  <2>6. CountInv'
    BY <2>1, <2>4, <2>5 DEF CountInv, ConsecutiveExact
  <2> QED BY <2>3, <2>6 DEF SerialInv
<1>3. CASE ReadConsecutive(t)
  <2>1. /\ Callback(t, [cb[t] EXCEPT !.at = "counterSet", !.consec = Saturated(consec + 1, MaxConsec)])
        /\ cb[t].at = "counter" /\ ~cb[t].snap.success
        /\ UNCHANGED <<stamp, consec, day, complete, streak>>
    BY <1>3 DEF ReadConsecutive
  <2>2. /\ Alone(t) /\ SameSubject(cb'[t], cb[t]) /\ cb'[t].at = "counterSet"
        /\ cb'[t].consec = Saturated(consec + 1, MaxConsec)
    BY <1>0, <2>1, MovesOnWithCount
  <2>3. DailyInv' /\ LadderInv'
    BY <1>a, <2>1, <2>2, StampsStay DEF SameSubject, DateKept
  <2>4. \A u \in Threads : u # t => cb'[u].at = ""
    BY <1>b, <2>1, <2>2 DEF Alone
  <2>5. streak = Saturated(consec + 1, MaxConsec)
    BY <1>a, <2>1 DEF CountInv
  <2>6. CountInv'
    BY <2>1, <2>2, <2>4, <2>5 DEF CountInv, ConsecutiveExact
  <2> QED BY <2>3, <2>6 DEF SerialInv
<1>4. CASE WriteConsecutive(t)
  <2>1. Callback(t, [cb[t] EXCEPT !.at = "clear"]) /\ cb[t].at = "counterSet"
        /\ UNCHANGED <<stamp, day, complete, streak>> /\ consec' = cb[t].consec
    BY <1>4 DEF WriteConsecutive
  <2>2. Alone(t) /\ SameSubject(cb'[t], cb[t]) /\ cb'[t].at = "clear"
    BY <1>0, <2>1, MovesOn
  <2>3. DailyInv' /\ LadderInv'
    BY <1>a, <2>1, <2>2, StampsStay DEF SameSubject, DateKept
  <2>4. \A u \in Threads : cb'[u].at \in {"", "clear"}
    BY <1>b, <2>1, <2>2 DEF Alone
  <2>5. consec' = streak
    BY <1>a, <2>1 DEF CountInv
  <2>6. CountInv'
    BY <2>1, <2>4, <2>5 DEF CountInv, ConsecutiveExact
  <2> QED BY <2>3, <2>6 DEF SerialInv
<1>5. CASE ClearUpstreamStale(t)
  <2>1. /\ Callback(t, [cb[t] EXCEPT !.at = "evaluate"]) /\ cb[t].at = "clear"
        /\ UNCHANGED <<consec, day, complete, streak>>
        /\ stamp' = [i \in RuleIds |->
                      IF ~cb[t].snap.stale /\ StaleRule(i) THEN Unset ELSE stamp[i]]
    BY <1>5 DEF ClearUpstreamStale
  <2>2. Alone(t) /\ SameSubject(cb'[t], cb[t]) /\ cb'[t].at = "evaluate"
    BY <1>0, <2>1, MovesOn
  <2>3. CountInv'
    BY <1>a, <2>1, <2>2, CountStays
  <2>4. \A i \in RuleIds : DailyRule(i) \/ Rung(i) => stamp'[i] = stamp[i]
    BY <2>1 DEF DailyRule, Rung, StaleRule
  <2>5. \A u \in Threads : cb'[u].at \in {"", "evaluate"}
    BY <1>b, <2>1, <2>2 DEF Alone
  <2>6. \A u \in Threads : cb[u].at # "mark"
    BY <1>b, <2>1
  <2>7. \A i \in RuleIds, d \in Days : ~Marking(i, d) /\ ~MarkingRung(i)
    BY <2>6 DEF Marking, MarkingRung
  <2>8. OncePerDay' /\ MilestoneOnce'
    BY <1>a, <2>1 DEF DailyInv, LadderInv, OncePerDay, MilestoneOnce
  <2>9. ASSUME NEW i \in RuleIds, DailyRule(i), NEW u \in Threads, cb'[u].at # ""
        PROVE  stamp'[i] <= cb'[u].today
    <3>1. u = t /\ cb'[t].today = cb[t].today
      BY <1>b, <2>1, <2>2, <2>9 DEF Alone, SameSubject
    <3> QED BY <1>a, <2>1, <2>4, <2>9, <3>1 DEF DailyInv
  <2>12. \A u \in Threads : cb'[u].at # "" => cb'[u].today <= day
    BY <1>a, <1>b, <2>1, <2>2 DEF Alone, SameSubject, DailyInv
  <2>10. DailyInv'
    BY <1>a, <2>1, <2>4, <2>5, <2>7, <2>8, <2>9, <2>12 DEF DailyInv, DailyRule, StaleRule
  <2>11. LadderInv'
    BY <1>a, <2>1, <2>4, <2>5, <2>7, <2>8, RuleFacts DEF LadderInv, Rung
  <2> QED BY <2>3, <2>10, <2>11 DEF SerialInv
<1>6. CASE Evaluate(t)
  <2>1. PICK i : \/ Callback(t, [cb[t] EXCEPT !.at = "debounce", !.i = i])
                 \/ Callback(t, [cb[t] EXCEPT !.i = i + 1])
    BY <1>6 DEF Evaluate
  <2>2. cb[t].at = "evaluate" /\ UNCHANGED <<stamp, consec, day, complete, streak>>
    BY <1>6 DEF Evaluate
  <2>3. Alone(t) /\ SameSubject(cb'[t], cb[t]) /\ cb'[t].at \in {"debounce", "evaluate"}
    BY <1>0, <2>1, <2>2, MovesOnAndSteps, LoopSteps
  <2>4. DailyInv' /\ LadderInv'
    BY <1>a, <2>2, <2>3, StampsStay DEF SameSubject, DateKept
  <2>5. CountInv'
    BY <1>a, <2>2, <2>3, CountStays
  <2> QED BY <2>4, <2>5 DEF SerialInv
<1>7. CASE NextLoop(t)
  <2>1. PICK l : Callback(t, AtLoop(cb[t], l, 1, day, stars))
    BY <1>7 DEF NextLoop, AtLoop
  <2>2. cb[t].at = "evaluate" /\ UNCHANGED <<stamp, consec, day, complete, streak>>
    BY <1>7 DEF NextLoop
  <2>3. Alone(t) /\ cb'[t].at = cb[t].at /\ cb'[t].today = day
    <3> DEFINE y == AtLoop(cb[t], l, 1, day, stars)
    <3>1. IsCb(cb[t])
      BY <1>0 DEF RecordsOK
    <3>2. IsCb(y) /\ y.at = cb[t].at /\ y.today = day
      BY <3>1, LoopFields
    <3> HIDE DEF y
    <3>3. Alone(t) /\ cb'[t] = y
      BY <1>0, <2>1, <3>2, CallbackAlone DEF y
    <3> QED BY <3>2, <3>3
  <2>4. DailyInv' /\ LadderInv'
    BY <1>a, <2>2, <2>3, StampsStay DEF DateKept
  <2>5. CountInv'
    BY <1>a, <2>2, <2>3, CountStays
  <2> QED BY <2>4, <2>5 DEF SerialInv
<1>8. CASE ShouldFire(t)
  <2> DEFINE i == cb[t].i
  <2>1. cb[t].at = "debounce" /\ UNCHANGED <<stamp, consec, day, complete, streak>>
    BY <1>8 DEF ShouldFire
  <2>2. i \in RuleIds
    BY <1>0, <2>1 DEF LocalOK
  <2>3. \/ Callback(t, [cb[t] EXCEPT !.at = "evaluate", !.i = cb[t].i + 1])
        \/ /\ Callback(t, [cb[t] EXCEPT !.at = "send"])
           /\ Rules[i].mode = "once" => stamp[i] = Unset
           /\ Rules[i].mode = "once_per_utc_day" => stamp[i] # cb[t].today
    BY <1>8, <2>2, RuleFacts DEF ShouldFire
  <2>4. CASE Callback(t, [cb[t] EXCEPT !.at = "evaluate", !.i = cb[t].i + 1])
    <3>1. Alone(t) /\ SameSubject(cb'[t], cb[t]) /\ cb'[t].at = "evaluate"
      BY <1>0, <2>4, MovesOnAndSteps
    <3>2. DailyInv' /\ LadderInv'
      BY <1>a, <2>1, <3>1, StampsStay DEF SameSubject, DateKept
    <3>3. CountInv'
      BY <1>a, <2>1, <3>1, CountStays
    <3> QED BY <3>2, <3>3 DEF SerialInv
  <2>5. CASE /\ Callback(t, [cb[t] EXCEPT !.at = "send"])
             /\ Rules[i].mode = "once" => stamp[i] = Unset
             /\ Rules[i].mode = "once_per_utc_day" => stamp[i] # cb[t].today
    <3>1. Alone(t) /\ SameSubject(cb'[t], cb[t]) /\ cb'[t].at = "send" /\ cb'[t].i = i
      BY <1>0, <2>5, MovesOn
    <3>2. CountInv'
      BY <1>a, <2>1, <3>1, CountStays
    <3>3. \A u \in Threads : u # t => cb'[u].at = "" /\ cb[u].at = ""
      BY <1>b, <2>1, <3>1 DEF Alone
    <3>4. \A j \in RuleIds, d \in Days : ~Marking(j, d) /\ ~MarkingRung(j)
      BY <2>1, <3>3 DEF Marking, MarkingRung
    <3>5. OncePerDay' /\ MilestoneOnce'
      BY <1>a, <2>1 DEF DailyInv, LadderInv, OncePerDay, MilestoneOnce
    <3>6. DailyInv'
      BY <1>a, <2>1, <2>5, <3>1, <3>3, <3>4, <3>5 DEF DailyInv, DailyRule, StaleRule, SameSubject
    <3>7. LadderInv'
      BY <1>a, <2>1, <2>2, <2>5, <3>1, <3>3, <3>4, <3>5, RuleFacts DEF LadderInv, Rung
    <3> QED BY <3>2, <3>6, <3>7 DEF SerialInv
  <2> QED BY <2>3, <2>4, <2>5
<1>9. CASE \E took \in SUBSET Senders : FanOut(t, took)
  <2> DEFINE i == cb[t].i
             d == Period(t)
  <2>1. PICK took \in SUBSET Senders : FanOut(t, took)
    BY <1>9
  <2>2. /\ cb[t].at = "send" /\ UNCHANGED <<stamp, consec, day, streak>>
        /\ i \in RuleIds /\ d \in Days
    BY <1>0, <2>1, RuleFacts DEF FanOut, LocalOK, Period
  <2>3. \/ /\ complete' = [complete EXCEPT ![i][d] = Saturated(@ + 1, 2)]
           /\ Callback(t, [cb[t] EXCEPT !.at = "mark"])
        \/ /\ Callback(t, [cb[t] EXCEPT !.at = "evaluate", !.i = i + 1])
           /\ UNCHANGED complete
    BY <2>1 DEF FanOut
  <2>4. CASE /\ Callback(t, [cb[t] EXCEPT !.at = "evaluate", !.i = cb[t].i + 1])
             /\ UNCHANGED complete
    <3>1. Alone(t) /\ SameSubject(cb'[t], cb[t]) /\ cb'[t].at = "evaluate"
      BY <1>0, <2>4, MovesOnAndSteps
    <3>2. DailyInv' /\ LadderInv'
      BY <1>a, <2>2, <2>4, <3>1, StampsStay DEF SameSubject, DateKept
    <3>3. CountInv'
      BY <1>a, <2>2, <3>1, CountStays
    <3> QED BY <3>2, <3>3 DEF SerialInv
  <2>5. CASE /\ complete' = [complete EXCEPT ![i][d] = Saturated(@ + 1, 2)]
             /\ Callback(t, [cb[t] EXCEPT !.at = "mark"])
    <3>0. d = Period(t)
      OBVIOUS
    <3> HIDE DEF d
    <3>1. Alone(t) /\ SameSubject(cb'[t], cb[t]) /\ cb'[t].at = "mark" /\ cb'[t].i = i
      BY <1>0, <2>5, MovesOn
    <3>2. CountInv'
      BY <1>a, <2>2, <3>1, CountStays
    <3>3. \A u \in Threads : u # t => cb'[u].at = "" /\ cb[u].at = ""
      BY <1>b, <2>2, <3>1 DEF Alone
    <3>4. \A j \in RuleIds, e \in Days : ~Marking(j, e) /\ ~MarkingRung(j)
      BY <2>2, <3>3 DEF Marking, MarkingRung
    <3>5. /\ complete'[i][d] <= complete[i][d] + 1
          /\ \A j \in RuleIds, e \in Days : (j # i \/ e # d) => complete'[j][e] = complete[j][e]
          /\ complete[i][d] \in 0 .. 2 /\ complete'[i][d] \in 0 .. 2
      <4>1. i \in RuleIds /\ d \in Days /\ complete' = [complete EXCEPT ![i][d] = Saturated(@ + 1, 2)]
        BY <2>2, <2>5
      <4> HIDE DEF i
      <4>2. /\ complete' \in [RuleIds -> [Days -> 0 .. 2]]
            /\ complete'[i][d] <= complete[i][d] + 1
            /\ \A j \in RuleIds, e \in Days : (j # i \/ e # d) => complete'[j][e] = complete[j][e]
        BY <1>0, <4>1, CompleteGrows
      <4> QED BY <1>0, <4>1, <4>2 DEF HistoryOK
    <3>6. DailyRule(i) => complete[i][d] = 0 /\ d = cb[t].today /\ stamp[i] <= d
      <4>1. SUFFICES ASSUME DailyRule(i) PROVE complete[i][d] = 0 /\ d = cb[t].today /\ stamp[i] <= d
        OBVIOUS
      <4>2. d = cb[t].today /\ stamp[i] # d /\ stamp[i] <= d
        BY <1>a, <2>2, <3>0, <4>1 DEF DailyInv, DailyRule, Period
      <4>3. stamp[i] \in Int /\ d \in Int
        BY <1>0, <2>2, RuleFacts DEF TableOK, Days, Unset, Fired
      <4>5. ~(stamp[i] >= d) /\ ~Marking(i, d)
        BY <2>2, <3>4, <4>2, <4>3
      <4>4. ~(complete[i][d] >= 1)
        BY <1>a, <2>2, <4>1, <4>5 DEF DailyInv
      <4> QED BY <3>5, <4>2, <4>4
    <3>7. Rung(i) => complete[i][d] = 0 /\ d = 1
      <4>1. SUFFICES ASSUME Rung(i) PROVE complete[i][d] = 0 /\ d = 1
        OBVIOUS
      <4>2. d = 1 /\ stamp[i] = Unset
        BY <1>a, <2>2, <3>0, <4>1, RuleFacts DEF LadderInv, Rung, Period
      <4>3. Unset # Fired
        BY RuleFacts DEF Unset, Fired
      <4>4. ~(complete[i][1] >= 1)
        BY <1>a, <2>2, <3>4, <4>1, <4>2, <4>3 DEF LadderInv
      <4> QED BY <3>5, <4>2, <4>4
    <3>8. OncePerDay'
      <4> SUFFICES ASSUME NEW j \in RuleIds, DailyRule(j), NEW e \in Days PROVE complete'[j][e] <= 1
        BY DEF OncePerDay, DailyRule
      <4>1. complete[j][e] <= 1
        BY <1>a DEF DailyInv, OncePerDay, DailyRule
      <4> QED BY <3>5, <3>6, <4>1
    <3>9. MilestoneOnce'
      <4> SUFFICES ASSUME NEW j \in RuleIds, Rung(j) PROVE complete'[j][1] <= 1
        BY DEF MilestoneOnce, Rung
      <4>1. complete[j][1] <= 1 /\ 1 \in Days
        BY <1>a, RuleFacts DEF LadderInv, MilestoneOnce, Rung
      <4> QED BY <3>5, <3>7, <4>1
    <3>10. \A j \in RuleIds, e \in Days : DailyRule(j) /\ complete'[j][e] >= 1
                                            => stamp[j] >= e \/ Marking(j, e)'
      <4> SUFFICES ASSUME NEW j \in RuleIds, NEW e \in Days, DailyRule(j), complete'[j][e] >= 1
                   PROVE  stamp[j] >= e \/ Marking(j, e)'
        OBVIOUS
      <4>1. CASE j = i /\ e = d
        BY <3>1, <3>6, <4>1 DEF Marking, SameSubject
      <4>2. CASE j # i \/ e # d
        BY <1>a, <3>4, <3>5, <4>2 DEF DailyInv
      <4> QED BY <4>1, <4>2
    <3>11. \A j \in RuleIds : Rung(j) /\ complete'[j][1] >= 1
                                => stamp[j] = Fired \/ MarkingRung(j)'
      <4> SUFFICES ASSUME NEW j \in RuleIds, Rung(j), complete'[j][1] >= 1
                   PROVE  stamp[j] = Fired \/ MarkingRung(j)'
        OBVIOUS
      <4>1. CASE j = i
        BY <3>1, <4>1 DEF MarkingRung
      <4>2. CASE j # i
        BY <1>a, <3>4, <3>5, <4>2, RuleFacts DEF LadderInv
      <4> QED BY <4>1, <4>2
    <3>12. ASSUME NEW j \in RuleIds, DailyRule(j), NEW u \in Threads, cb'[u].at # ""
           PROVE  stamp'[j] <= cb'[u].today
      <4>1. u = t /\ cb'[t].today = cb[t].today
        BY <3>1, <3>3, <3>12 DEF SameSubject
      <4> QED BY <1>a, <2>2, <3>12, <4>1 DEF DailyInv
    <3>16. \A u \in Threads : cb'[u].at # "" => cb'[u].today <= day
      BY <1>a, <2>2, <3>1, <3>3 DEF SameSubject, DailyInv
    <3>13. \A u \in Threads : cb'[u].at # "send"
      BY <3>1, <3>3
    <3>14. DailyInv'
      BY <1>a, <2>2, <3>8, <3>10, <3>12, <3>13, <3>16 DEF DailyInv, DailyRule, StaleRule
    <3>15. LadderInv'
      BY <2>2, <3>9, <3>11, <3>13 DEF LadderInv, Rung
    <3> QED BY <3>2, <3>14, <3>15 DEF SerialInv
  <2> QED BY <2>3, <2>4, <2>5
<1>10. CASE MarkFired(t)
  <2> DEFINE i == cb[t].i
  <2>1. /\ cb[t].at = "mark" /\ Callback(t, [cb[t] EXCEPT !.at = "evaluate", !.i = cb[t].i + 1])
        /\ UNCHANGED <<consec, day, complete, streak>>
    BY <1>10 DEF MarkFired
  <2>2. Alone(t) /\ SameSubject(cb'[t], cb[t]) /\ cb'[t].at = "evaluate"
    BY <1>0, <2>1, MovesOnAndSteps
  <2>3. i \in RuleIds /\ cb[t].today \in Days
    BY <1>0, <2>1 DEF LocalOK
  <2>4. /\ Rules[i].mode = "every_sync" => stamp' = stamp
        /\ Rules[i].mode = "once" => stamp' = [stamp EXCEPT ![i] = Fired]
        /\ Rules[i].mode = "once_per_utc_day" => stamp' = [stamp EXCEPT ![i] = cb[t].today]
    BY <1>10, <2>3, RuleFacts DEF MarkFired
  <2>5. /\ \A j \in RuleIds : j # i => stamp'[j] = stamp[j]
        /\ Rules[i].mode = "once" => stamp'[i] = Fired
        /\ Rules[i].mode = "once_per_utc_day" => stamp'[i] = cb[t].today
    BY <1>0, <2>3, <2>4, RuleFacts DEF TableOK
  <2>6. CountInv'
    BY <1>a, <2>1, <2>2, CountStays
  <2>7. \A u \in Threads : u # t => cb'[u].at = "" /\ cb[u].at = ""
    BY <1>b, <2>1, <2>2 DEF Alone
  <2>8. OncePerDay' /\ MilestoneOnce'
    BY <1>a, <2>1 DEF DailyInv, LadderInv, OncePerDay, MilestoneOnce
  <2>9. DailyRule(i) => stamp[i] <= cb[t].today
    BY <1>a, <2>1, <2>3 DEF DailyInv
  <2>10. cb[t].today <= day
    BY <1>a, <2>1 DEF DailyInv
  <2>11. ASSUME NEW j \in RuleIds, DailyRule(j)
         PROVE  /\ stamp'[j] <= day' /\ stamp'[j] <= cb'[t].today
                /\ \A d \in Days : complete'[j][d] >= 1 => stamp'[j] >= d
    <3>1. CASE j = i
      <4>1. stamp'[j] = cb[t].today /\ stamp[j] <= cb[t].today
        BY <2>5, <2>9, <2>11, <3>1 DEF DailyRule
      <4>2. ASSUME NEW d \in Days, complete[j][d] >= 1 PROVE stamp'[j] >= d
        <5>1. stamp[j] >= d \/ Marking(j, d)
          BY <1>a, <2>11, <4>2 DEF DailyInv
        <5>2. Marking(j, d) => d = cb[t].today
          BY <2>7 DEF Marking
        <5>3. d \in Int /\ stamp[j] \in Int /\ cb[t].today \in Int
          BY <1>0, <2>3, <2>11, RuleFacts DEF TableOK, Days, Unset, Fired
        <5> QED BY <4>1, <5>1, <5>2, <5>3
      <4>3. cb[t].today \in Int
        BY <2>3, RuleFacts DEF Days
      <4> QED BY <2>1, <2>2, <2>10, <4>1, <4>2, <4>3 DEF SameSubject
    <3>2. CASE j # i
      <4>1. stamp'[j] = stamp[j] /\ stamp[j] <= day /\ stamp[j] <= cb[t].today
        BY <1>a, <2>1, <2>5, <2>11, <3>2 DEF DailyInv
      <4>2. \A d \in Days : ~Marking(j, d)
        BY <2>7, <3>2 DEF Marking
      <4> QED BY <1>a, <2>1, <2>2, <2>11, <4>1, <4>2 DEF SameSubject, DailyInv
    <3> QED BY <3>1, <3>2
  <2>12. \A u \in Threads : cb'[u].at # "" => u = t /\ cb'[u].today = cb[t].today
    BY <2>2, <2>7 DEF SameSubject
  <2>13. \A u \in Threads : cb'[u].at # "send"
    BY <2>2, <2>7
  <2>14. DailyInv'
    BY <2>1, <2>2, <2>8, <2>10, <2>11, <2>12, <2>13 DEF DailyInv, DailyRule, StaleRule, SameSubject
  <2>15. LadderInv'
    <3>1. ASSUME NEW j \in RuleIds, Rung(j), complete[j][1] >= 1 PROVE stamp'[j] = Fired
      <4>1. CASE j = i
        BY <2>5, <3>1, <4>1, RuleFacts DEF Rung
      <4>2. CASE j # i
        <5>1. ~MarkingRung(j)
          BY <2>7, <4>2 DEF MarkingRung
        <5> QED BY <1>a, <2>5, <3>1, <4>2, <5>1 DEF LadderInv
      <4> QED BY <4>1, <4>2
    <3>2. \A u \in Threads : cb'[u].at # "send"
      BY <2>2, <2>7
    <3> QED BY <2>1, <2>8, <3>1, <3>2 DEF LadderInv, Rung
  <2> QED BY <2>6, <2>14, <2>15 DEF SerialInv
<1>11. CASE CallbackReturns(t)
  <2>1. /\ Callback(t, NoCallback) /\ cb[t].at = "evaluate"
        /\ UNCHANGED <<stamp, consec, day, complete, streak>>
    BY <1>11 DEF CallbackReturns
  <2>2. Alone(t) /\ cb'[t].at = ""
    BY <1>0, <2>1, CallbackAlone, NoCallbackFields
  <2>3. DailyInv' /\ LadderInv'
    BY <1>a, <2>1, <2>2, StampsStay DEF DateKept
  <2>4. CountInv'
    BY <1>a, <2>1, <2>2, CountStays
  <2> QED BY <2>3, <2>4 DEF SerialInv
<1> QED
  BY <1>1, <1>2, <1>3, <1>4, <1>5, <1>6, <1>7, <1>8, <1>9, <1>10, <1>11 DEF CallbackStep

\* Every other step keeps them too.
LEMMA NextSerialInv ==
  ASSUME SerialCallbacks, SerialCallbacks', AlertInv, AlertInv', SerialInv,
         [AlertNext]_alertVars
  PROVE  SerialInv'
<1> USE DEF alertStore, world, alertHistory
<1>a. CountInv /\ DailyInv /\ LadderInv
  BY DEF SerialInv
<1>1. CASE UNCHANGED <<cb, stamp, consec, day, complete, streak>>
  <2>1. CountInv'
    BY <1>a, <1>1 DEF CountInv, ConsecutiveExact
  <2>4. \A i \in RuleIds, d \in Days : Marking(i, d)' <=> Marking(i, d)
    BY <1>1 DEF Marking
  <2>5. OncePerDay'
    BY <1>a, <1>1 DEF DailyInv, OncePerDay
  <2>2. DailyInv'
    BY <1>a, <1>1, <2>4, <2>5 DEF DailyInv, DailyRule, StaleRule
  <2>3. LadderInv'
    BY <1>a, <1>1 DEF LadderInv, MilestoneOnce, MarkingRung, Rung
  <2> QED BY <2>1, <2>2, <2>3 DEF SerialInv
<1>2. CASE NextButCallback /\ UNCHANGED <<cb, alertStore, world, alertHistory>>
  BY <1>1, <1>2
<1>3. ASSUME NEW t \in {Scheduler} \union Routines, CallbackStep(t) PROVE SerialInv'
  BY <1>3, CallbackKeepsSerialInv
<1>4. CASE NewDay
  <2>1. UNCHANGED <<cb, stamp, consec, complete, streak>> /\ day' = day + 1
    BY <1>4 DEF NewDay
  <2>2. day \in Nat /\ \A i \in RuleIds : stamp[i] \in Nat
    BY DaysAreNumbers DEF AlertInv, AlertTypes, TableOK, WorldOK
  <2>3. \A t \in Threads : cb[t].today \in Nat
    BY DaysAreNumbers DEF AlertInv, AlertTypes, LocalOK
  <2>4. CountInv'
    BY <1>a, <2>1 DEF CountInv, ConsecutiveExact
  <2>5. \A i \in RuleIds : stamp[i] <= day => stamp[i] <= day'
    BY <2>1, <2>2
  <2>6. \A t \in Threads : cb[t].today <= day => cb[t].today <= day'
    BY <2>1, <2>2, <2>3
  <2>9. \A i \in RuleIds, d \in Days : Marking(i, d)' <=> Marking(i, d)
    BY <2>1 DEF Marking
  <2>10. OncePerDay'
    BY <1>a, <2>1 DEF DailyInv, OncePerDay
  <2>7. DailyInv'
    BY <1>a, <2>1, <2>5, <2>6, <2>9, <2>10 DEF DailyInv, DailyRule, StaleRule
  <2>8. LadderInv'
    BY <1>a, <2>1 DEF LadderInv, MilestoneOnce, MarkingRung, Rung
  <2> QED BY <2>4, <2>7, <2>8 DEF SerialInv
<1>5. CASE Thaw
  <2>1. UNCHANGED <<cb, stamp, consec, day, streak>>
        /\ \A i \in RuleIds : ~StaleRule(i) => complete'[i] = complete[i]
    BY <1>5 DEF Thaw
  <2>2. \A i \in RuleIds : DailyRule(i) \/ Rung(i) => complete'[i] = complete[i]
    BY <2>1 DEF DailyRule, Rung, StaleRule
  <2>3. CountInv'
    BY <1>a, <2>1 DEF CountInv, ConsecutiveExact
  <2>4. OncePerDay' /\ MilestoneOnce'
    BY <1>a, <2>2 DEF DailyInv, LadderInv, OncePerDay, MilestoneOnce, DailyRule, Rung
  <2>7. \A i \in RuleIds, d \in Days : Marking(i, d)' <=> Marking(i, d)
    BY <2>1 DEF Marking
  <2>5. DailyInv'
    BY <1>a, <2>1, <2>2, <2>4, <2>7 DEF DailyInv, DailyRule, StaleRule
  <2>6. LadderInv'
    BY <1>a, <2>1, <2>2, <2>4 DEF LadderInv, MarkingRung, Rung
  <2> QED BY <2>3, <2>5, <2>6 DEF SerialInv
<1>6. CASE WorldStep
  <2>1. TrafficChanges \/ Freeze \/ (\E n \in 0 .. MaxStars : StarsChange(n))
          => UNCHANGED <<cb, stamp, consec, day, complete, streak>>
    BY DEF TrafficChanges, Freeze, StarsChange
  <2> QED BY <1>1, <1>4, <1>5, <1>6, <2>1 DEF WorldStep
<1>7. CASE UNCHANGED alertVars
  BY <1>1, <1>7 DEF alertVars
<1>8. CASE Terminated /\ UNCHANGED alertVars
  BY <1>7, <1>8
<1> QED BY <1>2, <1>3, <1>6, <1>7, <1>8 DEF AlertNext

\* While callbacks do not overlap, the counter and the stamps are what the promises need.
LEMMA SerialInvAlways == AlertSpec /\ []SerialCallbacks => []SerialInv
<1>1. AlertSpec => []AlertInv
  BY AlertInvAlways, PTL
<1>2. AlertInit => SerialInv
  BY InitSerialInv
<1>3. SerialCallbacks /\ SerialCallbacks' /\ AlertInv /\ AlertInv' /\ SerialInv
        /\ [AlertNext]_alertVars => SerialInv'
  BY NextSerialInv
<1> QED BY <1>1, <1>2, <1>3, PTL DEF AlertSpec

\* While callbacks do not overlap, the stored counter is the length of the streak of
\* failures.
THEOREM SerialConsecutive == AlertSpec /\ []SerialCallbacks => []ConsecutiveExact
<1>1. SerialInv => ConsecutiveExact
  BY DEF SerialInv, CountInv
<1> QED BY <1>1, SerialInvAlways, PTL

\* While callbacks do not overlap, a rule announces each day at most once.
THEOREM SerialOncePerDay == AlertSpec /\ []SerialCallbacks => []OncePerDay
<1>1. SerialInv => OncePerDay
  BY DEF SerialInv, DailyInv
<1> QED BY <1>1, SerialInvAlways, PTL

\* While callbacks do not overlap, each rung of the ladder is announced at most once.
THEOREM SerialMilestones == AlertSpec /\ []SerialCallbacks => []MilestoneOnce
<1>1. SerialInv => MilestoneOnce
  BY DEF SerialInv, LadderInv
<1> QED BY <1>1, SerialInvAlways, PTL

\* Callbacks do not overlap where only the scheduler starts runs: no goroutine is ever
\* started by a POST.
THEOREM SchedulerAloneIsSerial ==
  ASSUME Routines = {}
  PROVE  AlertSpec => []SerialCallbacks
<1>1. CoordInv /\ AlertInv => SerialCallbacks
  <2> SUFFICES ASSUME CoordInv, AlertInv, NEW t \in Threads, cb[t].at # "" PROVE t = Scheduler
    BY DEF SerialCallbacks
  <2>1. pc[t] = "after"
    BY DEF AlertInv, AlertTypes, LocalOK
  <2>2. t \notin Handlers
    BY <2>1 DEF CoordInv, TypeOK, GoroutinesOK, HandlerPlaces, Calling
  <2> QED BY <2>2 DEF Threads
<1> QED BY <1>1, AlertInvAlways, PTL
=============================================================================
