---------------------------- MODULE SyncRunProofs ----------------------------
(***************************************************************************)
(* Theorems about SyncRun, for every number of repositories and workers    *)
(* and every cap of the sample.  PoolInv says where a repository can be:   *)
(* not handed over yet, with one worker, dropped after a cancellation, or  *)
(* done; CountInv says what the counter and the result know of it.  Both   *)
(* are needed because the properties speak of the end of a run only.       *)
(***************************************************************************)
EXTENDS SyncRun, FiniteSetTheorems, TLAPS

Holding == {"got", "work", "note"}

\* The fields' types, without the bounds that need a count.
PoolTypes ==
  /\ phase \in {"resolve", "dispatch", "wait", "snapshot", "deltas", "returned"}
  /\ tracked \in 0 .. NumRepos /\ next \in 1 .. tracked + 1
  /\ closed \in BOOLEAN /\ cancelled \in BOOLEAN
  /\ WorkersOK
  /\ started \in [Repos -> 0 .. 1]
  /\ ended \in [Repos -> {"open", "success", "error"}]

\* A worker holds a repository from the hand-over until its work is accounted for,
\* and no two workers hold the same.
HandsInv ==
  /\ \A w \in Workers : IF worker[w].at \in Holding THEN worker[w].repo \in 1 .. next - 1
                                                    ELSE worker[w].repo = NoRepo
  /\ \A v, w \in Workers :
       v # w /\ worker[v].repo # NoRepo => worker[v].repo # worker[w].repo

\* The place of a worker tells how far the work on its repository is.
Progress(w) ==
  /\ worker[w].at = "got" => started[worker[w].repo] = 0
  /\ worker[w].at = "work" => started[worker[w].repo] = 1 /\ ended[worker[w].repo] = "open"
  /\ worker[w].at = "note" => started[worker[w].repo] = 1 /\ ended[worker[w].repo] = "error"

ProgressInv == \A w \in Workers : Progress(w)

\* And a repository that is not with a worker is not begun, dropped or done.
Place(r) ==
  /\ r >= next => started[r] = 0
  /\ started[r] = 0 => ended[r] = "open"
  /\ started[r] = 1 /\ ended[r] = "open" =>
       \E w \in Workers : worker[w].at = "work" /\ worker[w].repo = r
  /\ r < next /\ started[r] = 0 /\ ~cancelled =>
       \E w \in Workers : worker[w].at = "got" /\ worker[w].repo = r

ReposInv == \A r \in Repos : Place(r)

\* What the phases of Run know of the pool.
PhaseInv ==
  /\ phase = "resolve" => tracked = 0 /\ \A w \in Workers : worker[w].at = "unborn"
  /\ phase \in {"snapshot", "deltas", "returned"} =>
       \A w \in Workers : worker[w].at \in {"unborn", "done"}
  /\ phase \notin {"resolve", "dispatch"} => next > tracked \/ cancelled

PoolInv == PoolTypes /\ HandsInv /\ ProgressInv /\ ReposInv /\ PhaseInv

\* The bounds are numbers.
LEMMA Numbers == NumRepos \in Nat /\ MaxNames \in Nat
BY RunAssumption

\* The invariant of the pool holds before the run ...
LEMMA InitPoolInv == Init => PoolInv
<1> SUFFICES ASSUME Init PROVE PoolInv
  OBVIOUS
<1>1. next = 1 /\ tracked = 0
  BY DEF Init
<1>2. started = [r \in Repos |-> 0] /\ ended = [r \in Repos |-> "open"]
  BY DEF Init
<1>3. worker = [w \in Workers |-> [at |-> "unborn", repo |-> NoRepo]]
  BY DEF Init
<1>4. phase = "resolve" /\ closed = FALSE /\ cancelled = FALSE
  BY DEF Init
<1>5. PoolTypes
  <2>1. started \in [Repos -> 0 .. 1]
    BY <1>2
  <2>4. ended \in [Repos -> {"open", "success", "error"}]
    BY <1>2
  <2>2. WorkersOK
    BY <1>3 DEF WorkersOK
  <2>3. tracked \in 0 .. NumRepos /\ next \in 1 .. tracked + 1
    BY <1>1, Numbers
  <2> QED
    BY <1>4, <2>1, <2>2, <2>3, <2>4 DEF PoolTypes
<1>6. HandsInv /\ ProgressInv
  BY <1>3 DEF HandsInv, ProgressInv, Progress, Holding
<1>7. ReposInv
  <2> SUFFICES ASSUME NEW r \in Repos PROVE Place(r)
    BY DEF ReposInv
  <2>1. r \in Nat /\ ~(r < 1)
    BY Numbers DEF Repos
  <2>2. started[r] = 0 /\ ended[r] = "open"
    BY <1>2
  <2> QED
    BY <1>1, <2>1, <2>2 DEF Place
<1>8. PhaseInv
  BY <1>1, <1>3, <1>4 DEF PhaseInv
<1> QED
  BY <1>5, <1>6, <1>7, <1>8 DEF PoolInv

\* What arithmetic needs of PoolTypes.
LEMMA PoolNumbers ==
  ASSUME PoolTypes
  PROVE  /\ NumRepos \in Nat /\ tracked \in Nat /\ tracked <= NumRepos
         /\ next \in Nat /\ next >= 1 /\ next <= tracked + 1
<1>1. tracked \in 0 .. NumRepos /\ next \in 1 .. tracked + 1
  BY DEF PoolTypes
<1> QED
  BY <1>1, Numbers

\* The repository of a worker that holds one.
LEMMA Held ==
  ASSUME PoolInv, NEW w \in Workers, worker[w].at \in Holding
  PROVE  /\ worker[w].repo \in Repos /\ worker[w].repo < next /\ worker[w].repo # NoRepo
         /\ \A v \in Workers : v # w => worker[v].repo # worker[w].repo
<1>1. worker[w].repo \in 1 .. next - 1
  BY DEF PoolInv, HandsInv
<1>2. worker[w].repo \in Repos /\ worker[w].repo < next /\ worker[w].repo # NoRepo
  BY <1>1, PoolNumbers DEF PoolInv, Repos, NoRepo
<1> QED
  BY <1>2 DEF PoolInv, HandsInv

\* A step of Run that leaves the workers and their repositories alone.
LEMMA QuietStep ==
  ASSUME PoolInv, UNCHANGED <<worker, next, tracked, started, ended>>, cancelled => cancelled',
         cancelled' \in BOOLEAN, closed' \in BOOLEAN,
         phase' \in {"resolve", "dispatch", "wait", "snapshot", "deltas", "returned"}
  PROVE  PoolTypes' /\ HandsInv' /\ ProgressInv' /\ ReposInv'
<1>1. HandsInv'
  BY DEF PoolInv, HandsInv
<1>2. ProgressInv'
  BY DEF PoolInv, ProgressInv, Progress
<1>3. ReposInv'
  <2> SUFFICES ASSUME NEW r \in Repos PROVE Place(r)'
    BY DEF ReposInv
  <2>1. Place(r)
    BY DEF PoolInv, ReposInv
  <2> QED
    BY <2>1 DEF Place
<1>4. PoolTypes'
  BY DEF PoolInv, PoolTypes, WorkersOK
<1> QED
  BY <1>1, <1>2, <1>3, <1>4

\* What a step that moves one worker does to the workers.
LEMMA Moved ==
  ASSUME NEW w \in Workers, NEW place, NEW r, WorkersOK, Move(w, place, r)
  PROVE  /\ worker'[w].at = place /\ worker'[w].repo = r
         /\ \A v \in Workers : v # w => worker'[v] = worker[v]
BY DEF WorkersOK, Move

\* A worker that neither begins nor ends the work on a repository lets go of what it
\* holds: a step to receive or done.
LEMMA Release ==
  ASSUME PoolInv, NEW w \in Workers, NEW place \in {"receive", "done"},
         Move(w, place, NoRepo), worker[w].at # "work", worker[w].at = "got" => cancelled,
         worker[w].at # "unborn", place = "receive" => worker[w].at \in Holding,
         worker[w].at # "done",
         UNCHANGED <<phase, tracked, next, closed, cancelled, started, ended>>
  PROVE  PoolInv'
<1> USE DEF PoolInv
<1>1. /\ worker'[w].at = place /\ worker'[w].repo = NoRepo
      /\ \A v \in Workers : v # w => worker'[v] = worker[v]
  BY Moved DEF PoolTypes
<1>2. PoolTypes'
  BY DEF PoolTypes, WorkersOK, Move
<1>3. HandsInv'
  <2>1. place \notin Holding
    BY DEF Holding
  <2> QED
    BY <1>1, <2>1 DEF HandsInv
<1>4. ProgressInv'
  BY <1>1 DEF ProgressInv, Progress
<1>5. ReposInv'
  <2> SUFFICES ASSUME NEW r \in Repos PROVE Place(r)'
    BY DEF ReposInv
  <2>1. \A v \in Workers : worker[v].at = "work" => v # w
    OBVIOUS
  <2>2. \A v \in Workers : ~cancelled /\ worker[v].at = "got" => v # w
    OBVIOUS
  <2>3. Place(r)
    BY DEF ReposInv
  <2> QED
    BY <1>1, <2>1, <2>2, <2>3 DEF Place
<1>6. PhaseInv'
  BY <1>1 DEF PhaseInv, Holding
<1> QED
  BY <1>2, <1>3, <1>4, <1>5, <1>6

\* ... and every step of Run and of its workers keeps it.
LEMMA NextPoolInv == PoolInv /\ [Next]_vars => PoolInv'
<1> SUFFICES ASSUME PoolInv, [Next]_vars PROVE PoolInv'
  OBVIOUS
<1> USE DEF PoolInv
<1>0. NumRepos \in Nat /\ tracked \in Nat /\ next \in Nat /\ next >= 1 /\ next <= tracked + 1
  BY PoolNumbers
<1>1. ASSUME NEW unreachable \in BOOLEAN, ResolveFails(unreachable) PROVE PoolInv'
  <2>1. PoolTypes' /\ HandsInv' /\ ProgressInv' /\ ReposInv'
    BY <1>1, QuietStep DEF ResolveFails, poolVars, history, PoolTypes
  <2>2. PhaseInv'
    BY <1>0, <1>1 DEF ResolveFails, PhaseInv, poolVars, history
  <2> QED
    BY <2>1, <2>2
<1>2. CASE NothingToSync
  <2>1. PoolTypes' /\ HandsInv' /\ ProgressInv' /\ ReposInv'
    BY <1>2, QuietStep DEF NothingToSync, poolVars, history, PoolTypes
  <2>2. PhaseInv'
    BY <1>0, <1>2 DEF NothingToSync, PhaseInv, poolVars, history
  <2> QED
    BY <2>1, <2>2
<1>3. ASSUME NEW n \in Repos, StartPool(n) PROVE PoolInv'
  <2>1. n \in Nat /\ n >= 1 /\ n <= NumRepos /\ tracked = 0 /\ next = 1
    BY <1>0, <1>3 DEF StartPool, PhaseInv, Repos
  <2>2. \A w \in Workers : worker'[w].at = "receive" /\ worker'[w].repo = NoRepo
    BY <1>3 DEF StartPool
  <2>3. PoolTypes'
    <3>1. worker' = [w \in Workers |-> [at |-> "receive", repo |-> NoRepo]]
      BY <1>3 DEF StartPool
    <3>2. WorkersOK'
      BY <3>1 DEF WorkersOK
    <3>3. tracked' \in 0 .. NumRepos /\ next' \in 1 .. tracked' + 1
      BY <1>0, <1>3, <2>1 DEF StartPool
    <3>4. phase' = "dispatch" /\ UNCHANGED <<closed, cancelled, started, ended>>
      BY <1>3 DEF StartPool, history
    <3> QED
      BY <3>2, <3>3, <3>4 DEF PoolTypes
  <2>4. HandsInv' /\ ProgressInv' /\ PhaseInv'
    BY <1>3, <2>2 DEF StartPool, HandsInv, ProgressInv, Progress, PhaseInv, Holding
  <2>5. ReposInv'
    <3> SUFFICES ASSUME NEW r \in Repos PROVE Place(r)'
      BY DEF ReposInv
    <3>1. r \in Nat /\ r >= next /\ ~(r < next)
      BY <2>1, <1>0 DEF Repos
    <3>2. started[r] = 0 /\ ended[r] = "open"
      BY <3>1 DEF ReposInv, Place
    <3>3. UNCHANGED <<next, started, ended>>
      BY <1>3 DEF StartPool, history
    <3>4. started'[r] = 0 /\ ended'[r] = "open" /\ ~(r < next')
      BY <3>1, <3>2, <3>3
    <3> QED
      BY <3>4 DEF Place
  <2> QED
    BY <2>3, <2>4, <2>5
<1>4. CASE CloseJobs
  <2>1. PoolTypes' /\ HandsInv' /\ ProgressInv' /\ ReposInv'
    BY <1>4, QuietStep DEF CloseJobs, history, PoolTypes
  <2>2. PhaseInv'
    BY <1>4 DEF CloseJobs, PhaseInv, history
  <2> QED
    BY <2>1, <2>2
<1>5. CASE PoolDone
  <2>1. PoolTypes' /\ HandsInv' /\ ProgressInv' /\ ReposInv'
    BY <1>5, QuietStep DEF PoolDone, poolVars, history, PoolTypes
  <2>2. PhaseInv'
    BY <1>5 DEF PoolDone, PhaseInv, At, poolVars, history
  <2> QED
    BY <2>1, <2>2
<1>6. CASE Snapshot \/ Finish
  <2>1. PoolTypes' /\ HandsInv' /\ ProgressInv' /\ ReposInv'
    BY <1>6, QuietStep DEF Snapshot, Finish, poolVars, history, PoolTypes
  <2>2. PhaseInv'
    BY <1>6 DEF Snapshot, Finish, PhaseInv, poolVars, history
  <2> QED
    BY <2>1, <2>2
<1>7. ASSUME NEW w \in Workers, HandOver(w) PROVE PoolInv'
  <2>1. /\ next <= tracked /\ next' = next + 1 /\ worker[w].at = "receive" /\ next \in Repos
        /\ UNCHANGED <<tracked, phase, closed, cancelled, started, ended>>
    BY <1>0, <1>7, PoolNumbers DEF HandOver, At, history, Repos
  <2>2. /\ worker'[w].at = "got" /\ worker'[w].repo = next
        /\ \A v \in Workers : v # w => worker'[v] = worker[v]
    BY <1>7, Moved DEF HandOver, PoolTypes
  <2>3. PoolTypes'
    <3>1. next' \in 1 .. tracked' + 1
      BY <1>0, <2>1
    <3>2. WorkersOK'
      BY <1>7, <2>1 DEF HandOver, PoolTypes, WorkersOK, Move
    <3> QED
      BY <2>1, <3>1, <3>2 DEF PoolTypes
  <2>4. HandsInv'
    <3>1. \A v \in Workers : worker[v].repo # next
      BY <1>0, Held DEF HandsInv, NoRepo
    <3>2. \A v \in Workers : IF worker'[v].at \in Holding THEN worker'[v].repo \in 1 .. next' - 1
                                                          ELSE worker'[v].repo = NoRepo
      BY <1>0, <2>1, <2>2 DEF HandsInv, Holding
    <3>3. \A u, v \in Workers :
            u # v /\ worker'[u].repo # NoRepo => worker'[u].repo # worker'[v].repo
      BY <2>2, <3>1 DEF HandsInv
    <3> QED
      BY <3>2, <3>3 DEF HandsInv
  <2>5. started[next] = 0
    <3>1. Place(next)
      BY <2>1 DEF ReposInv
    <3>2. next >= next
      BY <1>0
    <3> QED
      BY <3>1, <3>2 DEF Place
  <2>6. ProgressInv' /\ PhaseInv'
    BY <1>7, <2>1, <2>2, <2>5 DEF HandOver, ProgressInv, Progress, PhaseInv
  <2>7. ReposInv'
    <3> SUFFICES ASSUME NEW r \in Repos PROVE Place(r)'
      BY DEF ReposInv
    <3>1. r \in Nat /\ (r >= next + 1 => r >= next) /\ (r < next + 1 => r < next \/ r = next)
      BY <1>0 DEF Repos
    <3>2. \A v \in Workers : worker[v].at \in {"work", "got"} => worker'[v] = worker[v]
      BY <2>1, <2>2
    <3>3. Place(r)
      BY DEF ReposInv
    <3> QED
      BY <2>1, <2>2, <3>1, <3>2, <3>3 DEF Place
  <2> QED
    BY <2>3, <2>4, <2>6, <2>7
<1>8. ASSUME NEW w \in Workers, WorkerSeesClose(w) PROVE PoolInv'
  BY <1>8, Release DEF WorkerSeesClose, At, history
<1>9. ASSUME NEW w \in Workers, WorkerSeesCancel(w) PROVE PoolInv'
  BY <1>9, Release DEF WorkerSeesCancel, At, history
<1>10. ASSUME NEW w \in Workers, BeginWork(w) PROVE PoolInv'
  <2> DEFINE r == worker[w].repo
  <2>1. /\ worker[w].at = "got" /\ ~cancelled
        /\ UNCHANGED <<phase, tracked, next, closed, cancelled, ended>>
    BY <1>10 DEF BeginWork, At
  <2>2. /\ worker'[w].at = "work" /\ worker'[w].repo = r
        /\ \A v \in Workers : v # w => worker'[v] = worker[v]
    BY <1>10, Moved DEF BeginWork, PoolTypes
  <2>3. /\ r \in Repos /\ r < next /\ r # NoRepo /\ started[r] = 0 /\ ended[r] = "open"
        /\ \A v \in Workers : v # w => worker[v].repo # r
    <3>1. r \in Repos /\ r < next /\ r # NoRepo /\ \A v \in Workers : v # w => worker[v].repo # r
      BY <2>1, Held DEF Holding
    <3>2. started[r] = 0
      BY <2>1 DEF ProgressInv, Progress
    <3>3. Place(r)
      BY <3>1 DEF ReposInv
    <3> QED
      BY <3>1, <3>2, <3>3 DEF Place
  <2>4. started'[r] = 1 /\ \A q \in Repos : q # r => started'[q] = started[q]
    <3>1. started' = [started EXCEPT ![r] = started[r] + 1]
      BY <1>10 DEF BeginWork
    <3>2. started \in [Repos -> 0 .. 1]
      BY DEF PoolTypes
    <3>3. started' = [started EXCEPT ![r] = 1]
      BY <2>3, <3>1
    <3> QED
      BY <2>3, <3>2, <3>3
  <2>5. PoolTypes'
    <3>1. started' \in [Repos -> 0 .. 1]
      <4>1. started' = [started EXCEPT ![r] = started[r] + 1]
        BY <1>10 DEF BeginWork
      <4>2. started \in [Repos -> 0 .. 1]
        BY DEF PoolTypes
      <4>3. started' = [started EXCEPT ![r] = 1]
        BY <2>3, <4>1
      <4> QED
        BY <2>3, <4>2, <4>3
    <3>2. WorkersOK'
      BY <1>10, <2>3 DEF BeginWork, PoolTypes, WorkersOK, Move
    <3> QED
      BY <2>1, <3>1, <3>2 DEF PoolTypes
  <2>6. HandsInv'
    <3>1. r \in 1 .. next - 1
      BY <2>1 DEF HandsInv, Holding
    <3> QED
      BY <2>1, <2>2, <3>1 DEF HandsInv, Holding
  <2>7. ProgressInv'
    <3> SUFFICES ASSUME NEW v \in Workers PROVE Progress(v)'
      BY DEF ProgressInv
    <3>1. CASE v = w
      BY <2>1, <2>2, <2>3, <2>4, <3>1 DEF Progress
    <3>2. CASE v # w /\ worker[v].at \in Holding
      <4>1. worker[v].repo \in Repos /\ worker[v].repo # r
        BY <3>2, <2>3, Held
      <4> QED
        BY <2>1, <2>2, <2>4, <3>2, <4>1 DEF ProgressInv, Progress
    <3>3. CASE v # w /\ worker[v].at \notin Holding
      BY <2>2, <3>3 DEF Holding, Progress
    <3> QED
      BY <3>1, <3>2, <3>3
  <2>8. ReposInv'
    <3> SUFFICES ASSUME NEW q \in Repos PROVE Place(q)'
      BY DEF ReposInv
    <3>1. CASE q = r
      <4>1. r \in Nat
        BY <1>0, <2>3 DEF Repos
      <4>2. ~(r >= next)
        BY <1>0, <2>3, <4>1
      <4>3. started'[q] # 0 /\ next' = next /\ worker'[w].repo = q
        BY <2>1, <2>2, <2>3, <2>4, <3>1
      <4> QED
        BY <2>2, <2>4, <3>1, <4>2, <4>3 DEF Place
    <3>2. CASE q # r
      <4>1. \A v \in Workers : worker[v].repo = q => worker'[v] = worker[v]
        BY <2>2, <3>2
      <4> QED
        <5>1. Place(q)
          BY DEF ReposInv
        <5> QED
          BY <2>1, <2>4, <3>2, <4>1, <5>1 DEF Place
    <3> QED
      BY <3>1, <3>2
  <2>9. PhaseInv'
    BY <2>1, <2>2 DEF PhaseInv
  <2> QED
    BY <2>5, <2>6, <2>7, <2>8, <2>9
<1>11. ASSUME NEW w \in Workers, WorkSucceeds(w) \/ WorkFails(w) PROVE PoolInv'
  <2> DEFINE r == worker[w].repo
  <2>1. /\ worker[w].at = "work"
        /\ UNCHANGED <<phase, tracked, next, closed, cancelled, started>>
    BY <1>11 DEF WorkSucceeds, WorkFails, At
  <2>2. /\ \/ worker'[w].at = "receive" /\ worker'[w].repo = NoRepo /\ WorkSucceeds(w)
           \/ worker'[w].at = "note" /\ worker'[w].repo = r /\ WorkFails(w)
        /\ \A v \in Workers : v # w => worker'[v] = worker[v]
    BY <1>11, Moved DEF WorkSucceeds, WorkFails, PoolTypes
  <2>3. /\ r \in Repos /\ r < next /\ r # NoRepo /\ started[r] = 1
        /\ \A v \in Workers : v # w => worker[v].repo # r
    BY <2>1, Held DEF ProgressInv, Progress, Holding
  <2>4. /\ ended'[r] = IF worker'[w].at = "note" THEN "error" ELSE "success"
        /\ \A q \in Repos : q # r => ended'[q] = ended[q]
    BY <2>2, <2>3 DEF WorkSucceeds, WorkFails, PoolTypes
  <2>5. PoolTypes'
    <3>1. ended' \in [Repos -> {"open", "success", "error"}]
      BY <1>11, <2>3 DEF WorkSucceeds, WorkFails, PoolTypes
    <3>2. WorkersOK'
      <4>1. \/ worker' = [worker EXCEPT ![w] = [at |-> "receive", repo |-> NoRepo]]
            \/ worker' = [worker EXCEPT ![w] = [at |-> "note", repo |-> r]]
        BY <1>11 DEF WorkSucceeds, WorkFails, Move
      <4> QED
        BY <2>3, <4>1 DEF PoolTypes, WorkersOK
    <3> QED
      BY <2>1, <3>1, <3>2 DEF PoolTypes
  <2>6. HandsInv'
    <3>1. r \in 1 .. next - 1
      BY <2>1 DEF HandsInv, Holding
    <3> QED
      BY <2>1, <2>2, <3>1 DEF HandsInv, Holding
  <2>7. ProgressInv'
    <3> SUFFICES ASSUME NEW v \in Workers PROVE Progress(v)'
      BY DEF ProgressInv
    <3>1. CASE v = w
      BY <2>1, <2>2, <2>3, <2>4, <3>1 DEF Progress
    <3>2. CASE v # w /\ worker[v].at \in Holding
      <4>1. worker[v].repo \in Repos /\ worker[v].repo # r
        BY <3>2, <2>3, Held
      <4> QED
        BY <2>1, <2>2, <2>4, <3>2, <4>1 DEF ProgressInv, Progress
    <3>3. CASE v # w /\ worker[v].at \notin Holding
      BY <2>2, <3>3 DEF Holding, Progress
    <3> QED
      BY <3>1, <3>2, <3>3
  <2>8. ReposInv'
    <3> SUFFICES ASSUME NEW q \in Repos PROVE Place(q)'
      BY DEF ReposInv
    <3>1. CASE q = r
      <4>1. r \in Nat
        BY <1>0, <2>3 DEF Repos
      <4>2. ~(r >= next)
        BY <1>0, <2>3, <4>1
      <4>3. started'[q] = 1 /\ next' = next /\ ended'[q] # "open"
        BY <2>1, <2>3, <2>4, <3>1
      <4> QED
        BY <3>1, <4>2, <4>3 DEF Place
    <3>2. CASE q # r
      <4>1. \A v \in Workers : worker[v].repo = q => worker'[v] = worker[v]
        BY <2>2, <3>2
      <4> QED
        <5>1. Place(q)
          BY DEF ReposInv
        <5> QED
          BY <2>1, <2>4, <3>2, <4>1, <5>1 DEF Place
    <3> QED
      BY <3>1, <3>2
  <2>9. PhaseInv'
    BY <2>1, <2>2 DEF PhaseInv
  <2> QED
    BY <2>5, <2>6, <2>7, <2>8, <2>9
<1>12. ASSUME NEW w \in Workers, NoteFail(w) PROVE PoolInv'
  BY <1>12, Release DEF NoteFail, At, history, Holding
<1>13. CASE Cancel
  <2>1. PoolTypes' /\ HandsInv' /\ ProgressInv' /\ ReposInv'
    BY <1>13, QuietStep DEF Cancel, poolVars, history, PoolTypes
  <2>2. PhaseInv'
    BY <1>13 DEF Cancel, PhaseInv, poolVars, history
  <2> QED
    BY <2>1, <2>2
<1>14. CASE UNCHANGED vars
  <2>1. PoolTypes' /\ HandsInv' /\ ProgressInv' /\ ReposInv'
    BY <1>14, QuietStep DEF vars, poolVars, history, PoolTypes
  <2>2. PhaseInv'
    BY <1>14 DEF vars, PhaseInv, poolVars
  <2> QED
    BY <2>1, <2>2
<1> QED
  BY <1>1, <1>2, <1>3, <1>4, <1>5, <1>6, <1>7, <1>8, <1>9, <1>10, <1>11, <1>12, <1>13, <1>14
     DEF Next, Dispatcher, Worker, Returned

-----------------------------------------------------------------------------
(* Counting the failures                                                    *)

\* The repositories whose failure the counter has seen.
Noted == {r \in Repos : /\ ended[r] = "error"
                        /\ \A w \in Workers : worker[w].at = "note" => worker[w].repo # r}

\* The counter and its sample, which has no repetition and is full unless capped.
CounterInv ==
  /\ failed = Cardinality(Noted)
  /\ names \in Seq(Repos)
  /\ \A i \in 1 .. Len(names) : names[i] \in Noted
  /\ \A i, j \in 1 .. Len(names) : names[i] = names[j] => i = j
  /\ Len(names) = IF failed < MaxNames THEN failed ELSE MaxNames

Results == [success : BOOLEAN, attempted : 0 .. NumRepos, failed : 0 .. NumRepos,
            names : Seq(Repos), unreachable : BOOLEAN,
            err : {"nil", "resolve repos", "failed repos"}]

\* The result repeats the counter.
ResultInv ==
  /\ result \in Results
  /\ phase = "resolve" => failed = 0 /\ names = <<>>
  /\ phase = "deltas" \/ (phase = "returned" /\ Resolved) =>
       result.failed = failed /\ result.names = names
  /\ phase = "returned" /\ Resolved => (result.success <=> failed = 0)

CountInv == CounterInv /\ ResultInv

\* The failed repositories are finitely many, at most as many as were resolved.
LEMMA NotedBound ==
  ASSUME PoolInv
  PROVE  IsFiniteSet(Noted) /\ Cardinality(Noted) \in 0 .. tracked
<1>1. Noted \in SUBSET (1 .. tracked)
  <2> SUFFICES ASSUME NEW r \in Repos, ended[r] = "error" PROVE r \in 1 .. tracked
    BY DEF Noted
  <2>1. started[r] # 0 /\ r < next
    <3>1. Place(r) /\ started \in [Repos -> 0 .. 1]
      BY DEF PoolInv, ReposInv, PoolTypes
    <3>2. r \in Nat /\ next \in Nat
      BY PoolNumbers DEF PoolInv, Repos
    <3> QED
      BY <3>1, <3>2 DEF Place
  <2> QED
    BY <2>1, PoolNumbers DEF PoolInv, Repos
<1>2. IsFiniteSet(1 .. tracked) /\ Cardinality(1 .. tracked) = tracked
  <2>1. tracked \in Int /\ 1 \in Int /\ tracked >= 0
    BY PoolNumbers DEF PoolInv
  <2>2. Cardinality(1 .. tracked) = IF 1 > tracked THEN 0 ELSE tracked - 1 + 1
    BY <2>1, FS_Interval
  <2> QED
    BY <2>1, <2>2, FS_Interval
<1>3. IsFiniteSet(Noted) /\ Cardinality(Noted) <= tracked
  BY <1>1, <1>2, FS_Subset
<1>4. Cardinality(Noted) \in Nat /\ tracked \in Nat
  BY <1>3, FS_CardinalityType, PoolNumbers DEF PoolInv
<1> QED
  BY <1>3, <1>4

\* Steps that neither reach nor leave the place "note" do not change what was noted.
LEMMA NotedSame ==
  ASSUME ended' = ended,
         \A w \in Workers : worker[w].at = "note" \/ worker'[w].at = "note"
                              => worker'[w] = worker[w]
  PROVE  Noted' = Noted
BY DEF Noted

\* NoteFail notes the repository of its worker.
LEMMA NotedGrows ==
  ASSUME PoolInv, NEW w \in Workers, NoteFail(w)
  PROVE  /\ worker[w].repo \in Repos /\ worker[w].repo \notin Noted
         /\ Noted' = Noted \union {worker[w].repo}
<1> DEFINE r == worker[w].repo
<1>1. worker[w].at = "note" /\ UNCHANGED ended
  BY DEF NoteFail, At, history
<1>2. worker'[w].at = "receive" /\ \A v \in Workers : v # w => worker'[v] = worker[v]
  BY Moved DEF NoteFail, PoolInv, PoolTypes
<1>3. r \in Repos /\ \A v \in Workers : v # w => worker[v].repo # r
  BY <1>1, Held DEF Holding
<1>4. ended[r] = "error"
  BY <1>1 DEF PoolInv, ProgressInv, Progress
<1> QED
  BY <1>1, <1>2, <1>3, <1>4 DEF Noted

\* The counter after NoteFail.
LEMMA NoteFailCounts ==
  ASSUME PoolInv, CounterInv, NEW w \in Workers, NoteFail(w)
  PROVE  CounterInv'
<1> DEFINE r == worker[w].repo
<1>1. r \in Repos /\ r \notin Noted /\ Noted' = Noted \union {r}
  BY NotedGrows
<1>2. IsFiniteSet(Noted) /\ Cardinality(Noted) \in Nat /\ failed = Cardinality(Noted)
  <2>1. tracked \in Nat
    BY PoolNumbers DEF PoolInv
  <2> QED
    BY <2>1, NotedBound DEF CounterInv
<1>3. failed' = failed + 1 /\ failed' = Cardinality(Noted')
  <2>1. Cardinality(Noted \union {r}) = Cardinality(Noted) + 1
    BY <1>1, <1>2, FS_AddElement
  <2> QED
    BY <1>1, <1>2, <2>1 DEF NoteFail
<1>4. names' = IF Len(names) < MaxNames THEN Append(names, r) ELSE names
  BY DEF NoteFail
<1>5. /\ names \in Seq(Repos) /\ Len(names) \in Nat
      /\ Len(names) = IF failed < MaxNames THEN failed ELSE MaxNames
      /\ \A i \in 1 .. Len(names) : names[i] \in Noted
      /\ \A i, j \in 1 .. Len(names) : names[i] = names[j] => i = j
  BY DEF CounterInv
<1>6. CASE Len(names) < MaxNames
  <2>1. names' = Append(names, r)
    BY <1>4, <1>6
  <2>2. /\ names' \in Seq(Repos) /\ Len(names') = Len(names) + 1
        /\ names'[Len(names) + 1] = r
        /\ \A i \in 1 .. Len(names) : names'[i] = names[i]
    BY <1>1, <1>5, <2>1
  <2>3. \A i \in 1 .. Len(names') : i \in 1 .. Len(names) \/ i = Len(names) + 1
    BY <1>5, <2>2
  <2>4. \A i \in 1 .. Len(names') : names'[i] \in Noted'
    BY <1>1, <1>5, <2>2, <2>3
  <2>5. \A i, j \in 1 .. Len(names') : names'[i] = names'[j] => i = j
    BY <1>1, <1>5, <2>2, <2>3
  <2>6. Len(names') = IF failed' < MaxNames THEN failed' ELSE MaxNames
    BY <1>2, <1>3, <1>5, <1>6, <2>2, Numbers
  <2> QED
    BY <1>3, <2>2, <2>4, <2>5, <2>6 DEF CounterInv
<1>7. CASE ~(Len(names) < MaxNames)
  <2>1. names' = names
    BY <1>4, <1>7
  <2>2. Len(names') = IF failed' < MaxNames THEN failed' ELSE MaxNames
    BY <1>2, <1>3, <1>5, <1>7, <2>1, Numbers
  <2> QED
    BY <1>1, <1>3, <1>5, <2>1, <2>2 DEF CounterInv
<1> QED
  BY <1>6, <1>7

\* The zero RunResult.
LEMMA NoResultTyped ==
  NoResult \in Results /\ NoResult.failed = 0 /\ NoResult.names = <<>>
BY Numbers DEF NoResult, Results

\* The invariant of the counter holds before the run ...
LEMMA InitCountInv == Init => CountInv
<1> SUFFICES ASSUME Init PROVE CountInv
  OBVIOUS
<1>1. failed = 0 /\ names = <<>> /\ result = NoResult /\ phase = "resolve"
  BY DEF Init
<1>2. Noted = {}
  <2>1. ended = [r \in Repos |-> "open"]
    BY DEF Init
  <2> QED
    BY <2>1 DEF Noted
<1>3. CounterInv
  <2>1. Cardinality(Noted) = 0
    BY <1>2, FS_EmptySet
  <2> QED
    BY <1>1, <2>1, Numbers DEF CounterInv
<1> QED
  BY <1>1, <1>3, NoResultTyped DEF CountInv, ResultInv

\* A step that leaves the counter alone and notes nothing.
LEMMA SameCounter ==
  ASSUME CounterInv, Noted' = Noted, UNCHANGED counterVars
  PROVE  CounterInv'
BY DEF CounterInv, counterVars

\* A step of a worker, during the dispatch or the wait, leaves the result alone.
LEMMA SameResult ==
  ASSUME ResultInv, UNCHANGED <<result, phase>>, phase \in {"dispatch", "wait"}
  PROVE  ResultInv'
BY DEF ResultInv

\* A worker that is somewhere in the pool keeps Run in the dispatch or the wait.
LEMMA WorkerBusy ==
  ASSUME PoolInv, NEW w \in Workers, worker[w].at \notin {"unborn", "done"}
  PROVE  phase \in {"dispatch", "wait"}
BY DEF PoolInv, PoolTypes, PhaseInv

\* ... and every step keeps it.
LEMMA NextCountInv == PoolInv /\ CountInv /\ [Next]_vars => CountInv'
<1> SUFFICES ASSUME PoolInv, CountInv, [Next]_vars PROVE CountInv'
  OBVIOUS
<1> USE DEF CountInv
<1>1. ASSUME NEW unreachable \in BOOLEAN, ResolveFails(unreachable) PROVE CountInv'
  <2>1. CounterInv'
    <3>1. Noted' = Noted
      BY <1>1, NotedSame DEF ResolveFails, poolVars, history
    <3> QED
      BY <1>1, <3>1, SameCounter DEF ResolveFails
  <2>2. result' = [NoResult EXCEPT !.unreachable = unreachable, !.err = "resolve repos"]
        /\ phase' = "returned"
    BY <1>1 DEF ResolveFails
  <2>3. result' \in Results /\ result'.err = "resolve repos"
    BY <2>2, NoResultTyped DEF Results
  <2> QED
    BY <2>1, <2>2, <2>3 DEF ResultInv, Resolved
<1>2. CASE NothingToSync
  <2>1. CounterInv'
    <3>1. Noted' = Noted
      BY <1>2, NotedSame DEF NothingToSync, poolVars, history
    <3> QED
      BY <1>2, <3>1, SameCounter DEF NothingToSync
  <2>2. result' = [NoResult EXCEPT !.success = TRUE] /\ phase' = "returned" /\ phase = "resolve"
        /\ UNCHANGED <<failed, names>>
    BY <1>2 DEF NothingToSync, counterVars
  <2>3. /\ result' \in Results /\ result'.success = TRUE /\ result'.failed = 0
        /\ result'.names = <<>>
    BY <2>2, NoResultTyped DEF Results
  <2>4. failed = 0 /\ names = <<>>
    BY <2>2 DEF ResultInv
  <2> QED
    BY <2>1, <2>2, <2>3, <2>4 DEF ResultInv
<1>3. ASSUME NEW n \in Repos, StartPool(n) PROVE CountInv'
  <2>1. Noted' = Noted
    <3>1. \A w \in Workers : worker[w].at # "note" /\ worker'[w].at # "note"
      BY <1>3 DEF StartPool, PoolInv, PhaseInv
    <3> QED
      BY <1>3, <3>1, NotedSame DEF StartPool, history
  <2>2. CounterInv'
    BY <1>3, <2>1, SameCounter DEF StartPool
  <2>3. ResultInv'
    BY <1>3 DEF StartPool, ResultInv
  <2> QED
    BY <2>2, <2>3
<1>4. CASE CloseJobs \/ PoolDone
  <2>1. CounterInv'
    <3>1. Noted' = Noted
      BY <1>4, NotedSame DEF CloseJobs, PoolDone, poolVars, history
    <3> QED
      BY <1>4, <3>1, SameCounter DEF CloseJobs, PoolDone
  <2>2. ResultInv'
    BY <1>4 DEF CloseJobs, PoolDone, ResultInv
  <2> QED
    BY <2>1, <2>2
<1>5. CASE Snapshot
  <2>1. CounterInv'
    <3>1. Noted' = Noted
      BY <1>5, NotedSame DEF Snapshot, poolVars, history
    <3> QED
      BY <1>5, <3>1, SameCounter DEF Snapshot
  <2>2. /\ result' = [NoResult EXCEPT !.attempted = tracked, !.failed = failed, !.names = names]
        /\ phase' = "deltas" /\ UNCHANGED <<failed, names>>
    BY <1>5 DEF Snapshot, counterVars
  <2>3. tracked \in 0 .. NumRepos /\ failed \in 0 .. NumRepos /\ names \in Seq(Repos)
    <3>1. Cardinality(Noted) \in 0 .. tracked
      BY NotedBound
    <3> QED
      BY <3>1, PoolNumbers DEF PoolInv, CounterInv
  <2>4. result' \in Results /\ result'.failed = failed /\ result'.names = names
    BY <2>2, <2>3 DEF NoResult, Results
  <2> QED
    BY <2>1, <2>2, <2>4 DEF ResultInv
<1>6. CASE Finish
  <2>1. CounterInv'
    <3>1. Noted' = Noted
      BY <1>6, NotedSame DEF Finish, poolVars, history
    <3> QED
      BY <1>6, <3>1, SameCounter DEF Finish
  <2>2. result' = [result EXCEPT !.success = (result.failed = 0),
                     !.err = IF result.failed = 0 THEN "nil" ELSE "failed repos"]
        /\ phase = "deltas" /\ phase' = "returned" /\ UNCHANGED <<failed, names>>
    BY <1>6 DEF Finish, counterVars
  <2>3. result \in Results /\ result.failed = failed /\ result.names = names
    BY <2>2 DEF ResultInv
  <2>4. /\ result' \in Results /\ result'.failed = failed /\ result'.names = names
        /\ result'.success = (failed = 0)
    BY <2>2, <2>3 DEF Results
  <2> QED
    BY <2>1, <2>2, <2>4 DEF ResultInv
<1>7. ASSUME NEW w \in Workers, HandOver(w) \/ WorkerSeesClose(w) \/ WorkerSeesCancel(w) \/ BeginWork(w)
      PROVE CountInv'
  <2>1. /\ worker[w].at \in {"receive", "got"} /\ worker'[w].at # "note"
        /\ \A v \in Workers : v # w => worker'[v] = worker[v]
    BY <1>7, Moved DEF HandOver, WorkerSeesClose, WorkerSeesCancel, BeginWork, PoolInv, PoolTypes, At
  <2>2. UNCHANGED <<ended, result, phase, counterVars>>
    BY <1>7 DEF HandOver, WorkerSeesClose, WorkerSeesCancel, BeginWork, history
  <2>3. Noted' = Noted
    BY <2>1, <2>2, NotedSame
  <2>4. phase \in {"dispatch", "wait"}
    BY <2>1, WorkerBusy
  <2> QED
    BY <2>2, <2>3, <2>4, SameCounter, SameResult
<1>8. ASSUME NEW w \in Workers, WorkSucceeds(w) \/ WorkFails(w) PROVE CountInv'
  <2> DEFINE r == worker[w].repo
  <2>1. /\ worker[w].at = "work" /\ UNCHANGED <<result, phase, counterVars>>
        /\ \/ worker'[w].at = "receive" /\ ended' = [ended EXCEPT ![r] = "success"]
           \/ worker'[w].at = "note" /\ worker'[w].repo = r /\ ended' = [ended EXCEPT ![r] = "error"]
        /\ \A v \in Workers : v # w => worker'[v] = worker[v]
    BY <1>8, Moved DEF WorkSucceeds, WorkFails, PoolInv, PoolTypes, At
  <2>2. r \in Repos /\ ended[r] = "open" /\ ended \in [Repos -> {"open", "success", "error"}]
    BY <2>1, Held DEF Holding, PoolInv, ProgressInv, Progress, PoolTypes
  <2>3. Noted' = Noted
    <3>1. \A q \in Repos : q # r => (q \in Noted' <=> q \in Noted)
      BY <2>1, <2>2 DEF Noted
    <3>2. r \notin Noted /\ r \notin Noted'
      BY <2>1, <2>2 DEF Noted
    <3> QED
      BY <3>1, <3>2 DEF Noted
  <2>4. phase \in {"dispatch", "wait"}
    BY <2>1, WorkerBusy
  <2> QED
    BY <2>1, <2>3, <2>4, SameCounter, SameResult
<1>9. ASSUME NEW w \in Workers, NoteFail(w) PROVE CountInv'
  <2>1. CounterInv'
    BY <1>9, NoteFailCounts
  <2>2. phase \in {"dispatch", "wait"}
    BY <1>9, WorkerBusy DEF NoteFail, At
  <2> QED
    BY <1>9, <2>1, <2>2, SameResult DEF NoteFail
<1>10. CASE Cancel \/ UNCHANGED vars
  <2>1. UNCHANGED <<worker, ended, counterVars, result, phase>>
    BY <1>10 DEF Cancel, vars, poolVars, history
  <2>2. Noted' = Noted
    BY <2>1, NotedSame
  <2>3. ResultInv'
    BY <2>1 DEF ResultInv, Resolved, counterVars
  <2> QED
    BY <2>1, <2>2, <2>3, SameCounter
<1> QED
  BY <1>1, <1>2, <1>3, <1>4, <1>5, <1>6, <1>7, <1>8, <1>9, <1>10
     DEF Next, Dispatcher, Worker, Returned

-----------------------------------------------------------------------------
(* Theorems                                                                 *)

\* Both invariants hold in every state of every run.
LEMMA InvariantAlways == Spec => [](PoolInv /\ CountInv)
<1>1. Init => PoolInv /\ CountInv
  BY InitPoolInv, InitCountInv
<1>2. (PoolInv /\ CountInv) /\ [Next]_vars => (PoolInv /\ CountInv)'
  BY NextPoolInv, NextCountInv
<1> QED
  BY <1>1, <1>2, PTL DEF Spec

\* The locals of Run, the counter, the workers and the history keep their types; in
\* particular failures never outnumber the resolved repositories.
THEOREM TypeCorrect == Spec => []TypeOK
<1>1. PoolInv /\ CountInv => TypeOK
  <2> SUFFICES ASSUME PoolInv, CountInv PROVE TypeOK
    OBVIOUS
  <2>1. failed \in 0 .. tracked /\ names \in Seq(Repos) /\ result \in Results
    BY NotedBound DEF CountInv, CounterInv, ResultInv
  <2> QED
    BY <2>1 DEF PoolInv, PoolTypes, TypeOK, RunFieldsOK, Results
<1> QED
  BY <1>1, InvariantAlways, PTL

\* A repository is with at most one worker and is begun at most once.
THEOREM NoSharing == Spec => []NeverTwoWorkers
<1>1. PoolInv => NeverTwoWorkers
  <2> SUFFICES ASSUME PoolInv PROVE NeverTwoWorkers
    OBVIOUS
  <2>1. \A r \in Repos : started[r] <= 1
    <3>1. started \in [Repos -> 0 .. 1]
      BY DEF PoolInv, PoolTypes
    <3> QED
      BY <3>1
  <2> QED
    BY <2>1 DEF PoolInv, HandsInv, NeverTwoWorkers
<1> QED
  BY <1>1, InvariantAlways, PTL

\* When an uncancelled run returns, every repository was worked once and is done.
THEOREM NothingLost == Spec => []EachRepoOnce
<1>1. PoolInv => EachRepoOnce
  <2> SUFFICES ASSUME PoolInv, phase = "returned", ~cancelled, NEW r \in 1 .. tracked
               PROVE  started[r] = 1 /\ ended[r] # "open"
    BY DEF EachRepoOnce
  <2>1. r \in Repos /\ r < next
    BY PoolNumbers DEF PoolInv, PhaseInv, Repos
  <2>2. Place(r) /\ started \in [Repos -> 0 .. 1]
    BY <2>1 DEF PoolInv, ReposInv, PoolTypes
  <2>3. \A w \in Workers : worker[w].at # "work" /\ worker[w].at # "got"
    BY DEF PoolInv, PhaseInv
  <2> QED
    BY <2>1, <2>2, <2>3 DEF Place
<1> QED
  BY <1>1, InvariantAlways, PTL

\* From the counter's snapshot on no worker works.
THEOREM PoolDrained == Spec => []NoWorkAfterPool
<1>1. PoolInv => NoWorkAfterPool
  BY DEF PoolInv, PhaseInv, NoWorkAfterPool
<1> QED
  BY <1>1, InvariantAlways, PTL

\* The values of a sequence without repetition are as many as its positions.
LEMMA DistinctCount ==
  ASSUME NEW S, NEW s \in Seq(S),
         \A i, j \in 1 .. Len(s) : s[i] = s[j] => i = j
  PROVE  IsFiniteSet(Range(s)) /\ Cardinality(Range(s)) = Len(s)
<1>1. DOMAIN s = 1 .. Len(s) /\ Len(s) \in Nat
  OBVIOUS
<1>2. s \in Bijection(1 .. Len(s), Range(s))
  <2>1. s \in [1 .. Len(s) -> Range(s)]
    BY <1>1 DEF Range
  <2>2. \A y \in Range(s) : \E i \in 1 .. Len(s) : s[i] = y
    BY <1>1 DEF Range
  <2>3. s \in Injection(1 .. Len(s), Range(s))
    BY <1>1, <2>1, Zenon DEF Injection, IsInjective
  <2>4. s \in Surjection(1 .. Len(s), Range(s))
    BY <2>1, <2>2, Zenon DEF Surjection
  <2> QED
    BY <2>3, <2>4, Zenon DEF Bijection
<1>3. IsFiniteSet(1 .. Len(s)) /\ Cardinality(1 .. Len(s)) = Len(s)
  <2>1. Cardinality(1 .. Len(s)) = IF 1 > Len(s) THEN 0 ELSE Len(s) - 1 + 1
    BY <1>1, FS_Interval
  <2> QED
    BY <1>1, <2>1, FS_Interval
<1> QED
  BY <1>2, <1>3, FS_Bijection DEF ExistsBijection

\* The result accounts for every failure, however the workers count.
THEOREM Accounting == Spec => []FailuresAccounted
<1>1. PoolInv /\ CountInv => FailuresAccounted
  <2> SUFFICES ASSUME PoolInv, CountInv, phase = "returned", Resolved
               PROVE  /\ result.failed = Cardinality(FailedRepos)
                      /\ Range(result.names) \subseteq FailedRepos
                      /\ Cardinality(Range(result.names)) = Len(result.names)
                      /\ result.failed <= MaxNames => Range(result.names) = FailedRepos
                      /\ result.failed >= MaxNames => Len(result.names) = MaxNames
                      /\ result.success <=> FailedRepos = {}
    BY DEF FailuresAccounted
  <2>1. FailedRepos = Noted
    <3>1. \A w \in Workers : worker[w].at # "note"
      BY DEF PoolInv, PhaseInv
    <3> QED
      BY <3>1 DEF FailedRepos, Noted
  <2>2. /\ result.failed = failed /\ result.names = names
        /\ result.success <=> failed = 0
    BY DEF CountInv, ResultInv
  <2>3. /\ failed = Cardinality(Noted) /\ names \in Seq(Repos)
        /\ \A i \in 1 .. Len(names) : names[i] \in Noted
        /\ \A i, j \in 1 .. Len(names) : names[i] = names[j] => i = j
        /\ Len(names) = IF failed < MaxNames THEN failed ELSE MaxNames
    BY DEF CountInv, CounterInv
  <2>4. Range(names) \in SUBSET Noted
    BY <2>3 DEF Range
  <2>5. IsFiniteSet(Noted) /\ Cardinality(Noted) \in Nat
    BY NotedBound, PoolNumbers DEF PoolInv
  <2>6. Cardinality(Range(names)) = Len(names)
    BY <2>3, DistinctCount
  <2>7. failed <= MaxNames => Range(names) = Noted
    <3>1. failed <= MaxNames => Len(names) = failed
      BY <2>3, <2>5, Numbers
    <3> QED
      BY <2>3, <2>4, <2>5, <2>6, <3>1, FS_Subset
  <2>8. failed >= MaxNames => Len(names) = MaxNames
    BY <2>3, <2>5, Numbers
  <2>9. failed = 0 <=> Noted = {}
    BY <2>3, <2>5, FS_EmptySet
  <2> QED
    BY <2>1, <2>2, <2>3, <2>4, <2>6, <2>7, <2>8, <2>9
<1> QED
  BY <1>1, InvariantAlways, PTL
=============================================================================
