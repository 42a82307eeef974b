------------------------ MODULE TrafficFreshnessProofs ------------------------
(***************************************************************************)
(* Theorems about TrafficFreshness, for any days, any answers of GitHub    *)
(* and any number of syncs.  StoredIsLatestAnswer is inductive; what a     *)
(* request may say rests on RequestInv: the state a request holds is that  *)
(* of an answer in latest, and so is the coverage it reads after it.       *)
(***************************************************************************)
EXTENDS TrafficFreshness, WellFoundedInduction, TLAPS

\* What TrafficAssumption says of the constants, ready for the provers.
LEMMA Constants ==
  /\ FirstDay \in Nat /\ FirstDay >= 2 /\ LastDay \in Nat /\ FirstDay <= LastDay
  /\ TicksPerDay \in Nat /\ TicksPerDay >= 1 /\ MaxSyncs \in Nat
  /\ \A days \in Reports : days \in SUBSET Days
  /\ Asked \subseteq Metrics
BY TrafficAssumption

\* A timestamp is not the zero time, and its day has a yesterday.
LEMMA TimeFacts ==
  ASSUME NEW t \in Times
  PROVE  t \in Nat /\ t # NoTime /\ Day(t) \in Nat /\ Day(t) >= 2
<1>1. t \in Int /\ t >= FirstDay * TicksPerDay /\ FirstDay * TicksPerDay >= 2 * TicksPerDay
  BY Constants DEF Times
<1>2. t >= 2 * TicksPerDay
  BY <1>1, Constants
<1>3. t \div TicksPerDay >= 2
  BY <1>1, <1>2, Constants
<1> QED
  BY <1>1, <1>2, <1>3, Constants DEF Day, NoTime

\* A set of days that is not empty has a least and a greatest.
LEMMA HasMin ==
  ASSUME NEW S \in SUBSET Nat, S # {}
  PROVE  \E x \in S : \A y \in S : x <= y
<1>1. \E x \in S : \A y \in S : <<y, x>> \notin OpToRel(<, Nat)
  BY NatLessThanWellFounded, WFMin, Zenon
<1>2. \E x \in S : \A y \in S : ~ (y < x)
  BY <1>1, Zenon DEF OpToRel
<1> QED
  BY <1>2

\* The same of the greatest.
LEMMA HasMax ==
  ASSUME NEW S \in SUBSET Days, S # {}
  PROVE  \E x \in S : \A y \in S : x >= y
<1> DEFINE Gap(d) == LastDay - d
           Gaps == {Gap(d) : d \in S}
<1>1. \A d \in S : d \in Nat /\ Gap(d) \in Nat
  BY Constants DEF Days
<1>2. Gaps \in SUBSET Nat /\ Gaps # {}
  BY <1>1
<1>3. PICK g \in Gaps : \A h \in Gaps : g <= h
  BY <1>2, HasMin
<1>4. PICK x \in S : g = Gap(x)
  BY <1>3
<1>5. \A y \in S : Gap(x) <= Gap(y)
  BY <1>3, <1>4
<1> QED
  BY <1>1, <1>4, <1>5, Constants

\* First and Last are days of the set, or NoDay for the empty one.
LEMMA Bounds ==
  ASSUME NEW days \in SUBSET Days
  PROVE  /\ First(days) \in AnyDay /\ Last(days) \in AnyDay
         /\ days # {} => First(days) \in days /\ Last(days) \in days
         /\ First(days) = NoDay <=> days = {}
<1>1. CASE days = {}
  BY <1>1, Constants DEF First, Last, NoDay, AnyDay
<1>2. CASE days # {}
  <2>1. days \in SUBSET Nat
    BY DEF Days
  <2>2. Min(days) \in days
    BY <1>2, <2>1, HasMin DEF Min
  <2>3. Max(days) \in days
    BY <1>2, HasMax DEF Max
  <2> QED
    <3>1. First(days) = Min(days) /\ Last(days) = Max(days)
      BY <1>2 DEF First, Last
    <3>2. Min(days) \in Days /\ Max(days) \in Days
      BY <2>2, <2>3
    <3>3. \A d \in Days : d \in AnyDay /\ d # NoDay
      BY Constants DEF Days, AnyDay, NoDay
    <3> QED
      BY <1>2, <2>2, <2>3, <3>1, <3>2, <3>3
<1> QED
  BY <1>1, <1>2

-----------------------------------------------------------------------------
(* Types *)

\* The now of a sync in progress is a timestamp, not the zero time.
NowInv == sync.at # "idle" => sync.now \in Times

\* The initial state has the types.
LEMMA InitTypes == Init => TypeOK /\ NowInv
<1> SUFFICES ASSUME Init PROVE TypeOK /\ NowInv
  OBVIOUS
<1>1. FirstDay * TicksPerDay \in Times
  <2>1. /\ FirstDay * TicksPerDay \in Int /\ LastDay * TicksPerDay \in Int
        /\ FirstDay * TicksPerDay <= LastDay * TicksPerDay
    BY Constants
  <2> QED
    BY <2>1 DEF Times
<1>2. NoTime \in AnyTime /\ NoDay \in AnyDay /\ NoSync \in Numbers /\ 0 \in Numbers
  BY Constants DEF AnyTime, AnyDay, Numbers, NoDay, NoSync
<1>3. NeverState \in States
  BY <1>2 DEF NeverState, States
<1>4. NoAnswer \in Answers
  BY <1>2 DEF NoAnswer, Answers
<1>5. NoRequest \in Requests
  BY <1>2, <1>3 DEF NoRequest, Requests, Metrics, Statuses
<1>6. sync \in Syncs /\ NowInv
  BY <1>2 DEF Init, Syncs, NowInv
<1> QED
  BY <1>1, <1>2, <1>3, <1>4, <1>5, <1>6 DEF Init, TypeOK

\* Passing to the next metric keeps the types of the sync.
LEMMA NextMetricTypes ==
  ASSUME TypeOK, NowInv, NEW m \in Metrics, NEW e \in SUBSET Metrics, NextMetric(m, e)
  PROVE  sync' \in Syncs /\ NowInv' /\ sync.now \in Times /\ sync.number \in Numbers
<1>1. sync \in Syncs /\ sync.at = m /\ m # "idle" /\ sync.at # "idle"
  BY DEF TypeOK, NextMetric, Metrics
<1>2. sync.now \in Times /\ sync.number \in Numbers
  BY <1>1 DEF NowInv, Syncs
<1>3. sync' = [sync EXCEPT !.at = IF m = "views" THEN "clones" ELSE "returned",
                           !.errs = @ \union e]
  BY DEF NextMetric
<1> QED
  BY <1>1, <1>2, <1>3 DEF Syncs, NowInv, AnyTime

\* Storing an answer keeps the types.
LEMMA StoredTypes ==
  ASSUME TypeOK, NowInv, NEW m \in Metrics, NEW days \in Reports, Stored(m, days)
  PROVE  TypeOK' /\ NowInv'
<1>1. days \in SUBSET Days
  BY Constants
<1>2. sync' \in Syncs /\ NowInv' /\ sync.now \in Times /\ sync.number \in Numbers
  BY NextMetricTypes DEF Stored
<1>3. First(days) \in AnyDay /\ Last(days) \in AnyDay
  BY <1>1, Bounds
<1>4. row' \in [Metrics -> [Days -> Numbers]]
  <2>1. row \in [Metrics -> [Days -> Numbers]]
    BY DEF TypeOK
  <2>2. [d \in Days |-> IF d \in days THEN sync.number ELSE row[m][d]] \in [Days -> Numbers]
    BY <1>2, <2>1
  <2> QED
    BY <2>1, <2>2 DEF Stored, RecordSuccess
<1>5. coverage' \in [Metrics -> SUBSET Coverage]
  <2>1. {[date |-> d, seen |-> sync.now] : d \in days} \in SUBSET Coverage
    BY <1>1, <1>2 DEF Coverage
  <2>2. coverage \in [Metrics -> SUBSET Coverage]
    BY DEF TypeOK
  <2> QED
    BY <2>1, <2>2 DEF Stored, RecordSuccess, ClearCoverage
<1>6. state' \in [Metrics -> States]
  <2>1. [at |-> sync.now, observed |-> Last(days), from |-> First(days), to |-> Last(days),
         status |-> "success"] \in States
    BY <1>2, <1>3 DEF States, AnyTime
  <2> QED
    BY <2>1 DEF Stored, RecordSuccess, TypeOK
<1>7. answer' \in [Metrics -> Answers]
  <2>1. [sync |-> sync.number, days |-> days, at |-> sync.now] \in Answers
    BY <1>1, <1>2 DEF Answers, AnyTime
  <2> QED
    BY <2>1 DEF Stored, RecordSuccess, TypeOK
<1>8. latest' \subseteq Answers
  BY <1>7 DEF Stored, RecordSuccess, LatestFor, TypeOK
<1> QED
  BY <1>2, <1>4, <1>5, <1>6, <1>7, <1>8 DEF TypeOK, Stored

\* Finishing a task of a request keeps the types.
LEMMA FinishTypes ==
  ASSUME TypeOK, NEW task \in {"chart", "freshness"}, NEW r \in Requests, Finish(task, r)
  PROVE  TypeOK'
<1>1. NeverState \in States
  BY Constants DEF NeverState, States, AnyTime, AnyDay, NoDay
<1>2. request' \in Requests
  BY <1>1 DEF Finish, Requests
<1> QED
  BY <1>2 DEF Finish, TypeOK, stored

\* Every step keeps the types.
LEMMA NextTypes == TypeOK /\ NowInv /\ [Next]_vars => (TypeOK /\ NowInv)'
<1> SUFFICES ASSUME TypeOK, NowInv, [Next]_vars PROVE TypeOK' /\ NowInv'
  OBVIOUS
<1>1. CASE Tick
  BY <1>1 DEF Tick, TypeOK, NowInv, stored
<1>2. CASE Begin
  <2>1. sync' \in Syncs /\ NowInv'
    <3>1. sync.number + 1 \in Numbers
      BY <1>2, Constants DEF Begin, TypeOK, Syncs, Numbers
    <3> QED
      BY <1>2, <3>1 DEF Begin, TypeOK, Syncs, NowInv, AnyTime
  <2> QED
    BY <1>2, <2>1 DEF Begin, TypeOK, stored
<1>3. CASE \E m \in Metrics, days \in Reports : Stored(m, days)
  BY <1>3, StoredTypes
<1>4. CASE \E m \in Metrics : NotStored(m)
  <2>1. PICK m \in Metrics : NotStored(m)
    BY <1>4
  <2>2. sync' \in Syncs /\ NowInv'
    BY <2>1, NextMetricTypes DEF NotStored
  <2> QED
    BY <2>1, <2>2 DEF NotStored, TypeOK, stored
<1>5. CASE \E m \in Metrics : FetchFails(m)
  <2>1. PICK m \in Metrics : FetchFails(m)
    BY <1>5
  <2>2. sync' \in Syncs /\ NowInv'
    BY <2>1, NextMetricTypes DEF FetchFails
  <2>3. state' \in [Metrics -> States]
    <3>1. state[m] \in States
      BY DEF TypeOK
    <3>2. [state[m] EXCEPT !.status = "failed"] \in States
      BY <3>1 DEF States
    <3> QED
      BY <2>1, <3>2 DEF FetchFails, TypeOK
  <2> QED
    BY <2>1, <2>2, <2>3 DEF FetchFails, TypeOK
<1>6. CASE Return
  BY <1>6 DEF Return, TypeOK, NowInv, Syncs, stored
<1>7. CASE Crash \/ Reply
  <2>1. NoRequest \in Requests
    BY Constants DEF NoRequest, Requests, NeverState, States, AnyTime, AnyDay, NoDay, Metrics,
                     Statuses
  <2>2. sync' \in Syncs /\ NowInv'
    BY <1>7 DEF Crash, Reply, TypeOK, Syncs, NowInv
  <2> QED
    BY <1>7, <2>1, <2>2 DEF Crash, Reply, TypeOK, stored
<1>8. CASE \E m \in Asked : ReadRows(m)
  <2>1. PICK m \in Metrics : ReadRows(m)
    BY <1>8, Constants
  <2>2. request' \in Requests
    <3>1. NoRequest \in Requests
      BY Constants DEF NoRequest, Requests, NeverState, States, AnyTime, AnyDay, NoDay, Metrics,
                       Statuses
    <3>2. clock \in AnyTime /\ {d \in Days : row[m][d] # NoSync} \in SUBSET Days
      BY DEF TypeOK, AnyTime
    <3> DEFINE r == [NoRequest EXCEPT !.at = "between", !.metric = m, !.began = clock,
                                      !.todo = {"chart", "freshness"},
                                      !.rows = {d \in Days : row[m][d] # NoSync}]
    <3>3. r \in Requests
      <4> HIDE DEF NoRequest
      <4> QED
        BY <3>1, <3>2 DEF Requests
    <3> QED
      BY <2>1, <3>3 DEF ReadRows
  <2>3. answer[m] \in Answers
    BY DEF TypeOK
  <2> QED
    BY <2>1, <2>2, <2>3 DEF ReadRows, TypeOK, NowInv, stored
<1>9. CASE \E task \in {"chart", "freshness"}, now \in Times : ReadState(task, now)
  <2>1. PICK task \in {"chart", "freshness"}, now \in Times : ReadState(task, now)
    BY <1>9
  <2>2. request \in Requests /\ state[request.metric] \in States
    BY DEF TypeOK, Requests
  <2>3. request' \in Requests
    BY <2>1, <2>2 DEF ReadState, Requests, AnyTime
  <2> QED
    BY <2>1, <2>3 DEF ReadState, TypeOK, NowInv, stored
<1>10. CASE FilterRows
  <2> DEFINE kept == {d \in request.rows :
                        ((request.st.at # NoTime /\ request.st.from # NoDay)
                           /\ d \in request.st.from .. request.st.to) => d \in CoverageDates}
  <2>1. request \in Requests /\ request.rows \in SUBSET Days
    BY DEF TypeOK, Requests
  <2>2. [request EXCEPT !.chart = kept] \in Requests
    BY <2>1 DEF Requests
  <2>3. Finish("chart", [request EXCEPT !.chart = kept])
    BY <1>10 DEF FilterRows
  <2>4. TypeOK'
    BY <2>2, <2>3, FinishTypes
  <2> QED
    BY <2>3, <2>4 DEF Finish, NowInv
<1>11. CASE JudgeFreshness
  <2>1. Status \in Statuses
    BY DEF Status, Statuses
  <2>2. [request EXCEPT !.status = Status] \in Requests
    BY <2>1 DEF TypeOK, Requests
  <2>3. Finish("freshness", [request EXCEPT !.status = Status])
    BY <1>11 DEF JudgeFreshness
  <2>4. TypeOK'
    BY <2>2, <2>3, FinishTypes
  <2> QED
    BY <2>3, <2>4 DEF Finish, NowInv
<1>12. CASE UNCHANGED vars
  BY <1>12 DEF vars, stored, TypeOK, NowInv
<1> QED
  BY <1>1, <1>2, <1>3, <1>4, <1>5, <1>6, <1>7, <1>8, <1>9, <1>10, <1>11, <1>12
  DEF Next, Sync, Request

\* The types hold in every reachable state.
LEMMA TypesAlways == Spec => [](TypeOK /\ NowInv)
<1> QED
  BY InitTypes, NextTypes, PTL DEF Spec

\* The tables, the sync and the request keep their types.
THEOREM TypeCorrect == Spec => []TypeOK
<1> QED
  BY TypesAlways, PTL

-----------------------------------------------------------------------------
(* What is stored *)

\* StoredIsLatestAnswer for one metric.
StoredFor(m) ==
  /\ coverage[m] = {[date |-> d, seen |-> answer[m].at] : d \in answer[m].days}
  /\ state[m].at = answer[m].at
  /\ state[m].from = First(answer[m].days)
  /\ state[m].to = Last(answer[m].days) /\ state[m].observed = Last(answer[m].days)
  /\ \A d \in answer[m].days : row[m][d] = answer[m].sync

\* StoredIsLatestAnswer, metric by metric.
LEMMA StoredForAll == StoredIsLatestAnswer <=> \A m \in Metrics : StoredFor(m)
BY DEF StoredIsLatestAnswer, StoredFor

\* A step is a new answer for one metric, a failure for one metric, or leaves the tables.
LEMMA StoredSteps ==
  ASSUME [Next]_vars
  PROVE  \/ \E m \in Metrics, days \in Reports : Stored(m, days)
         \/ \E m \in Metrics : FetchFails(m)
         \/ UNCHANGED stored
BY DEF Next, Tick, Sync, Begin, NotStored, Return, Crash, Request, ReadRows, ReadState,
       FilterRows, JudgeFreshness, Finish, Reply, vars

\* What RecordSuccess leaves: the new answer's for m, the earlier for the other metric.
LEMMA RecordedAnswer ==
  ASSUME TypeOK, NEW m \in Metrics, NEW days \in SUBSET Days, RecordSuccess(m, days)
  PROVE  /\ StoredFor(m)'
         /\ answer'[m] = [sync |-> sync.number, days |-> days, at |-> sync.now]
         /\ state'[m].status = "success"
         /\ \A k \in Metrics \ {m} : /\ row'[k] = row[k] /\ coverage'[k] = coverage[k]
                                     /\ state'[k] = state[k] /\ answer'[k] = answer[k]
<1>1. /\ row \in [Metrics -> [Days -> Numbers]] /\ coverage \in [Metrics -> SUBSET Coverage]
      /\ state \in [Metrics -> States] /\ answer \in [Metrics -> Answers]
  BY DEF TypeOK
<1>2. answer'[m] = [sync |-> sync.number, days |-> days, at |-> sync.now]
  BY <1>1 DEF RecordSuccess
<1>3. coverage'[m] = {[date |-> d, seen |-> sync.now] : d \in days}
  BY <1>1 DEF RecordSuccess, ClearCoverage
<1>4. state'[m] = [at |-> sync.now, observed |-> Last(days), from |-> First(days),
                   to |-> Last(days), status |-> "success"]
  BY <1>1 DEF RecordSuccess
<1>5. \A d \in days : row'[m][d] = sync.number
  BY <1>1 DEF RecordSuccess
<1>6. StoredFor(m)'
  BY <1>2, <1>3, <1>4, <1>5 DEF StoredFor, First, Last
<1>7. \A k \in Metrics \ {m} : /\ row'[k] = row[k] /\ coverage'[k] = coverage[k]
                              /\ state'[k] = state[k] /\ answer'[k] = answer[k]
  BY <1>1 DEF RecordSuccess
<1> QED
  BY <1>2, <1>4, <1>6, <1>7

\* What FetchFails leaves: all but the metric's status.
LEMMA FailedKeepsAnswer ==
  ASSUME TypeOK, NEW m \in Metrics, FetchFails(m)
  PROVE  /\ row' = row /\ coverage' = coverage /\ answer' = answer
         /\ \A k \in Metrics \ {m} : state'[k] = state[k]
         /\ state'[m] = [state[m] EXCEPT !.status = "failed"]
<1>1. state \in [Metrics -> States]
  BY DEF TypeOK
<1> QED
  BY <1>1 DEF FetchFails

\* Every step keeps what is stored in agreement with the latest answer.
LEMMA StoredForNext ==
  TypeOK /\ StoredIsLatestAnswer /\ [Next]_vars => StoredIsLatestAnswer'
<1> SUFFICES ASSUME TypeOK, StoredIsLatestAnswer, [Next]_vars,
                    NEW k \in Metrics
             PROVE  StoredFor(k)'
  BY DEF StoredIsLatestAnswer, StoredFor
<1>0. StoredFor(k)
  BY StoredForAll
<1>1. CASE \E m \in Metrics, days \in Reports : Stored(m, days)
  <2>1. PICK m \in Metrics, days \in Reports : Stored(m, days)
    BY <1>1
  <2>2. days \in SUBSET Days /\ RecordSuccess(m, days)
    BY <2>1, Constants DEF Stored
  <2>3. CASE k = m
    BY <2>2, <2>3, RecordedAnswer
  <2>4. CASE k # m
    <3>1. /\ row'[k] = row[k] /\ coverage'[k] = coverage[k]
          /\ state'[k] = state[k] /\ answer'[k] = answer[k]
      BY <2>2, <2>4, RecordedAnswer
    <3> QED
      BY <1>0, <3>1 DEF StoredFor, First, Last
  <2> QED
    BY <2>3, <2>4
<1>2. CASE \E m \in Metrics : FetchFails(m)
  <2>1. PICK m \in Metrics : FetchFails(m)
    BY <1>2
  <2>2. /\ row' = row /\ coverage' = coverage /\ answer' = answer
        /\ k # m => state'[k] = state[k]
        /\ k = m => state'[k] = [state[k] EXCEPT !.status = "failed"]
    BY <2>1, FailedKeepsAnswer
  <2>3. state[k] \in States
    BY DEF TypeOK
  <2>4. /\ state'[k].at = state[k].at /\ state'[k].from = state[k].from
        /\ state'[k].to = state[k].to /\ state'[k].observed = state[k].observed
    BY <2>2, <2>3 DEF States
  <2> QED
    BY <1>0, <2>2, <2>4 DEF StoredFor, First, Last
<1>3. CASE UNCHANGED stored
  BY <1>0, <1>3 DEF StoredFor, stored, First, Last
<1> QED
  BY <1>1, <1>2, <1>3, StoredSteps

\* Nothing is stored and nothing was answered at the beginning.
LEMMA StoredForInit == Init => StoredIsLatestAnswer
<1> SUFFICES ASSUME Init, NEW m \in Metrics PROVE StoredFor(m)
  BY DEF StoredIsLatestAnswer, StoredFor
<1>1. answer[m] = NoAnswer /\ state[m] = NeverState /\ coverage[m] = {}
  BY DEF Init
<1>2. First({}) = NoDay /\ Last({}) = NoDay
  BY DEF First, Last
<1> QED
  BY <1>1, <1>2 DEF StoredFor, NoAnswer, NeverState

\* Coverage, span and counts of a metric are always those of its latest stored answer:
\* no failure and no crash between two transactions mixes two of them.
THEOREM StoredAgrees == Spec => []StoredIsLatestAnswer
<1> QED
  BY StoredForInit, StoredForNext, TypesAlways, PTL DEF Spec

-----------------------------------------------------------------------------
(* A sync without errors *)

\* The running sync has stored its answer for m.
StoredNow(m) == state[m].status = "success" /\ answer[m].sync = sync.number

SyncInv ==
  /\ sync.at = "clones" /\ "views" \notin sync.errs => StoredNow("views")
  /\ sync.at = "returned" => \A m \in Metrics : m \notin sync.errs => StoredNow(m)
  /\ sync.at = "views" => sync.errs = {}

\* Every step keeps what a sync has stored so far.
LEMMA SyncNext == TypeOK /\ SyncInv /\ [Next]_vars => SyncInv'
<1> SUFFICES ASSUME TypeOK, SyncInv, [Next]_vars PROVE SyncInv'
  OBVIOUS
<1>0. /\ state \in [Metrics -> States] /\ answer \in [Metrics -> Answers] /\ sync \in Syncs
      /\ Metrics = {"views", "clones"}
  BY DEF TypeOK, Metrics
<1>a. ASSUME NEW m \in Metrics, NEW e \in SUBSET {m}, NextMetric(m, e),
             \A k \in Metrics \ {m} : state'[k] = state[k] /\ answer'[k] = answer[k],
             m \notin e => state'[m].status = "success" /\ answer'[m].sync = sync.number
      PROVE  SyncInv'
  <2>1. /\ sync.at = m /\ sync'.number = sync.number
        /\ sync'.at = IF m = "views" THEN "clones" ELSE "returned"
        /\ sync'.errs = sync.errs \union e
    BY <1>0, <1>a DEF NextMetric, Syncs
  <2>2. CASE m = "views"
    BY <1>0, <1>a, <2>1, <2>2 DEF SyncInv, StoredNow
  <2>3. CASE m = "clones"
    <3>1. "views" \notin sync'.errs => StoredNow("views")'
      BY <1>0, <1>a, <2>1, <2>3 DEF SyncInv, StoredNow
    <3>2. "clones" \notin sync'.errs => StoredNow("clones")'
      BY <1>a, <2>1, <2>3 DEF StoredNow
    <3> QED
      BY <1>0, <2>1, <2>3, <3>1, <3>2 DEF SyncInv
  <2> QED
    BY <1>0, <2>2, <2>3
<1>1. CASE \E m \in Metrics, days \in Reports : Stored(m, days)
  <2>1. PICK m \in Metrics, days \in Reports : Stored(m, days)
    BY <1>1
  <2>2. days \in SUBSET Days /\ RecordSuccess(m, days) /\ NextMetric(m, {})
    BY <2>1, Constants DEF Stored
  <2>3. answer'[m] = [sync |-> sync.number, days |-> days, at |-> sync.now]
    BY <2>2, RecordedAnswer
  <2>4. answer'[m].sync = sync.number
    BY <2>3
  <2>5. /\ state'[m].status = "success"
        /\ \A k \in Metrics \ {m} : state'[k] = state[k] /\ answer'[k] = answer[k]
    BY <2>2, RecordedAnswer
  <2> QED
    BY <2>2, <2>4, <2>5, <1>a
<1>2. CASE \E m \in Metrics : NotStored(m)
  <2>1. PICK m \in Metrics : NotStored(m)
    BY <1>2
  <2>2. NextMetric(m, {m}) /\ state' = state /\ answer' = answer
    BY <2>1 DEF NotStored, stored
  <2> QED
    BY <2>2, <1>a
<1>3. CASE \E m \in Metrics : FetchFails(m)
  <2>1. PICK m \in Metrics : FetchFails(m)
    BY <1>3
  <2>2. NextMetric(m, {m})
    BY <2>1 DEF FetchFails
  <2> QED
    BY <2>1, <2>2, FailedKeepsAnswer, <1>a
<1>4. CASE Begin \/ Return \/ Crash
  BY <1>0, <1>4 DEF Begin, Return, Crash, SyncInv, StoredNow, Syncs, stored
<1>5. CASE Tick \/ Request \/ UNCHANGED vars
  <2>1. sync' = sync /\ state' = state /\ answer' = answer
    BY <1>5 DEF Tick, Request, ReadRows, ReadState, FilterRows, JudgeFreshness, Finish, Reply,
                vars, stored
  <2> QED
    BY <2>1 DEF SyncInv, StoredNow
<1> QED
  BY <1>1, <1>2, <1>3, <1>4, <1>5 DEF Next, Sync

\* A sync that returns no error has stored an answer of its own for both metrics.
THEOREM CleanSyncsStored == Spec => []CleanSyncStored
<1>1. Init => SyncInv
  BY DEF Init, SyncInv
<1>2. SyncInv => CleanSyncStored
  BY DEF SyncInv, CleanSyncStored, StoredNow
<1> QED
  BY <1>1, <1>2, SyncNext, TypesAlways, PTL DEF Spec

-----------------------------------------------------------------------------
(* What a request may say *)

\* Only "no answer" has the number and the timestamp zero.
RealAnswer(a) == a.sync = NoSync \/ a.at = NoTime => a.days = {}

AnswerInv ==
  /\ sync.at # "idle" => sync.number # NoSync
  /\ \A m \in Metrics : RealAnswer(answer[m])
  /\ \A a \in latest : RealAnswer(a)

\* At the beginning there is no answer.
LEMMA AnswerInit == Init => AnswerInv
BY DEF Init, AnswerInv, RealAnswer, NoAnswer

\* Every step keeps the answers real.
LEMMA AnswerNext == TypeOK /\ NowInv /\ AnswerInv /\ [Next]_vars => AnswerInv'
<1> SUFFICES ASSUME TypeOK, NowInv, AnswerInv, [Next]_vars PROVE AnswerInv'
  OBVIOUS
<1>0. sync \in Syncs /\ request \in Requests
  BY DEF TypeOK
<1>1. CASE \E m \in Metrics, days \in Reports : Stored(m, days)
  <2>1. PICK m \in Metrics, days \in Reports : Stored(m, days)
    BY <1>1
  <2>2. days \in SUBSET Days /\ RecordSuccess(m, days) /\ NextMetric(m, {})
    BY <2>1, Constants DEF Stored
  <2>3. sync.now \in Times /\ sync'.number = sync.number /\ sync.number # NoSync
    BY <1>0, <2>2 DEF NextMetric, Syncs, Metrics, NowInv, AnswerInv
  <2>4. sync.now # NoTime
    BY <2>3, TimeFacts
  <2>5. answer'[m] = [sync |-> sync.number, days |-> days, at |-> sync.now]
    BY <2>2, RecordedAnswer
  <2>6. RealAnswer(answer'[m])
    BY <2>3, <2>4, <2>5 DEF RealAnswer
  <2>7. \A k \in Metrics : RealAnswer(answer'[k])
    <3>1. \A k \in Metrics \ {m} : answer'[k] = answer[k]
      BY <2>2, RecordedAnswer
    <3> QED
      BY <2>6, <3>1 DEF AnswerInv
  <2>8. \A a \in latest' : RealAnswer(a)
    BY <2>2, <2>6 DEF RecordSuccess, LatestFor, AnswerInv
  <2> QED
    BY <2>3, <2>7, <2>8 DEF AnswerInv, RealAnswer
<1>2. CASE \E m \in Metrics : NotStored(m) \/ FetchFails(m)
  <2>1. sync.at # "idle" /\ sync'.number = sync.number /\ answer' = answer /\ latest' = latest
    BY <1>0, <1>2 DEF NotStored, FetchFails, NextMetric, Syncs, Metrics, stored
  <2> QED
    BY <2>1 DEF AnswerInv, RealAnswer
<1>3. CASE Begin
  <2>1. sync'.number # NoSync /\ answer' = answer /\ latest' = latest
    BY <1>0, <1>3, Constants DEF Begin, Syncs, Numbers, NoSync, stored
  <2> QED
    BY <2>1 DEF AnswerInv, RealAnswer
<1>4. CASE Return \/ Crash
  <2>1. sync'.at = "idle" /\ answer' = answer /\ latest' \in {latest, {}}
    BY <1>0, <1>4 DEF Return, Crash, Syncs, stored
  <2> QED
    BY <2>1 DEF AnswerInv, RealAnswer
<1>5. CASE \E m \in Asked : ReadRows(m)
  <2>1. PICK m \in Metrics : ReadRows(m)
    BY <1>5, Constants
  <2>2. sync' = sync /\ answer' = answer /\ latest' = {answer[m]}
    BY <2>1 DEF ReadRows, stored
  <2> QED
    BY <2>2 DEF AnswerInv, RealAnswer
<1>6. CASE \/ \E task \in {"chart", "freshness"}, now \in Times : ReadState(task, now)
           \/ FilterRows \/ JudgeFreshness \/ Reply \/ Tick \/ UNCHANGED vars
  <2>1. sync' = sync /\ answer' = answer /\ latest' \in {latest, {}}
    BY <1>6 DEF ReadState, FilterRows, JudgeFreshness, Finish, Reply, Tick, vars, stored
  <2> QED
    BY <2>1 DEF AnswerInv, RealAnswer
<1> QED
  BY <1>1, <1>2, <1>3, <1>4, <1>5, <1>6 DEF Next, Sync, Request

\* State st is that of answer a.
StateOf(st, a) ==
  /\ st.at = a.at /\ st.from = First(a.days)
  /\ st.to = Last(a.days) /\ st.observed = Last(a.days)

\* What the properties say of a finished request, each from the step that finishes it.
ChartConfirmed ==
  \A d \in request.chart : \E a \in latest : d \in a.days \/ d \notin First(a.days) .. Last(a.days)
FreshTrue ==
  request.status = "fresh" =>
    LET yesterday == Day(request.now) - 1 IN
    \E a, b \in latest : /\ a.at = b.at /\ Reaches(a, yesterday)
                         /\ Gapless(b, Min(a.days), yesterday)
QuietRows == \A a \in latest : latest = {a} => a.days \subseteq request.rows
QuietChart == \A a \in latest : latest = {a} => a.days \subseteq request.chart
QuietStatus ==
  \A a \in latest : latest = {a} =>
    (request.status = "missing" => \E d \in First(a.days) .. Day(request.now) - 1 : d \notin a.days)

RequestInv ==
  request.at # "idle" =>
    /\ answer[request.metric] \in latest
    /\ QuietRows
    /\ request.at \in {"chart", "freshness"} => \E a \in latest : StateOf(request.st, a)
    /\ request.at = "freshness" => request.now \in Times
    /\ "chart" \notin request.todo => ChartConfirmed /\ QuietChart
    /\ "freshness" \notin request.todo => FreshTrue /\ QuietStatus

\* A commit may add an answer; it takes nothing from what a request has established.
LEMMA AnotherAnswer ==
  ASSUME RequestInv, request' = request, latest \subseteq latest',
         request.at # "idle" => answer'[request.metric] \in latest'
  PROVE  RequestInv'
<1> SUFFICES ASSUME request.at # "idle" PROVE RequestInv'
  BY DEF RequestInv
<1>1. latest # {} /\ \A a : latest' = {a} => latest = {a}
  BY DEF RequestInv
<1>2. QuietRows'
  BY <1>1 DEF RequestInv, QuietRows
<1>3. (\E a \in latest : StateOf(request.st, a)) => \E a \in latest' : StateOf(request'.st, a)
  OBVIOUS
<1>4. ChartConfirmed => ChartConfirmed'
  BY DEF ChartConfirmed, First, Last
<1>5. QuietChart => QuietChart'
  BY <1>1 DEF QuietChart
<1>6. FreshTrue => FreshTrue'
  BY DEF FreshTrue, Reaches, Gapless, Day
<1>7. QuietStatus => QuietStatus'
  BY <1>1 DEF QuietStatus, First, Day
<1>8. (\E a \in latest : StateOf(request.st, a)) => (\E a \in latest : StateOf(request.st, a))'
  BY <1>3 DEF StateOf, First, Last
<1> QED
  BY <1>2, <1>4, <1>5, <1>6, <1>7, <1>8 DEF RequestInv

\* A request begins with the rows of the answer that is the latest.
LEMMA AfterReadRows ==
  ASSUME TypeOK, AnswerInv, StoredIsLatestAnswer, NEW m \in Metrics, ReadRows(m)
  PROVE  RequestInv'
<1>1. /\ request'.at = "between" /\ request'.metric = m /\ request'.todo = {"chart", "freshness"}
      /\ request'.rows = {d \in Days : row[m][d] # NoSync}
      /\ latest' = {answer[m]} /\ answer' = answer
  BY DEF ReadRows, NoRequest, stored
<1>2. answer[m].days \in SUBSET Days
  BY DEF TypeOK, Answers
<1>3. \A d \in answer[m].days : row[m][d] # NoSync
  BY StoredForAll DEF StoredFor, AnswerInv, RealAnswer
<1>4. QuietRows'
  BY <1>1, <1>2, <1>3 DEF QuietRows
<1> QED
  BY <1>1, <1>4 DEF RequestInv

\* The state a request reads is that of the answer that is the latest.
LEMMA AfterReadState ==
  ASSUME TypeOK, RequestInv, StoredIsLatestAnswer,
         NEW task \in {"chart", "freshness"}, NEW now \in Times, ReadState(task, now)
  PROVE  RequestInv'
<1> DEFINE m == request.metric
<1>0. request \in Requests /\ m \in Metrics /\ request.at # "idle"
  BY DEF TypeOK, Requests, ReadState
<1>1. /\ request'.at = task /\ request'.metric = m /\ request'.todo = request.todo
      /\ request'.rows = request.rows /\ request'.st = state[m]
      /\ request'.chart = request.chart /\ request'.status = request.status
      /\ latest' = latest /\ answer' = answer
  BY <1>0 DEF ReadState, Requests, stored
<1>2. /\ task = "freshness" => request'.now = now
      /\ "freshness" \notin request.todo => request'.now = request.now
  BY <1>0 DEF ReadState, Requests
<1>3. answer[m] \in latest /\ StateOf(state[m], answer[m])
  BY <1>0, StoredForAll DEF StoredFor, StateOf, RequestInv
<1>4. (\E a \in latest : StateOf(request.st, a))'
  BY <1>1, <1>3 DEF StateOf, First, Last
<1>5. QuietRows'
  BY <1>0, <1>1 DEF RequestInv, QuietRows
<1>6. "chart" \notin request.todo => ChartConfirmed' /\ QuietChart'
  BY <1>0, <1>1 DEF RequestInv, ChartConfirmed, QuietChart, First, Last
<1>7. "freshness" \notin request.todo => FreshTrue' /\ QuietStatus'
  BY <1>0, <1>1, <1>2 DEF RequestInv, FreshTrue, QuietStatus, Reaches, Gapless, First, Day
<1> QED
  BY <1>1, <1>2, <1>3, <1>4, <1>5, <1>6, <1>7 DEF RequestInv

\* The dates read now are those of the metric's latest answer, if the state read
\* before has its timestamp.
LEMMA DatesOfLatest ==
  ASSUME TypeOK, StoredIsLatestAnswer, request.at # "idle"
  PROVE  CoverageDates = IF answer[request.metric].at = request.st.at
                         THEN answer[request.metric].days ELSE {}
<1> DEFINE m == request.metric
           a == answer[m]
<1>1. m \in Metrics
  BY DEF TypeOK, Requests
<1>2. coverage[m] = {[date |-> d, seen |-> a.at] : d \in a.days}
  BY <1>1, StoredForAll DEF StoredFor
<1>3. CASE a.at = request.st.at
  <2>1. {b \in coverage[m] : b.seen = request.st.at} = {[date |-> d, seen |-> a.at] : d \in a.days}
    BY <1>2, <1>3
  <2> DEFINE rec(d) == [date |-> d, seen |-> a.at]
  <2>2. CoverageDates = {c.date : c \in {rec(d) : d \in a.days}}
    BY <2>1, Zenon DEF CoverageDates
  <2>3. \A d \in a.days : rec(d).date = d
    OBVIOUS
  <2>4. {c.date : c \in {rec(d) : d \in a.days}} = a.days
    <3> HIDE DEF rec
    <3> QED
      BY <2>3
  <2> QED
    BY <1>3, <2>2, <2>4
<1>4. CASE a.at # request.st.at
  BY <1>2, <1>4 DEF CoverageDates
<1> QED
  BY <1>3, <1>4

\* The rows kept are confirmed by the answer whose state was read or by the latest.
LEMMA AfterFilterRows ==
  ASSUME TypeOK, RequestInv, AnswerInv, StoredIsLatestAnswer, FilterRows
  PROVE  RequestInv'
<1> DEFINE m == request.metric
           st == request.st
           spanned == st.at # NoTime /\ st.from # NoDay
           kept == {d \in request.rows :
                      (spanned /\ d \in st.from .. st.to) => d \in CoverageDates}
<1>0. request \in Requests /\ m \in Metrics /\ request.at = "chart"
  BY DEF TypeOK, Requests, FilterRows, Finish
<1>1. /\ request'.at = "between" /\ request'.metric = m
      /\ request'.todo = request.todo \ {"chart"}
      /\ request'.rows = request.rows /\ request'.chart = kept
      /\ request'.now = request.now /\ request'.status = request.status
      /\ latest' = latest /\ answer' = answer
  <2>1. request' = [[request EXCEPT !.chart = kept] EXCEPT
                      !.at = "between", !.todo = @ \ {"chart"}, !.st = NeverState]
    BY DEF FilterRows, Finish
  <2>2. latest' = latest /\ answer' = answer
    BY DEF FilterRows, Finish, stored
  <2> HIDE DEF kept
  <2> QED
    BY <1>0, <2>1, <2>2 DEF Requests
<1>2. answer[m] \in latest
  BY <1>0 DEF RequestInv
<1>3. PICK b \in latest : StateOf(st, b)
  BY <1>0 DEF RequestInv
<1>4. b.days \in SUBSET Days /\ RealAnswer(b) /\ request.rows \in SUBSET Days
  BY <1>0 DEF TypeOK, Answers, AnswerInv, Requests
<1>5. CoverageDates = IF answer[m].at = st.at THEN answer[m].days ELSE {}
  BY <1>0, DatesOfLatest
<1>6. ASSUME NEW d \in kept
      PROVE  \E a \in latest : d \in a.days \/ d \notin First(a.days) .. Last(a.days)
  <2>1. CASE d \in CoverageDates
    BY <1>2, <1>5, <2>1
  <2>2. CASE spanned /\ d \notin CoverageDates
    <3>1. d \notin st.from .. st.to
      BY <2>2
    <3> QED
      BY <1>3, <3>1 DEF StateOf
  <2>3. CASE ~ spanned
    <3>1. b.days = {}
      <4>1. CASE st.at = NoTime
        BY <1>3, <1>4, <4>1 DEF StateOf, RealAnswer
      <4>2. CASE st.from = NoDay
        <5>1. First(b.days) = NoDay
          BY <1>3, <4>2 DEF StateOf
        <5> QED
          BY <1>4, <5>1, Bounds
      <4> QED
        BY <2>3, <4>1, <4>2
    <3>2. d \notin 0 .. 0
      BY <1>4 DEF Days
    <3>3. First(b.days) = 0 /\ Last(b.days) = 0
      BY <3>1 DEF First, Last, NoDay
    <3> QED
      BY <3>2, <3>3
  <2> QED
    BY <2>1, <2>2, <2>3
<1>7. ChartConfirmed'
  <2> HIDE DEF kept
  <2> QED
    BY <1>1, <1>6 DEF ChartConfirmed, First, Last
<1>8. QuietChart'
  <2> SUFFICES ASSUME NEW a \in latest, latest = {a} PROVE a.days \subseteq kept
    BY <1>1 DEF QuietChart
  <2>1. a = b /\ a = answer[m]
    BY <1>2
  <2>2. a.days \subseteq request.rows
    BY <1>0 DEF RequestInv, QuietRows
  <2>3. a.days \subseteq CoverageDates
    BY <1>3, <1>5, <2>1 DEF StateOf
  <2> QED
    BY <2>2, <2>3
<1>9. QuietRows'
  BY <1>0, <1>1 DEF RequestInv, QuietRows
<1>10. "freshness" \notin request.todo => FreshTrue' /\ QuietStatus'
  BY <1>0, <1>1 DEF RequestInv, FreshTrue, QuietStatus, Reaches, Gapless, First, Day
<1> QED
  <2> HIDE DEF kept
  <2> QED
    BY <1>1, <1>2, <1>7, <1>8, <1>9, <1>10 DEF RequestInv

\* The status follows from the answer whose state was read and from the latest.
LEMMA AfterJudgeFreshness ==
  ASSUME TypeOK, RequestInv, AnswerInv, StoredIsLatestAnswer, JudgeFreshness
  PROVE  RequestInv'
<1> DEFINE m == request.metric
           st == request.st
           yesterday == Day(request.now) - 1
<1>0. request \in Requests /\ m \in Metrics /\ request.at = "freshness"
  BY DEF TypeOK, Requests, JudgeFreshness, Finish
<1>1. /\ request'.at = "between" /\ request'.metric = m
      /\ request'.todo = request.todo \ {"freshness"}
      /\ request'.rows = request.rows /\ request'.chart = request.chart
      /\ request'.now = request.now /\ request'.status = Status
      /\ latest' = latest /\ answer' = answer
  <2>1. request' = [[request EXCEPT !.status = Status] EXCEPT
                      !.at = "between", !.todo = @ \ {"freshness"}, !.st = NeverState]
    BY DEF JudgeFreshness, Finish
  <2>2. latest' = latest /\ answer' = answer
    BY DEF JudgeFreshness, Finish, stored
  <2> QED
    BY <1>0, <2>1, <2>2 DEF Requests
<1>2. answer[m] \in latest
  BY <1>0 DEF RequestInv
<1>3. PICK b \in latest : StateOf(st, b)
  BY <1>0 DEF RequestInv
<1>4. b.days \in SUBSET Days /\ st \in States
  BY <1>0 DEF TypeOK, Answers, Requests
<1>5. CoverageDates = IF answer[m].at = st.at THEN answer[m].days ELSE {}
  BY <1>0, DatesOfLatest
<1>6. yesterday \in Nat /\ yesterday >= 1
  <2>1. request.now \in Times
    BY <1>0 DEF RequestInv
  <2> QED
    BY <2>1, TimeFacts
<1>7. \/ Status # "missing" /\ Status # "fresh"
      \/ Status = "missing" /\ MissingDays(yesterday) # {}
      \/ /\ Status = "fresh" /\ MissingDays(yesterday) = {}
         /\ ~ (st.observed < yesterday)
  BY DEF Status
<1>8. /\ st.from = First(b.days) /\ st.to = Last(b.days) /\ st.observed = Last(b.days)
      /\ st.at = b.at
  BY <1>3 DEF StateOf
<1>9. /\ First(b.days) \in Nat /\ Last(b.days) \in Nat
      /\ First(b.days) = NoDay <=> b.days = {}
  BY <1>4, Bounds DEF AnyDay
<1>10. FreshTrue'
  <2> SUFFICES ASSUME Status = "fresh"
               PROVE  \E a, c \in latest : /\ a.at = c.at /\ Reaches(a, yesterday)
                                           /\ Gapless(c, Min(a.days), yesterday)
    BY <1>1 DEF FreshTrue, Reaches, Gapless, Day
  <2>1. MissingDays(yesterday) = {} /\ Last(b.days) >= yesterday
    <3>1. MissingDays(yesterday) = {} /\ ~ (st.observed < yesterday)
      BY <1>7
    <3> QED
      BY <1>6, <1>8, <1>9, <3>1
  <2>2. b.days # {}
    BY <1>6, <2>1 DEF Last, NoDay
  <2>3. First(b.days) = Min(b.days) /\ Last(b.days) = Max(b.days) /\ First(b.days) # NoDay
    BY <1>9, <2>2 DEF First, Last
  <2>4. Reaches(b, yesterday)
    BY <2>1, <2>2, <2>3 DEF Reaches
  <2>5. \A d \in First(b.days) .. yesterday : d \in CoverageDates
    <3>1. \A d \in First(b.days) .. Last(b.days) : d <= yesterday => d \in CoverageDates
      BY <1>8, <2>1, <2>3 DEF MissingDays
    <3> QED
      BY <1>6, <1>9, <2>1, <3>1
  <2>6. CASE answer[m].at = st.at
    <3>1. Gapless(answer[m], Min(b.days), yesterday)
      BY <1>5, <2>3, <2>5, <2>6 DEF Gapless
    <3> QED
      BY <1>2, <1>8, <2>4, <2>6, <3>1
  <2>7. CASE answer[m].at # st.at
    <3>1. Gapless(b, Min(b.days), yesterday)
      BY <1>5, <2>3, <2>5, <2>7 DEF Gapless
    <3> QED
      BY <2>4, <3>1
  <2> QED
    BY <2>6, <2>7
<1>11. QuietStatus'
  <2> SUFFICES ASSUME NEW a \in latest, latest = {a}, Status = "missing"
               PROVE  \E d \in First(a.days) .. yesterday : d \notin a.days
    BY <1>1 DEF QuietStatus, First, Day
  <2>1. a = b /\ a = answer[m]
    BY <1>2
  <2>2. CoverageDates = a.days
    BY <1>5, <1>8, <2>1
  <2>3. PICK d \in MissingDays(yesterday) : TRUE
    BY <1>7
  <2>4. d \in st.from .. st.to /\ d <= yesterday /\ d \notin a.days
    BY <2>2, <2>3 DEF MissingDays
  <2> QED
    BY <1>6, <1>8, <1>9, <2>1, <2>4
<1>12. QuietRows'
  BY <1>0, <1>1 DEF RequestInv, QuietRows
<1>13. "chart" \notin request.todo => ChartConfirmed' /\ QuietChart'
  BY <1>0, <1>1 DEF RequestInv, ChartConfirmed, QuietChart, First, Last
<1> QED
  BY <1>1, <1>2, <1>10, <1>11, <1>12, <1>13 DEF RequestInv

\* Every step keeps what a request has established.
LEMMA RequestNext ==
  /\ TypeOK /\ AnswerInv /\ StoredIsLatestAnswer /\ RequestInv
  /\ [Next]_vars
  => RequestInv'
<1> SUFFICES ASSUME TypeOK, AnswerInv, StoredIsLatestAnswer, RequestInv, [Next]_vars
             PROVE  RequestInv'
  OBVIOUS
<1>1. CASE \E m \in Metrics, days \in Reports : Stored(m, days)
  <2>1. PICK m \in Metrics, days \in Reports : Stored(m, days)
    BY <1>1
  <2>2. request' = request /\ RecordSuccess(m, days) /\ days \in SUBSET Days
    BY <2>1, Constants DEF Stored
  <2>3. latest \subseteq latest'
    BY <2>2 DEF RecordSuccess, LatestFor
  <2>4. request.at # "idle" => answer'[request.metric] \in latest'
    <3> SUFFICES ASSUME request.at # "idle" PROVE answer'[request.metric] \in latest'
      OBVIOUS
    <3>1. request.metric \in Metrics /\ answer[request.metric] \in latest
      BY DEF TypeOK, Requests, RequestInv
    <3>2. CASE request.metric = m
      BY <2>2, <3>2 DEF RecordSuccess, LatestFor
    <3>3. CASE request.metric # m
      <4>1. answer'[request.metric] = answer[request.metric]
        BY <2>2, <3>1, <3>3, RecordedAnswer
      <4> QED
        BY <2>3, <3>1, <4>1
    <3> QED
      BY <3>2, <3>3
  <2> QED
    BY <2>2, <2>3, <2>4, AnotherAnswer
<1>2. CASE \/ \E m \in Metrics : NotStored(m) \/ FetchFails(m)
           \/ Begin \/ Return \/ Tick \/ UNCHANGED vars
  <2>1. request' = request /\ latest' = latest /\ answer' = answer
    BY <1>2 DEF NotStored, FetchFails, Begin, Return, Tick, vars, stored
  <2>2. request.at # "idle" => answer'[request.metric] \in latest'
    BY <2>1 DEF RequestInv
  <2> QED
    BY <2>1, <2>2, AnotherAnswer
<1>3. CASE Crash \/ Reply
  BY <1>3 DEF Crash, Reply, RequestInv, NoRequest
<1>4. CASE \E m \in Asked : ReadRows(m)
  BY <1>4, AfterReadRows, Constants
<1>5. CASE \E task \in {"chart", "freshness"}, now \in Times : ReadState(task, now)
  BY <1>5, AfterReadState
<1>6. CASE FilterRows
  BY <1>6, AfterFilterRows
<1>7. CASE JudgeFreshness
  BY <1>7, AfterJudgeFreshness
<1> QED
  BY <1>1, <1>2, <1>3, <1>4, <1>5, <1>6, <1>7 DEF Next, Sync, Request

\* RequestInv holds in every reachable state.
LEMMA RequestAlways == Spec => []RequestInv
<1>1. Init => RequestInv
  BY DEF Init, RequestInv, NoRequest
<1>2. Spec => []StoredIsLatestAnswer
  BY StoredAgrees
<1>3. Spec => []AnswerInv
  BY AnswerInit, AnswerNext, TypesAlways, PTL DEF Spec
<1> QED
  BY <1>1, <1>2, <1>3, RequestNext, TypesAlways, PTL DEF Spec

\* A finished request has done both tasks.
LEMMA AnsweredFacts ==
  ASSUME RequestInv, Answered
  PROVE  ChartConfirmed /\ QuietChart /\ FreshTrue /\ QuietStatus
<1>1. request.at # "idle" /\ "chart" \notin request.todo /\ "freshness" \notin request.todo
  BY DEF Answered
<1> QED
  BY <1>1 DEF RequestInv

\* No cached row disguises a day that the latest answers spanned and did not report,
\* whatever commits fall between the request's statements.
THEOREM ChartsAreConfirmed == Spec => []ChartIsConfirmed
<1>1. RequestInv => ChartIsConfirmed
  BY AnsweredFacts DEF ChartIsConfirmed, ChartConfirmed
<1> QED
  BY <1>1, RequestAlways, PTL

\* "fresh" is said of a metric only if its latest answers reached yesterday, gapless.
THEOREM FreshIsTrueAlways == Spec => []FreshIsTrue
<1>1. RequestInv => FreshIsTrue
  BY AnsweredFacts DEF FreshIsTrue, FreshTrue
<1> QED
  BY <1>1, RequestAlways, PTL

\* A request that no commit of its metric disturbs hides no stored day and calls no
\* reported day missing.
THEOREM QuietRequestsExact == Spec => []QuietRequestExact
<1>1. RequestInv => QuietRequestExact
  BY AnsweredFacts DEF QuietRequestExact, QuietChart, QuietStatus
<1> QED
  BY <1>1, RequestAlways, PTL
=============================================================================
