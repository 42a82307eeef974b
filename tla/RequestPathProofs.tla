-------------------------- MODULE RequestPathProofs --------------------------
(***************************************************************************)
(* Theorems about RequestPath, for any number of goroutines, addresses,    *)
(* requests, crashes and failed writes.                                    *)
(*                                                                         *)
(* Settings.  ServedIsSaved speaks of the moments when nobody writes. What *)
(* carries it over the others: a goroutine between the truncation of the   *)
(* file and the publication holds mu, the file is whole exactly when it    *)
(* holds the settings last saved, and what is about to be published is     *)
(* what was saved.                                                         *)
(*                                                                         *)
(* Limiter.  LimitHolds counts what an address got; what makes it          *)
(* inductive is what it may still get: the level of the bucket in the map  *)
(* (Credit) and one token for each goroutine that holds a removed bucket   *)
(* (Stale).  Budget adds the three; LimiterShape says that a bucket never  *)
(* serves two addresses, so that a step is paid out of one account only.   *)
(*                                                                         *)
(* Sessions.  Every cookie was issued for a login, and ends with it.       *)
(***************************************************************************)
EXTENDS RequestPath, FiniteSetTheorems, TLAPS

\* Every goroutine's state has the fields of Idle.
HandlersOK ==
  /\ handler = [h \in Handlers |-> handler[h]]
  /\ \A h \in Handlers : \E a, r, i, b, n :
       handler[h] = [at |-> a, req |-> r, ip |-> i, bucket |-> b, next |-> n]

\* saveLocked and the assignment after it run under mu.
WritersLock == \A h \in Handlers : At(h, "write") \/ At(h, "publish") => mu = h

\* A file that is there and whole holds the settings last saved.
FileOK ==
  /\ file = Absent => saved = Defaults
  /\ file \notin {Absent, Partial} => file = saved

\* The values in memory lag behind the file only while their writer is at publish.
ValuesOK ==
  /\ \A h \in Handlers : At(h, "publish") => handler[h].next = saved
  /\ up => values = saved \/ \E h \in Handlers : At(h, "publish")

\* A goroutine about to write has merged a whole set of fields.
NextOK == \A h \in Handlers : At(h, "write") => DOMAIN handler[h].next = Fields

Writes(h) == At(h, "write") \/ At(h, "publish")
OneWriterAtATime == \A g, h \in Handlers : Writes(g) /\ Writes(h) => g = h

SettingsInv == HandlersOK /\ WritersLock /\ FileOK /\ ValuesOK /\ NextOK

\* The steps that touch neither the settings nor what any goroutine has to do
\* with them.
Elsewhere ==
  /\ UNCHANGED <<up, settings, saved>>
  /\ HandlersOK'
  /\ \A h \in Handlers :
       \/ handler'[h] = handler[h]
       \/ /\ ~At(h, "write") /\ ~At(h, "publish")
          /\ handler'[h].at \notin {"write", "publish"}

-----------------------------------------------------------------------------

\* Settings with all their fields are not those of a missing file.
LEMMA WholeIsPresent == \A f : DOMAIN f = Fields => f # Absent
<1> SUFFICES ASSUME NEW f, DOMAIN f = Fields, f = Absent PROVE FALSE
  OBVIOUS
<1>1. DOMAIN Absent = {"default_locale"}
  BY DEF Absent
<1>2. "compact_numbers" \in Fields /\ "compact_numbers" \notin {"default_locale"}
  BY DEF Fields
<1> QED BY <1>1, <1>2

\* A goroutine that moves from one point to another keeps its fields.
LEMMA MoveOK ==
  ASSUME HandlersOK, NEW h \in Handlers, NEW p, Move(h, p)
  PROVE  /\ HandlersOK'
         /\ handler'[h].at = p /\ handler'[h].next = handler[h].next
         /\ handler'[h].bucket = handler[h].bucket
         /\ handler'[h].ip = handler[h].ip /\ handler'[h].req = handler[h].req
         /\ \A g \in Handlers \ {h} : handler'[g] = handler[g]
<1> PICK a, r, i, b, n :
      handler[h] = [at |-> a, req |-> r, ip |-> i, bucket |-> b, next |-> n]
  BY DEF HandlersOK
<1>1. handler'[h] = [at |-> p, req |-> r, ip |-> i, bucket |-> b, next |-> n]
  BY DEF Move, HandlersOK
<1>2. \A g \in Handlers \ {h} : handler'[g] = handler[g]
  BY DEF Move, HandlersOK
<1>3. handler' = [g \in Handlers |-> handler'[g]]
  BY DEF Move, HandlersOK
<1> QED BY <1>1, <1>2, <1>3 DEF HandlersOK

Goes(h, p, k) == handler' = [handler EXCEPT ![h].bucket = k, ![h].at = p]

\* A goroutine that changes one more field and moves keeps its fields.
LEMMA BucketOK ==
  ASSUME HandlersOK, NEW h \in Handlers, NEW p, NEW k, Goes(h, p, k)
  PROVE  /\ HandlersOK' /\ handler'[h].at = p /\ handler'[h].bucket = k
         /\ handler'[h].ip = handler[h].ip /\ handler'[h].req = handler[h].req
         /\ \A g \in Handlers \ {h} : handler'[g] = handler[g]
<1> PICK a, r, i, b, n :
      handler[h] = [at |-> a, req |-> r, ip |-> i, bucket |-> b, next |-> n]
  BY DEF HandlersOK
<1> DEFINE first == [handler EXCEPT ![h].bucket = k]
<1>1. first[h] = [at |-> a, req |-> r, ip |-> i, bucket |-> k, next |-> n]
      /\ first = [g \in Handlers |-> first[g]]
      /\ \A g \in Handlers \ {h} : first[g] = handler[g]
  BY DEF HandlersOK
<1>2. handler' = [first EXCEPT ![h].at = p]
  BY DEF Goes
<1> HIDE DEF first
<1>3. handler'[h] = [at |-> p, req |-> r, ip |-> i, bucket |-> k, next |-> n]
      /\ handler' = [g \in Handlers |-> handler'[g]]
      /\ \A g \in Handlers \ {h} : handler'[g] = first[g]
  <2>1. handler' = [g \in Handlers |-> handler'[g]] /\ \A g \in Handlers \ {h} : handler'[g] = first[g]
    BY <1>1, <1>2
  <2>2. [first[h] EXCEPT !.at = p] = [at |-> p, req |-> r, ip |-> i, bucket |-> k, next |-> n]
    BY <1>1
  <2>3. handler'[h] = [first[h] EXCEPT !.at = p]
    BY <1>1, <1>2
  <2> QED BY <2>1, <2>2, <2>3
<1>4. \A g \in Handlers \ {h} : handler'[g] = handler[g]
  BY <1>1, <1>3
<1>5. ASSUME NEW g \in Handlers
      PROVE  \E a1, r1, i1, b1, n1 : handler'[g] =
               [at |-> a1, req |-> r1, ip |-> i1, bucket |-> b1, next |-> n1]
  <2>1. CASE g = h
    BY <1>3, <2>1, Zenon
  <2>2. CASE g # h
    <3>1. handler'[g] = handler[g]
      BY <1>4, <2>2
    <3>2. \E a1, r1, i1, b1, n1 : handler[g] =
            [at |-> a1, req |-> r1, ip |-> i1, bucket |-> b1, next |-> n1]
      BY DEF HandlersOK
    <3> QED BY <3>1, <3>2, Zenon
  <2> QED BY <2>1, <2>2
<1>6. handler'[h].at = p /\ handler'[h].bucket = k
      /\ handler'[h].ip = handler[h].ip /\ handler'[h].req = handler[h].req
  BY <1>3
<1> QED BY <1>3, <1>4, <1>5, <1>6 DEF HandlersOK

MoveWith(h, p, m) == handler' = [handler EXCEPT ![h].at = p, ![h].next = m]

\* A goroutine that is about to write what it has merged keeps its fields.
LEMMA MergedOK ==
  ASSUME HandlersOK, NEW h \in Handlers, NEW p, NEW m, MoveWith(h, p, m)
  PROVE  /\ HandlersOK' /\ handler'[h].at = p /\ handler'[h].next = m
         /\ handler'[h].bucket = handler[h].bucket
         /\ handler'[h].ip = handler[h].ip /\ handler'[h].req = handler[h].req
         /\ \A g \in Handlers \ {h} : handler'[g] = handler[g]
<1> PICK a, r, i, b, n :
      handler[h] = [at |-> a, req |-> r, ip |-> i, bucket |-> b, next |-> n]
  BY DEF HandlersOK
<1> DEFINE first == [handler EXCEPT ![h].at = p]
<1>1. first[h] = [at |-> p, req |-> r, ip |-> i, bucket |-> b, next |-> n]
      /\ first = [g \in Handlers |-> first[g]]
      /\ \A g \in Handlers \ {h} : first[g] = handler[g]
  BY DEF HandlersOK
<1>2. handler' = [first EXCEPT ![h].next = m]
  BY DEF MoveWith
<1> HIDE DEF first
<1>3. handler'[h] = [at |-> p, req |-> r, ip |-> i, bucket |-> b, next |-> m]
      /\ handler' = [g \in Handlers |-> handler'[g]]
      /\ \A g \in Handlers \ {h} : handler'[g] = first[g]
  <2>1. handler' = [g \in Handlers |-> handler'[g]] /\ \A g \in Handlers \ {h} : handler'[g] = first[g]
    BY <1>1, <1>2
  <2>2. [first[h] EXCEPT !.next = m] = [at |-> p, req |-> r, ip |-> i, bucket |-> b, next |-> m]
    BY <1>1
  <2>3. handler'[h] = [first[h] EXCEPT !.next = m]
    BY <1>1, <1>2
  <2> QED BY <2>1, <2>2, <2>3
<1>4. \A g \in Handlers \ {h} : handler'[g] = handler[g]
  BY <1>1, <1>3
<1>5. ASSUME NEW g \in Handlers
      PROVE  \E a1, r1, i1, b1, n1 : handler'[g] =
               [at |-> a1, req |-> r1, ip |-> i1, bucket |-> b1, next |-> n1]
  <2>1. CASE g = h
    BY <1>3, <2>1, Zenon
  <2>2. CASE g # h
    <3>1. handler'[g] = handler[g]
      BY <1>4, <2>2
    <3>2. \E a1, r1, i1, b1, n1 : handler[g] =
            [at |-> a1, req |-> r1, ip |-> i1, bucket |-> b1, next |-> n1]
      BY DEF HandlersOK
    <3> QED BY <3>1, <3>2, Zenon
  <2> QED BY <2>1, <2>2
<1>6. handler'[h].at = p /\ handler'[h].bucket = handler[h].bucket
      /\ handler'[h].ip = handler[h].ip /\ handler'[h].req = handler[h].req
  BY <1>3
<1> QED BY <1>3, <1>4, <1>5, <1>6 DEF HandlersOK

\* A goroutine that answers is idle.
LEMMA LeaveOK ==
  ASSUME HandlersOK, NEW h \in Handlers, Leave(h)
  PROVE  /\ HandlersOK' /\ handler'[h].at = "idle" /\ handler'[h].bucket = NoBucket
         /\ \A g \in Handlers \ {h} : handler'[g] = handler[g]
<1>1. handler'[h] = Idle /\ \A g \in Handlers \ {h} : handler'[g] = handler[g]
  BY DEF Leave, HandlersOK
<1>2. handler' = [g \in Handlers |-> handler'[g]]
  BY DEF Leave, HandlersOK
<1> QED BY <1>1, <1>2 DEF HandlersOK, Idle

\* Handlers start idle, after a crash as after the first start.
LEMMA IdleOK ==
  ASSUME handler = [h \in Handlers |-> Idle]
  PROVE  HandlersOK /\ \A h \in Handlers : handler[h].at = "idle"
BY DEF HandlersOK, Idle

\* The state Allow leaves a goroutine in.
LEMMA ServeState ==
  ASSUME NEW q
  PROVE  [Idle EXCEPT !.at = "serve", !.req = q] =
           [at |-> "serve", req |-> q, ip |-> NoIP, bucket |-> NoBucket, next |-> Defaults]
<1>1. [Idle EXCEPT !.at = "serve"] =
        [at |-> "serve", req |-> NoHeader, ip |-> NoIP, bucket |-> NoBucket, next |-> Defaults]
  BY DEF Idle
<1>2. [[at |-> "serve", req |-> NoHeader, ip |-> NoIP, bucket |-> NoBucket,
        next |-> Defaults] EXCEPT !.req = q] =
        [at |-> "serve", req |-> q, ip |-> NoIP, bucket |-> NoBucket, next |-> Defaults]
  OBVIOUS
<1> QED BY <1>1, <1>2

\* The limiter, the whitelist, the guards and the clock leave the settings alone.
LEMMA OtherSteps ==
  ASSUME SettingsInv, [Next]_vars
  PROVE  \/ Elsewhere
         \/ \E h \in Handlers : BeginUpdate(h) \/ WriteFile(h) \/ WriteFails(h) \/ Publish(h)
         \/ Crash \/ Start
<1> USE DEF SettingsInv
<1>1. ASSUME NEW h \in Handlers, NEW r \in conf.clients, Arrive(h, r) PROVE Elsewhere
  <2> DEFINE new == IF Unlimited(r) THEN [Idle EXCEPT !.at = "serve", !.req = r]
                    ELSE [Idle EXCEPT !.at = "load", !.req = r, !.ip = ClientIP(r)]
  <2>1. \E a, q, i, b, n : /\ new = [at |-> a, req |-> q, ip |-> i, bucket |-> b, next |-> n]
                              /\ a \in {"serve", "load"}
    BY DEF Idle
  <2>2. handler' = [handler EXCEPT ![h] = new]
    BY <1>1 DEF Arrive
  <2> HIDE DEF new
  <2>3. handler'[h] = new /\ handler' = [g \in Handlers |-> handler'[g]]
        /\ \A g \in Handlers \ {h} : handler'[g] = handler[g]
    BY <2>2 DEF HandlersOK
  <2>4. HandlersOK'
    BY <2>1, <2>3 DEF HandlersOK
  <2> QED BY <1>1, <2>1, <2>3, <2>4 DEF Arrive, Elsewhere, At, settings, history
<1>2. ASSUME NEW h \in Handlers, LoadBucket(h) PROVE Elsewhere
  <2> DEFINE p == IF buckets[handler[h].ip] = NoBucket THEN "store" ELSE "touch"
             k == buckets[handler[h].ip]
  <2>1. Goes(h, p, k)
    BY <1>2 DEF LoadBucket, Goes
  <2>2. p \in {"store", "touch"}
    OBVIOUS
  <2> HIDE DEF p, k
  <2>3. HandlersOK' /\ handler'[h].at = p /\ \A g \in Handlers \ {h} : handler'[g] = handler[g]
    BY <2>1, BucketOK
  <2> QED BY <1>2, <2>2, <2>3 DEF LoadBucket, Elsewhere, At, settings, history
<1>3. ASSUME NEW h \in Handlers, TouchBucket(h) PROVE Elsewhere
  BY <1>3, MoveOK DEF TouchBucket, Elsewhere, At, settings, history
<1>4. ASSUME NEW h \in Handlers, StoreBucket(h) PROVE Elsewhere
  <2>1. PICK k : Goes(h, "allow", k)
    BY <1>4 DEF StoreBucket, Goes
  <2>2. HandlersOK' /\ handler'[h].at = "allow" /\ \A g \in Handlers \ {h} : handler'[g] = handler[g]
    BY <2>1, BucketOK
  <2> QED BY <1>4, <2>2 DEF StoreBucket, Elsewhere, At, settings, history
<1>5. ASSUME NEW h \in Handlers, Allow(h) PROVE Elsewhere
  <2>1. CASE Leave(h)
    BY <1>5, <2>1, LeaveOK DEF Allow, Elsewhere, At, settings, history
  <2>2. CASE ~Leave(h)
    <3> DEFINE q == handler[h].req
               new == [Idle EXCEPT !.at = "serve", !.req = q]
    <3>1. handler' = [handler EXCEPT ![h] = new]
      BY <1>5, <2>2 DEF Allow
    <3> HIDE DEF q
    <3>2. new = [at |-> "serve", req |-> q, ip |-> NoIP,
                 bucket |-> NoBucket, next |-> Defaults]
      BY ServeState
    <3> HIDE DEF new
    <3>3. handler'[h] = new /\ handler' = [g \in Handlers |-> handler'[g]]
          /\ \A g \in Handlers \ {h} : handler'[g] = handler[g]
      BY <3>1 DEF HandlersOK
    <3>4. HandlersOK'
      BY <3>2, <3>3 DEF HandlersOK
    <3>5. UNCHANGED <<up, settings, saved>> /\ At(h, "allow")
      BY <1>5 DEF Allow
    <3> QED BY <3>2, <3>3, <3>4, <3>5 DEF Elsewhere, At
  <2> QED BY <2>1, <2>2
<1>6. ASSUME NEW h \in Handlers, NEW c \in Cookies, Serve(h, c) PROVE Elsewhere
  <2>1. (Move(h, "lock") \/ Leave(h)) /\ UNCHANGED <<up, settings, saved>> /\ At(h, "serve")
    BY <1>6 DEF Serve
  <2>2. CASE Move(h, "lock")
    BY <2>1, <2>2, MoveOK DEF Elsewhere, At
  <2>3. CASE Leave(h)
    BY <2>1, <2>3, LeaveOK DEF Elsewhere, At
  <2> QED BY <2>1, <2>2, <2>3
<1>7. ASSUME CleanupBegins \/ CleanupDeletes \/ (\E ip \in IPs : CleanupChecks(ip))
             \/ Tick \/ StartFails \/ UNCHANGED vars
      PROVE  Elsewhere
  <2>1. UNCHANGED <<up, settings, saved, handler>>
    BY <1>7 DEF CleanupBegins, CleanupDeletes, CleanupChecks, Tick, StartFails, vars, history
  <2> QED BY <2>1 DEF Elsewhere, HandlersOK
<1> QED BY <1>1, <1>2, <1>3, <1>4, <1>5, <1>6, <1>7 DEF Next, Handle

\* Init and every step keep the inductive invariant.
LEMMA SettingsInvInductive ==
  /\ Init => SettingsInv
  /\ SettingsInv /\ [Next]_vars => SettingsInv'
<1>1. Init => SettingsInv
  <2> SUFFICES ASSUME Init PROVE SettingsInv
    OBVIOUS
  <2>1. HandlersOK /\ \A h \in Handlers : handler[h].at = "idle"
    BY IdleOK DEF Init
  <2> QED BY <2>1 DEF Init, SettingsInv, WritersLock, FileOK, ValuesOK, NextOK, At
<1> SUFFICES ASSUME SettingsInv, [Next]_vars PROVE SettingsInv'
  BY <1>1
<1>2. CASE Elsewhere
  <2>1. \A h \in Handlers : handler'[h].at \in {"write", "publish"} \/ handler[h].at \in {"write", "publish"}
                             => handler'[h] = handler[h]
    BY <1>2 DEF Elsewhere, At
  <2>2. HandlersOK' /\ UNCHANGED <<up, mu, values, file, saved>>
    BY <1>2 DEF Elsewhere, settings
  <2> QED BY <2>1, <2>2 DEF SettingsInv, WritersLock, FileOK, ValuesOK, NextOK, At, Defaults
<1>3. ASSUME NEW h \in Handlers, BeginUpdate(h) PROVE SettingsInv'
  <2>0. At(h, "lock") /\ mu = NoOne /\ UNCHANGED <<up, values, saved>>
    BY <1>3 DEF BeginUpdate, MayWrite, history
  <2>1. CASE Leave(h) /\ UNCHANGED <<mu, file>>
    <3>1. HandlersOK' /\ handler'[h].at = "idle" /\ \A g \in Handlers \ {h} : handler'[g] = handler[g]
      BY <2>1, LeaveOK DEF SettingsInv
    <3> QED BY <2>0, <2>1, <3>1 DEF SettingsInv, WritersLock, FileOK, ValuesOK, NextOK, At, Defaults
  <2>2. CASE ~(Leave(h) /\ UNCHANGED <<mu, file>>)
    <3> DEFINE m == Merged(values, handler[h].req.update)
    <3>1. mu' = h /\ file' = Partial /\ MoveWith(h, "write", m)
      BY <1>3, <2>2 DEF BeginUpdate, MoveWith
    <3>2. DOMAIN m = Fields
      BY DEF Merged
    <3> HIDE DEF m
    <3>3. /\ HandlersOK' /\ handler'[h].at = "write" /\ handler'[h].next = m
          /\ \A g \in Handlers \ {h} : handler'[g] = handler[g]
      BY <3>1, MergedOK DEF SettingsInv
    <3>5. \A g \in Handlers : ~At(g, "write") /\ ~At(g, "publish")
      BY <2>0, RequestAssumption DEF SettingsInv, WritersLock
    <3>6. Partial # Absent
      BY DEF Partial, Absent
    <3> QED BY <2>0, <3>1, <3>2, <3>3, <3>5, <3>6
            DEF SettingsInv, WritersLock, FileOK, ValuesOK, NextOK, At
  <2> QED BY <2>1, <2>2
<1>4. ASSUME NEW h \in Handlers, WriteFile(h) PROVE SettingsInv'
  <2>1. At(h, "write") /\ file' = handler[h].next /\ saved' = file' /\ UNCHANGED <<up, mu, values>>
    BY <1>4 DEF WriteFile
  <2>2. HandlersOK' /\ handler'[h].at = "publish" /\ handler'[h].next = handler[h].next
        /\ \A g \in Handlers \ {h} : handler'[g] = handler[g]
    BY <1>4, MoveOK DEF WriteFile, SettingsInv
  <2>3. file' # Absent
    BY <2>1, WholeIsPresent DEF SettingsInv, NextOK
  <2>4. \A g \in Handlers \ {h} : ~At(g, "write") /\ ~At(g, "publish")
    BY <2>1 DEF SettingsInv, WritersLock
  <2> QED BY <2>1, <2>2, <2>3, <2>4 DEF SettingsInv, WritersLock, FileOK, ValuesOK, NextOK, At, Absent, Partial
<1>5. ASSUME NEW h \in Handlers, WriteFails(h) PROVE SettingsInv'
  <2>1. At(h, "write") /\ mu' = NoOne /\ UNCHANGED <<up, values, file, saved>>
    BY <1>5 DEF WriteFails, history
  <2>2. HandlersOK' /\ handler'[h].at = "idle" /\ \A g \in Handlers \ {h} : handler'[g] = handler[g]
    BY <1>5, LeaveOK DEF WriteFails, SettingsInv
  <2>3. \A g \in Handlers \ {h} : ~At(g, "write") /\ ~At(g, "publish")
    BY <2>1 DEF SettingsInv, WritersLock
  <2>4. ~At(h, "publish")
    BY <2>1 DEF At
  <2> QED BY <2>1, <2>2, <2>3, <2>4 DEF SettingsInv, WritersLock, FileOK, ValuesOK, NextOK, At, Defaults
<1>6. ASSUME NEW h \in Handlers, Publish(h) PROVE SettingsInv'
  <2>1. At(h, "publish") /\ values' = handler[h].next /\ UNCHANGED <<up, file, saved>>
    BY <1>6 DEF Publish, history
  <2>2. HandlersOK' /\ handler'[h].at = "idle" /\ \A g \in Handlers \ {h} : handler'[g] = handler[g]
    BY <1>6, LeaveOK DEF Publish, SettingsInv
  <2>3. \A g \in Handlers \ {h} : ~At(g, "write") /\ ~At(g, "publish")
    BY <2>1 DEF SettingsInv, WritersLock
  <2>4. values' = saved
    BY <2>1 DEF SettingsInv, ValuesOK
  <2> QED BY <2>1, <2>2, <2>3, <2>4 DEF SettingsInv, WritersLock, FileOK, ValuesOK, NextOK, At, Defaults
<1>7. CASE Crash
  <2>1. handler' = [h \in Handlers |-> Idle] /\ up' = FALSE /\ UNCHANGED <<file, saved>>
    BY <1>7 DEF Crash
  <2>2. HandlersOK' /\ \A h \in Handlers : handler'[h].at = "idle"
    BY <2>1 DEF HandlersOK, Idle
  <2> QED BY <2>1, <2>2 DEF SettingsInv, WritersLock, FileOK, ValuesOK, NextOK, At, Defaults
<1>8. CASE Start
  <2>1. values' = Loaded /\ file # Partial /\ UNCHANGED <<handler, mu, file, saved>>
    BY <1>8 DEF Start, history
  <2>2. values' = saved
    BY <2>1 DEF Loaded, SettingsInv, FileOK
  <2>3. HandlersOK'
    BY <2>1 DEF SettingsInv, HandlersOK
  <2> QED BY <2>1, <2>2, <2>3 DEF SettingsInv, WritersLock, FileOK, ValuesOK, NextOK, At, Defaults
<1> QED BY <1>2, <1>3, <1>4, <1>5, <1>6, <1>7, <1>8, OtherSteps

\* Whenever nobody is writing, the settings being served are the ones last
\* written in full (SettingsManager.Update, saveLocked, NewSettingsManager).
THEOREM SettingsServedAreSaved == Spec => []ServedIsSaved
<1>1. SettingsInv => ServedIsSaved
  BY RequestAssumption DEF SettingsInv, WritersLock, ValuesOK, ServedIsSaved
<1> QED BY <1>1, SettingsInvInductive, PTL DEF Spec

\* At most one goroutine is between the truncation of the file and the
\* publication of what it wrote (SettingsManager.mu).
THEOREM OneWriter == Spec => []OneWriterAtATime
<1>1. SettingsInv => OneWriterAtATime
  BY DEF SettingsInv, WritersLock, OneWriterAtATime, Writes
<1> QED BY <1>1, SettingsInvInductive, PTL DEF Spec

-----------------------------------------------------------------------------
(* The rate limiter                                                         *)

\* Between the lookup of its bucket and the token.
Asks(h) == handler[h].at \in {"load", "store", "touch", "allow"}

LimiterTypes ==
  /\ conf \in Configs /\ now \in Nat
  /\ buckets \in [IPs -> {NoBucket} \union Ids]
  /\ pool \in [Ids -> [tokens : Nat, filled : Nat, seen : Nat]]
  /\ \A b \in Ids : pool[b].tokens <= Burst /\ pool[b].filled <= now /\ pool[b].seen <= now
  /\ cleaner \in [now : Nat, left : SUBSET IPs, doomed : IPs \union {NoIP}]
  /\ cleaner.now <= now
  /\ granted \in [IPs -> Nat] /\ slack \in [IPs -> Nat]

\* A goroutine that asks for a token asks for the address its grant counts for,
\* and holds a bucket from the lookup to the token.
Asking ==
  \A h \in Handlers :
    /\ handler[h].bucket \in {NoBucket} \union Ids
    /\ handler[h].bucket # NoBucket <=> handler[h].at \in {"touch", "allow"}
    /\ Asks(h) => handler[h].ip \in IPs /\ Counted(handler[h].req) = handler[h].ip

\* A bucket, in the map or in a goroutine's hands, belongs to one address.
OwnBuckets ==
  /\ \A i, j \in IPs : buckets[i] # NoBucket /\ buckets[i] = buckets[j] => i = j
  /\ \A h \in Handlers, i \in IPs :
       handler[h].bucket # NoBucket /\ handler[h].bucket = buckets[i] => handler[h].ip = i
  /\ \A g, h \in Handlers :
       handler[h].bucket # NoBucket /\ handler[h].bucket = handler[g].bucket
       => handler[h].ip = handler[g].ip

\* Only the cleanup removes buckets.
DoomedIsThere == cleaner.doomed # NoIP => buckets[cleaner.doomed] # NoBucket

LimiterShape == HandlersOK /\ LimiterTypes /\ Asking /\ OwnBuckets /\ DoomedIsThere

\* The goroutines that still hold a bucket of the address which the cleanup removed:
\* each may take one more token.
Stale(ip) ==
  {h \in Handlers : handler[h].ip = ip /\ handler[h].bucket \notin {NoBucket, buckets[ip]}}

\* What the next requests of the address may take at once.
Credit(ip) == IF buckets[ip] = NoBucket THEN Burst ELSE Level(buckets[ip])

Paid(ip) ==
  granted[ip] + Credit(ip) + Cardinality(Stale(ip)) <= Burst + Rate * now + slack[ip]

Budget == \A ip \in IPs : Paid(ip)

-----------------------------------------------------------------------------

\* Products and successors.
LEMMA Products ==
  /\ \A m, n \in Nat : m * n \in Nat /\ m * (n + 1) = m * n + m
  /\ \A m \in Nat : m * 0 = 0
OBVIOUS

\* Products keep order.
LEMMA ProductOrder ==
  ASSUME NEW m \in Nat, NEW x \in Nat, NEW y \in Nat, x <= y
  PROVE  m * x <= m * y
<1>1. y - x \in Nat /\ y = x + (y - x)
  OBVIOUS
<1>2. m * (y - x) \in Nat
  BY <1>1, Products
<1>3. m * y = m * x + m * (y - x)
  BY <1>1
<1>4. m * x \in Nat
  BY Products
<1> QED BY <1>2, <1>3, <1>4

\* A set of numbers that is not empty has a least one.
LEMMA LeastNumber ==
  ASSUME NEW S \in SUBSET Nat, S # {}
  PROVE  Min(S) \in S
<1>1. \E x \in S : \A y \in S : <<y, x>> \notin OpToRel(<, Nat)
  BY NatLessThanWellFounded, WFMin, Zenon
<1>2. \E x \in S : \A y \in S : ~ (y < x)
  BY <1>1, Zenon DEF OpToRel
<1>3. \E x \in S : \A y \in S : x <= y
  BY <1>2
<1> QED BY <1>3 DEF Min

\* There are as many buckets as addresses and goroutines.
LEMMA IdsCount ==
  /\ Cardinality(IPs) \in Nat /\ Cardinality(Handlers) \in Nat
  /\ Ids \subseteq Nat /\ NoBucket \notin Ids
  /\ IsFiniteSet(Ids) /\ Cardinality(Ids) = Cardinality(IPs) + Cardinality(Handlers)
<1>1. Cardinality(IPs) \in Nat /\ Cardinality(Handlers) \in Nat
  BY FS_CardinalityType, RequestAssumption
<1>2. IsFiniteSet(Ids) /\ Cardinality(Ids) = Cardinality(IPs) + Cardinality(Handlers)
  <2> DEFINE n == Cardinality(IPs) + Cardinality(Handlers)
  <2>1. n \in Nat /\ n \in Int /\ 1 \in Int
    BY <1>1
  <2> HIDE DEF n
  <2>2. IsFiniteSet(1 .. n) /\ Cardinality(1 .. n) = n
    BY <2>1, FS_Interval
  <2> QED BY <2>2 DEF n, Ids
<1> QED BY <1>1, <1>2 DEF Ids, NoBucket

\* A goroutine that stores a bucket finds one that nobody knows.
LEMMA FreshId ==
  ASSUME buckets \in [IPs -> {NoBucket} \union Ids],
         NEW h \in Handlers, handler[h].bucket = NoBucket
  PROVE  NewId \in Ids /\ NewId \notin Stored /\ NewId \notin Held
<1> DEFINE hold == [g \in Handlers |-> handler[g].bucket]
           known == Stored \union Held
<1>1. IsFiniteSet(Stored) /\ Cardinality(Stored) <= Cardinality(IPs)
  <2>1. buckets \in Surjection(IPs, Stored)
    BY DEF Stored, Surjection
  <2> QED BY <2>1, FS_Surjection, RequestAssumption
<1>2. IsFiniteSet(Held) /\ Cardinality(Held) <= Cardinality(Handlers)
  <2>1. hold \in Surjection(Handlers, Held)
    BY DEF Held, Surjection
  <2> QED BY <2>1, FS_Surjection, RequestAssumption
<1>3. IsFiniteSet(known) /\ Cardinality(known) <= Cardinality(Ids)
  <2>1. IsFiniteSet(known)
        /\ Cardinality(known) = Cardinality(Stored) + Cardinality(Held) - Cardinality(Stored \cap Held)
    BY <1>1, <1>2, FS_Union
  <2>2. Cardinality(Stored \cap Held) \in Nat /\ Cardinality(Stored) \in Nat /\ Cardinality(Held) \in Nat
    BY <1>1, <1>2, FS_Intersection, FS_CardinalityType
  <2> QED BY <1>1, <1>2, <2>1, <2>2, IdsCount
<1>4. NoBucket \in known
  BY DEF Held
<1>5. Ids \ known # {}
  <2> SUFFICES ASSUME Ids \subseteq known PROVE FALSE
    OBVIOUS
  <2>1. IsFiniteSet(Ids \union {NoBucket}) /\ Cardinality(Ids \union {NoBucket}) = Cardinality(Ids) + 1
    BY IdsCount, FS_AddElement
  <2>2. Cardinality(Ids \union {NoBucket}) <= Cardinality(known)
    BY <1>3, <1>4, FS_Subset
  <2>3. Cardinality(known) \in Nat
    BY <1>3, FS_CardinalityType
  <2> QED BY <1>3, <2>1, <2>2, <2>3, IdsCount
<1>6. Min(Ids \ known) \in Ids \ known
  BY <1>5, IdsCount, LeastNumber
<1> QED BY <1>6 DEF NewId

\* A bucket has at most Burst tokens, whatever its age.
LEMMA LevelBounds ==
  ASSUME LimiterTypes, NEW b \in Ids
  PROVE  Level(b) \in Nat /\ Level(b) <= Burst
<1>1. pool[b].tokens \in Nat /\ now - pool[b].filled \in Nat
  BY DEF LimiterTypes
<1>2. Rate * (now - pool[b].filled) \in Nat
  BY <1>1, Products, RequestAssumption
<1> QED BY <1>1, <1>2, RequestAssumption DEF Level

\* What is left of an address is between nothing and Burst.
LEMMA CreditBounds ==
  ASSUME LimiterTypes, NEW ip \in IPs
  PROVE  Credit(ip) \in Nat /\ Credit(ip) <= Burst
BY LevelBounds, RequestAssumption DEF Credit, LimiterTypes

\* A goroutine counts as one.
LEMMA StaleFinite ==
  ASSUME NEW ip
  PROVE  IsFiniteSet(Stale(ip)) /\ Cardinality(Stale(ip)) \in Nat
<1>1. Stale(ip) \in SUBSET Handlers
  BY DEF Stale
<1> QED BY <1>1, FS_Subset, FS_CardinalityType, RequestAssumption

\* A client's address is one the limiter knows, and the one its grants count for.
LEMMA WhoAsks ==
  ASSUME LimiterTypes, NEW r \in conf.clients
  PROVE  ClientIP(r) \in IPs /\ Counted(r) = ClientIP(r)
BY RequestAssumption DEF LimiterTypes, ClientIP, Counted

-----------------------------------------------------------------------------
(* What the steps of the limiter change, field by field                     *)

\* Every goroutine but h stays where it is.
Rest(h) == \A g \in Handlers \ {h} : handler'[g] = handler[g]

\* h goes to the point p and holds the bucket b; its request stays.
Holds(h, p, b) ==
  /\ HandlersOK' /\ Rest(h)
  /\ handler'[h].at = p /\ handler'[h].bucket = b
  /\ handler'[h].ip = handler[h].ip /\ handler'[h].req = handler[h].req

\* h holds no bucket, before or after, and asks for none unless it has just come.
Unrelated(h) ==
  /\ handler[h].bucket = NoBucket /\ handler'[h].bucket = NoBucket
  /\ handler'[h].at \notin {"touch", "allow"}
  /\ handler'[h].at \in {"load", "store"} =>
        handler'[h].ip \in IPs /\ Counted(handler[h].req)' = handler'[h].ip

\* The steps that leave the limiter and the clock alone.
Beside ==
  /\ UNCHANGED <<conf, now, limiter, granted, slack>>
  /\ HandlersOK'
  /\ \A h \in Handlers : handler'[h] = handler[h] \/ Unrelated(h)

\* The state Arrive leaves a goroutine in that asks for a token.
LEMMA LoadState ==
  ASSUME NEW q, NEW i
  PROVE  [Idle EXCEPT !.at = "load", !.req = q, !.ip = i] =
           [at |-> "load", req |-> q, ip |-> i, bucket |-> NoBucket, next |-> Defaults]
<1>1. [Idle EXCEPT !.at = "load"] =
        [at |-> "load", req |-> NoHeader, ip |-> NoIP, bucket |-> NoBucket, next |-> Defaults]
  BY DEF Idle
<1>2. [[at |-> "load", req |-> NoHeader, ip |-> NoIP, bucket |-> NoBucket,
        next |-> Defaults] EXCEPT !.req = q] =
        [at |-> "load", req |-> q, ip |-> NoIP, bucket |-> NoBucket, next |-> Defaults]
  OBVIOUS
<1>3. [[at |-> "load", req |-> q, ip |-> NoIP, bucket |-> NoBucket,
        next |-> Defaults] EXCEPT !.ip = i] =
        [at |-> "load", req |-> q, ip |-> i, bucket |-> NoBucket, next |-> Defaults]
  OBVIOUS
<1> QED BY <1>1, <1>2, <1>3

Becomes(h, p, q, i) ==
  handler' = [handler EXCEPT ![h] =
    [at |-> p, req |-> q, ip |-> i, bucket |-> NoBucket, next |-> Defaults]]

\* A goroutine that starts anew holds no bucket.
LEMMA BecomesOK ==
  ASSUME HandlersOK, NEW h \in Handlers, NEW p, NEW q, NEW i, Becomes(h, p, q, i)
  PROVE  /\ HandlersOK' /\ Rest(h)
         /\ handler'[h].at = p /\ handler'[h].bucket = NoBucket
         /\ handler'[h].ip = i /\ handler'[h].req = q
<1> DEFINE new == [at |-> p, req |-> q, ip |-> i, bucket |-> NoBucket, next |-> Defaults]
<1>1. handler' = [handler EXCEPT ![h] = new]
  BY DEF Becomes
<1>2. new.at = p /\ new.bucket = NoBucket /\ new.ip = i /\ new.req = q
  OBVIOUS
<1>3. \E a1, r1, i1, b1, n1 : new =
        [at |-> a1, req |-> r1, ip |-> i1, bucket |-> b1, next |-> n1]
  OBVIOUS
<1> HIDE DEF new
<1>4. handler'[h] = new /\ handler' = [g \in Handlers |-> handler'[g]] /\ Rest(h)
  BY <1>1 DEF HandlersOK, Rest
<1> QED BY <1>2, <1>3, <1>4 DEF HandlersOK, Rest

\* A goroutine that arrives asks for a token or goes on.
LEMMA ArriveBecomes ==
  ASSUME NEW h \in Handlers, NEW r \in conf.clients, Arrive(h, r)
  PROVE  Becomes(h, "serve", r, NoIP) \/ Becomes(h, "load", r, ClientIP(r))
<1>1. CASE Unlimited(r)
  <2>1. handler' = [handler EXCEPT ![h] = [Idle EXCEPT !.at = "serve", !.req = r]]
    BY <1>1 DEF Arrive
  <2> QED BY <2>1, ServeState DEF Becomes
<1>2. CASE ~Unlimited(r)
  <2>1. handler' = [handler EXCEPT ![h] =
          [Idle EXCEPT !.at = "load", !.req = r, !.ip = ClientIP(r)]]
    BY <1>2 DEF Arrive
  <2> QED BY <2>1, LoadState DEF Becomes
<1> QED BY <1>1, <1>2

\* A goroutine that arrives asks for a token unless it is exempt.
LEMMA ArriveBeside ==
  ASSUME LimiterShape, NEW h \in Handlers, NEW r \in conf.clients, Arrive(h, r)
  PROVE  Beside
<1>1. UNCHANGED <<conf, now, limiter, granted, slack>> /\ At(h, "idle")
  BY DEF Arrive, history
<1>2. handler[h].bucket = NoBucket /\ HandlersOK
  BY <1>1 DEF LimiterShape, Asking, At
<1>3. ClientIP(r) \in IPs /\ Counted(r) = ClientIP(r)
  BY WhoAsks DEF LimiterShape
<1>4. Becomes(h, "serve", r, NoIP) \/ Becomes(h, "load", r, ClientIP(r))
  BY ArriveBecomes
<1>5. CASE Becomes(h, "serve", r, NoIP)
  <2>1. /\ HandlersOK' /\ Rest(h)
        /\ handler'[h].at = "serve" /\ handler'[h].bucket = NoBucket
    BY <1>2, <1>5, BecomesOK
  <2> QED BY <1>1, <1>2, <2>1 DEF Beside, Unrelated, Rest
<1>6. CASE Becomes(h, "load", r, ClientIP(r))
  <2> DEFINE i == ClientIP(r)
  <2>1. i \in IPs /\ Counted(r) = i /\ Becomes(h, "load", r, i)
    BY <1>3, <1>6
  <2>2. Counted(r)' = Counted(r)
    BY <1>1 DEF Counted, ClientIP
  <2> HIDE DEF i
  <2>3. /\ HandlersOK' /\ Rest(h)
        /\ handler'[h].at = "load" /\ handler'[h].bucket = NoBucket
        /\ handler'[h].ip = i /\ handler'[h].req = r
    BY <1>2, <2>1, BecomesOK
  <2>4. Counted(handler[h].req)' = i
    <3>1. Counted(handler[h].req)' = Counted(r)'
      BY <2>3 DEF Counted, ClientIP
    <3> QED BY <2>1, <2>2, <3>1
  <2> QED BY <1>1, <1>2, <2>1, <2>3, <2>4 DEF Beside, Unrelated, Rest
<1> QED BY <1>4, <1>5, <1>6

\* What a goroutine does once it is past the limiter is not the limiter's business.
LEMMA BesideSteps ==
  ASSUME LimiterShape,
         \/ \E h \in Handlers :
              \/ \E c \in Cookies : Serve(h, c)
              \/ BeginUpdate(h) \/ WriteFile(h) \/ WriteFails(h) \/ Publish(h)
         \/ Start \/ StartFails \/ UNCHANGED vars
  PROVE  Beside
<1>0. HandlersOK
  BY DEF LimiterShape
<1>1. ASSUME NEW h \in Handlers,
             UNCHANGED <<conf, now, limiter, granted, slack>>,
             handler[h].at \notin {"touch", "allow"},
             \/ Leave(h)
             \/ \E p \in {"lock", "publish"} : Move(h, p)
             \/ \E m : MoveWith(h, "write", m)
      PROVE  Beside
  <2>1. handler[h].bucket = NoBucket
    BY <1>1 DEF LimiterShape, Asking
  <2>2. HandlersOK' /\ Rest(h) /\ handler'[h].bucket = NoBucket
        /\ handler'[h].at \in {"idle", "lock", "publish", "write"}
    <3>1. CASE Leave(h)
      BY <1>0, <3>1, LeaveOK DEF Rest
    <3>2. ASSUME NEW p \in {"lock", "publish"}, Move(h, p)
          PROVE  HandlersOK' /\ Rest(h) /\ handler'[h].bucket = NoBucket /\ handler'[h].at = p
      BY <1>0, <2>1, <3>2, MoveOK DEF Rest
    <3>3. ASSUME NEW m, MoveWith(h, "write", m)
          PROVE  HandlersOK' /\ Rest(h) /\ handler'[h].bucket = NoBucket /\ handler'[h].at = "write"
      BY <1>0, <2>1, <3>3, MergedOK DEF Rest
    <3> QED BY <1>1, <3>1, <3>2, <3>3
  <2> QED BY <1>1, <2>1, <2>2 DEF Beside, Unrelated, Rest
<1>2. ASSUME NEW h \in Handlers, NEW c \in Cookies, Serve(h, c) PROVE Beside
  BY <1>1, <1>2 DEF Serve, At
<1>3. ASSUME NEW h \in Handlers, BeginUpdate(h) PROVE Beside
  <2>1. UNCHANGED <<conf, now, limiter, granted, slack>> /\ At(h, "lock")
    BY <1>3 DEF BeginUpdate, history
  <2>2. Leave(h) \/ \E m : MoveWith(h, "write", m)
    BY <1>3 DEF BeginUpdate, MoveWith
  <2> QED BY <1>1, <2>1, <2>2 DEF At
<1>4. ASSUME NEW h \in Handlers, WriteFile(h) PROVE Beside
  BY <1>1, <1>4 DEF WriteFile, At
<1>5. ASSUME NEW h \in Handlers, WriteFails(h) PROVE Beside
  BY <1>1, <1>5 DEF WriteFails, At, history
<1>6. ASSUME NEW h \in Handlers, Publish(h) PROVE Beside
  BY <1>1, <1>6 DEF Publish, At, history
<1>7. ASSUME Start \/ StartFails \/ UNCHANGED vars PROVE Beside
  <2>1. UNCHANGED <<conf, now, limiter, granted, slack, handler>>
    BY <1>7 DEF Start, StartFails, vars, history
  <2> QED BY <1>0, <2>1 DEF Beside, HandlersOK
<1> QED BY <1>2, <1>3, <1>4, <1>5, <1>6, <1>7

\* BucketOK, for a step that is named.
LEMMA GoesOK ==
  ASSUME HandlersOK, NEW h \in Handlers, NEW p, NEW b, Goes(h, p, b)
  PROVE  Holds(h, p, b)
BY BucketOK DEF Holds, Rest

\* Load: the bucket of the address, if there is one.
LEMMA LoadEffect ==
  ASSUME LimiterShape, NEW h \in Handlers, LoadBucket(h)
  PROVE  /\ UNCHANGED <<conf, now, limiter, granted, slack>>
         /\ handler[h].at = "load" /\ handler[h].bucket = NoBucket /\ handler[h].ip \in IPs
         /\ \/ buckets[handler[h].ip] = NoBucket /\ Holds(h, "store", NoBucket)
            \/ /\ buckets[handler[h].ip] # NoBucket
               /\ Holds(h, "touch", buckets[handler[h].ip])
<1>1. UNCHANGED <<conf, now, limiter, granted, slack>> /\ handler[h].at = "load"
  BY DEF LoadBucket, At, history
<1>2. HandlersOK /\ handler[h].bucket = NoBucket /\ handler[h].ip \in IPs
  BY <1>1 DEF LimiterShape, Asking, Asks
<1> DEFINE k == buckets[handler[h].ip]
<1>3. Goes(h, IF k = NoBucket THEN "store" ELSE "touch", k)
  BY DEF LoadBucket, Goes
<1> HIDE DEF k
<1>4. CASE k = NoBucket
  BY <1>1, <1>2, <1>3, <1>4, GoesOK DEF k
<1>5. CASE k # NoBucket
  BY <1>1, <1>2, <1>3, <1>5, GoesOK DEF k
<1> QED BY <1>4, <1>5

\* LoadOrStore: a new bucket, or that of the winner.
LEMMA StoreEffect ==
  ASSUME LimiterShape, NEW h \in Handlers, StoreBucket(h)
  PROVE  /\ UNCHANGED <<conf, now, cleaner, granted, slack>>
         /\ handler[h].at = "store" /\ handler[h].bucket = NoBucket /\ handler[h].ip \in IPs
         /\ \/ /\ buckets[handler[h].ip] # NoBucket
               /\ UNCHANGED <<buckets, pool>>
               /\ Holds(h, "allow", buckets[handler[h].ip])
            \/ /\ buckets[handler[h].ip] = NoBucket
               /\ buckets' = [buckets EXCEPT ![handler[h].ip] = NewId]
               /\ pool' = [pool EXCEPT ![NewId] = Full]
               /\ Holds(h, "allow", NewId)
<1>1. UNCHANGED <<conf, now, cleaner, granted, slack>> /\ handler[h].at = "store"
  BY DEF StoreBucket, At, history
<1>2. HandlersOK /\ handler[h].bucket = NoBucket /\ handler[h].ip \in IPs
  BY <1>1 DEF LimiterShape, Asking, Asks
<1> DEFINE i == handler[h].ip
<1>3. /\ buckets' = [buckets EXCEPT ![i] = IF buckets[i] = NoBucket THEN NewId ELSE @]
      /\ pool' = IF buckets[i] = NoBucket THEN [pool EXCEPT ![NewId] = Full] ELSE pool
      /\ Goes(h, "allow", buckets'[i])
  BY DEF StoreBucket, Goes
<1>4. i \in IPs /\ buckets \in [IPs -> {NoBucket} \union Ids]
  BY <1>2 DEF LimiterShape, LimiterTypes
<1> HIDE DEF i
<1>5. CASE buckets[i] # NoBucket
  <2>1. buckets' = buckets
    BY <1>3, <1>4, <1>5
  <2>2. Goes(h, "allow", buckets[i])
    BY <1>3, <2>1
  <2> QED BY <1>1, <1>2, <1>3, <1>5, <2>1, <2>2, GoesOK DEF i
<1>6. CASE buckets[i] = NoBucket
  <2>1. buckets' = [buckets EXCEPT ![i] = NewId] /\ buckets'[i] = NewId
    BY <1>3, <1>4, <1>6
  <2>2. Goes(h, "allow", NewId)
    BY <1>3, <2>1
  <2> QED BY <1>1, <1>2, <1>3, <1>6, <2>1, <2>2, GoesOK DEF i
<1> QED BY <1>5, <1>6

BucketTypes == pool \in [Ids -> [tokens : Nat, filled : Nat, seen : Nat]]
SetsSeen(b) == pool' = [pool EXCEPT ![b].seen = now]
Takes(b) == pool' = [pool EXCEPT ![b].tokens = Level(b) - 1, ![b].filled = now]

\* A bucket that is refreshed keeps its tokens.
LEMMA SeenEffect ==
  ASSUME BucketTypes, now \in Nat, NEW b \in Ids, SetsSeen(b)
  PROVE  /\ BucketTypes'
         /\ \A c \in Ids : /\ pool'[c].tokens = pool[c].tokens
                           /\ pool'[c].filled = pool[c].filled
                           /\ pool'[c].seen \in {pool[c].seen, now}
<1>1. PICK t \in Nat, f \in Nat, s \in Nat : pool[b] = [tokens |-> t, filled |-> f, seen |-> s]
  BY DEF BucketTypes
<1>2. pool'[b] = [tokens |-> t, filled |-> f, seen |-> now]
  BY <1>1 DEF SetsSeen, BucketTypes
<1>3. pool' = [c \in Ids |-> pool'[c]] /\ \A c \in Ids \ {b} : pool'[c] = pool[c]
  BY DEF SetsSeen, BucketTypes
<1>4. pool'[b].tokens = t /\ pool'[b].filled = f /\ pool'[b].seen = now
      /\ pool[b].tokens = t /\ pool[b].filled = f
      /\ pool'[b] \in [tokens : Nat, filled : Nat, seen : Nat]
  BY <1>1, <1>2
<1>5. BucketTypes'
  BY <1>3, <1>4 DEF BucketTypes
<1> QED BY <1>3, <1>4, <1>5

\* A bucket that gives a token has one less, and is filled from now on.
LEMMA TakeEffect ==
  ASSUME BucketTypes, now \in Nat, NEW b \in Ids, Takes(b), Level(b) \in Nat \ {0}
  PROVE  /\ BucketTypes'
         /\ pool'[b].tokens = Level(b) - 1 /\ pool'[b].filled = now
         /\ pool'[b].seen = pool[b].seen
         /\ \A c \in Ids \ {b} : pool'[c] = pool[c]
<1>1. PICK t \in Nat, f \in Nat, s \in Nat : pool[b] = [tokens |-> t, filled |-> f, seen |-> s]
  BY DEF BucketTypes
<1> DEFINE k == Level(b) - 1
           first == [pool EXCEPT ![b].tokens = k]
<1>2. k \in Nat
  OBVIOUS
<1>3. pool' = [first EXCEPT ![b].filled = now]
  BY DEF Takes
<1>4. k = Level(b) - 1
  OBVIOUS
<1> HIDE DEF k
<1>5. first[b] = [tokens |-> k, filled |-> f, seen |-> s]
      /\ first = [c \in Ids |-> first[c]] /\ \A c \in Ids \ {b} : first[c] = pool[c]
  <2>1. [pool[b] EXCEPT !.tokens = k] = [tokens |-> k, filled |-> f, seen |-> s]
    BY <1>1
  <2>2. pool = [c \in Ids |-> pool[c]]
    BY DEF BucketTypes
  <2>3. first[b] = [pool[b] EXCEPT !.tokens = k]
    BY <2>2
  <2>4. first = [c \in Ids |-> first[c]] /\ \A c \in Ids \ {b} : first[c] = pool[c]
    BY <2>2
  <2> QED BY <2>1, <2>3, <2>4
<1> HIDE DEF first
<1>6. pool'[b] = [tokens |-> k, filled |-> now, seen |-> s]
  BY <1>3, <1>5
<1>7. pool' = [c \in Ids |-> pool'[c]] /\ \A c \in Ids \ {b} : pool'[c] = pool[c]
  BY <1>3, <1>5
<1>8. pool'[b] \in [tokens : Nat, filled : Nat, seen : Nat]
      /\ pool'[b].tokens = k /\ pool'[b].filled = now /\ pool'[b].seen = s /\ pool[b].seen = s
  BY <1>1, <1>2, <1>6
<1>9. BucketTypes'
  BY <1>7, <1>8 DEF BucketTypes
<1> QED BY <1>4, <1>7, <1>8, <1>9

\* lastSeen.Store: the tokens stay.
LEMMA TouchEffect ==
  ASSUME LimiterShape, NEW h \in Handlers, TouchBucket(h)
  PROVE  /\ UNCHANGED <<conf, now, buckets, cleaner, granted, slack>>
         /\ handler[h].at = "touch" /\ handler[h].bucket \in Ids /\ handler[h].ip \in IPs
         /\ Holds(h, "allow", handler[h].bucket)
         /\ BucketTypes'
         /\ \A c \in Ids : /\ pool'[c].tokens = pool[c].tokens
                           /\ pool'[c].filled = pool[c].filled
                           /\ pool'[c].seen \in {pool[c].seen, now}
<1>1. UNCHANGED <<conf, now, buckets, cleaner, granted, slack>> /\ handler[h].at = "touch"
  BY DEF TouchBucket, At, history
<1>2. HandlersOK /\ handler[h].bucket \in Ids /\ handler[h].ip \in IPs
  BY <1>1 DEF LimiterShape, Asking, Asks
<1>3. Holds(h, "allow", handler[h].bucket)
  <2>1. Move(h, "allow")
    BY DEF TouchBucket
  <2> QED BY <1>2, <2>1, MoveOK DEF Holds, Rest
<1>4. SetsSeen(handler[h].bucket)
  BY DEF TouchBucket, SetsSeen
<1>5. BucketTypes /\ now \in Nat
  BY DEF LimiterShape, LimiterTypes, BucketTypes
<1> QED BY <1>1, <1>2, <1>3, <1>4, <1>5, SeenEffect

\* Allow: a token and an answer, or 429.
LEMMA AllowEffect ==
  ASSUME LimiterShape, NEW h \in Handlers, Allow(h)
  PROVE  /\ UNCHANGED <<conf, now, buckets, cleaner, slack>>
         /\ handler[h].at = "allow" /\ handler[h].bucket \in Ids /\ handler[h].ip \in IPs
         /\ HandlersOK' /\ Rest(h) /\ handler'[h].bucket = NoBucket
         /\ handler'[h].at \in {"idle", "serve"}
         /\ \/ UNCHANGED <<pool, granted>>
            \/ /\ Level(handler[h].bucket) > 0
               /\ Takes(handler[h].bucket)
               /\ granted' = [granted EXCEPT ![handler[h].ip] = @ + 1]
<1>1. UNCHANGED <<conf, now, buckets, cleaner, slack>> /\ handler[h].at = "allow"
  BY DEF Allow, At
<1>2. HandlersOK /\ handler[h].bucket \in Ids /\ handler[h].ip \in IPs
      /\ Counted(handler[h].req) = handler[h].ip
  BY <1>1 DEF LimiterShape, Asking, Asks
<1>3. CASE Level(handler[h].bucket) > 0
  <2>1. Takes(handler[h].bucket)
    BY <1>3 DEF Allow, Takes
  <2>2. granted' = [granted EXCEPT ![Counted(handler[h].req)] = @ + 1]
    BY <1>3 DEF Allow
  <2>3. Becomes(h, "serve", handler[h].req, NoIP)
    <3>1. handler' = [handler EXCEPT ![h] = [Idle EXCEPT !.at = "serve", !.req = handler[h].req]]
      BY <1>3 DEF Allow
    <3> DEFINE q == handler[h].req
    <3>2. handler' = [handler EXCEPT ![h] = [Idle EXCEPT !.at = "serve", !.req = q]]
      BY <3>1
    <3> HIDE DEF q
    <3>3. Becomes(h, "serve", q, NoIP)
      BY <3>2, ServeState DEF Becomes
    <3> QED BY <3>3 DEF q
  <2>4. HandlersOK' /\ Rest(h) /\ handler'[h].at = "serve" /\ handler'[h].bucket = NoBucket
    BY <1>2, <2>3, BecomesOK
  <2> QED BY <1>1, <1>2, <1>3, <2>1, <2>2, <2>4
<1>4. CASE ~(Level(handler[h].bucket) > 0)
  <2>1. Leave(h) /\ UNCHANGED <<pool, granted>>
    BY <1>4 DEF Allow
  <2>2. HandlersOK' /\ Rest(h) /\ handler'[h].at = "idle" /\ handler'[h].bucket = NoBucket
    BY <1>2, <2>1, LeaveOK DEF Rest
  <2> QED BY <1>1, <1>2, <2>1, <2>2
<1> QED BY <1>3, <1>4

-----------------------------------------------------------------------------
(* The shape of the limiter stays                                           *)

\* A request counts for the same address as long as the process runs.
LEMMA CountedStays ==
  ASSUME UNCHANGED conf, NEW h, handler'[h].req = handler[h].req
  PROVE  Counted(handler[h].req)' = Counted(handler[h].req)
BY DEF Counted, ClientIP

\* A goroutine with a request of its own keeps it.
LEMMA AskingStays ==
  ASSUME LimiterShape, UNCHANGED conf, NEW h \in Handlers, Rest(h),
         handler'[h].bucket \in {NoBucket} \union Ids,
         handler'[h].bucket # NoBucket <=> handler'[h].at \in {"touch", "allow"},
         Asks(h)' => Asks(h) /\ handler'[h].ip = handler[h].ip /\ handler'[h].req = handler[h].req
  PROVE  Asking'
<1>1. Asking
  BY DEF LimiterShape
<1>2. ASSUME NEW g \in Handlers
      PROVE  /\ handler'[g].bucket \in {NoBucket} \union Ids
             /\ handler'[g].bucket # NoBucket <=> handler'[g].at \in {"touch", "allow"}
             /\ Asks(g)' => handler'[g].ip \in IPs /\ Counted(handler[g].req)' = handler'[g].ip
  <2>1. CASE g = h
    BY <1>1, <2>1, CountedStays DEF Asking
  <2>2. CASE g # h
    <3>1. handler'[g] = handler[g]
      BY <2>2 DEF Rest
    <3>2. Counted(handler[g].req)' = Counted(handler[g].req)
      BY <3>1, CountedStays
    <3> QED BY <1>1, <3>1, <3>2 DEF Asking, Asks
  <2> QED BY <2>1, <2>2
<1> QED BY <1>2 DEF Asking

\* The steps beside the limiter.
LEMMA BesideShape == LimiterShape /\ Beside => LimiterShape'
<1> SUFFICES ASSUME LimiterShape, Beside PROVE LimiterShape'
  OBVIOUS
<1>1. UNCHANGED <<conf, now, buckets, pool, cleaner, granted, slack>> /\ HandlersOK'
  BY DEF Beside, limiter
<1>2. \A h \in Handlers : handler'[h] = handler[h] \/ Unrelated(h)
  BY DEF Beside
<1>3. LimiterTypes' /\ DoomedIsThere'
  BY <1>1 DEF LimiterShape, LimiterTypes, DoomedIsThere
<1>4. Asking'
  <2>1. ASSUME NEW g \in Handlers
        PROVE  /\ handler'[g].bucket \in {NoBucket} \union Ids
               /\ handler'[g].bucket # NoBucket <=> handler'[g].at \in {"touch", "allow"}
               /\ Asks(g)' => handler'[g].ip \in IPs /\ Counted(handler[g].req)' = handler'[g].ip
    <3>1. CASE handler'[g] = handler[g]
      <4>1. Counted(handler[g].req)' = Counted(handler[g].req)
        BY <1>1, <3>1, CountedStays
      <4> QED BY <3>1, <4>1 DEF LimiterShape, Asking, Asks
    <3>2. CASE Unrelated(g)
      BY <3>2 DEF Unrelated, Asks
    <3> QED BY <1>2, <3>1, <3>2
  <2> QED BY <2>1 DEF Asking
<1>5. OwnBuckets'
  <2>1. \A g \in Handlers : handler'[g].bucket # NoBucket => handler'[g] = handler[g]
    BY <1>2 DEF Unrelated
  <2> QED BY <1>1, <2>1 DEF LimiterShape, OwnBuckets
<1> QED BY <1>1, <1>3, <1>4, <1>5 DEF LimiterShape

\* Load.
LEMMA LoadShape ==
  ASSUME LimiterShape, NEW h \in Handlers, LoadBucket(h), ~Beside
  PROVE  LimiterShape'
<1> DEFINE i == handler[h].ip
           b == buckets[i]
<1>1. /\ UNCHANGED <<conf, now, limiter, granted, slack>>
      /\ handler[h].at = "load" /\ handler[h].bucket = NoBucket /\ i \in IPs
      /\ \/ b = NoBucket /\ Holds(h, "store", NoBucket)
         \/ b # NoBucket /\ Holds(h, "touch", b)
  BY LoadEffect
<1>2. b # NoBucket /\ Holds(h, "touch", b)
  <2> SUFFICES ASSUME Holds(h, "store", NoBucket) PROVE FALSE
    BY <1>1
  <2>1. Counted(handler[h].req)' = handler[h].ip
    BY <1>1, CountedStays DEF Holds, LimiterShape, Asking, Asks
  <2> QED BY <1>1, <2>1 DEF Holds, Beside, Unrelated, Rest
<1>3. UNCHANGED <<conf, now, buckets, pool, cleaner, granted, slack>> /\ HandlersOK' /\ Rest(h)
  BY <1>1, <1>2 DEF limiter, Holds
<1>4. LimiterTypes' /\ DoomedIsThere'
  BY <1>3 DEF LimiterShape, LimiterTypes, DoomedIsThere
<1>5. b \in Ids
  BY <1>1, <1>2 DEF LimiterShape, LimiterTypes
<1>6. Asking'
  BY <1>1, <1>2, <1>3, <1>5, AskingStays DEF Holds, Asks
<1>7. OwnBuckets'
  <2>1. OwnBuckets
    BY DEF LimiterShape
  <2>2. handler'[h].bucket = b /\ handler'[h].ip = i
    BY <1>2 DEF Holds
  <2> HIDE DEF b
  <2>3. b = buckets[i]
    BY DEF b
  <2> HIDE DEF i
  <2> QED BY <1>1, <1>2, <1>3, <2>1, <2>2, <2>3 DEF OwnBuckets, Rest
<1> QED BY <1>3, <1>4, <1>6, <1>7 DEF LimiterShape

\* LoadOrStore.
LEMMA StoreShape ==
  ASSUME LimiterShape, NEW h \in Handlers, StoreBucket(h)
  PROVE  LimiterShape'
<1> DEFINE i == handler[h].ip
<1>1. /\ UNCHANGED <<conf, now, cleaner, granted, slack>>
      /\ handler[h].at = "store" /\ handler[h].bucket = NoBucket /\ i \in IPs
  BY StoreEffect
<1>2. \/ /\ buckets[i] # NoBucket /\ UNCHANGED <<buckets, pool>>
         /\ Holds(h, "allow", buckets[i])
      \/ /\ buckets[i] = NoBucket
         /\ buckets' = [buckets EXCEPT ![i] = NewId]
         /\ pool' = [pool EXCEPT ![NewId] = Full]
         /\ Holds(h, "allow", NewId)
  BY StoreEffect
<1>3. buckets \in [IPs -> {NoBucket} \union Ids] /\ OwnBuckets
  BY DEF LimiterShape, LimiterTypes
<1> HIDE DEF i
<1>4. CASE buckets[i] # NoBucket
  <2>1. UNCHANGED <<buckets, pool>> /\ Holds(h, "allow", buckets[i])
    BY <1>2, <1>4
  <2>2. LimiterTypes' /\ DoomedIsThere'
    BY <1>1, <2>1 DEF LimiterShape, LimiterTypes, DoomedIsThere
  <2>3. buckets[i] \in Ids
    BY <1>1, <1>3, <1>4
  <2>4. Asking'
    BY <1>1, <2>1, <2>3, IdsCount, AskingStays DEF Holds, Asks
  <2>5. OwnBuckets'
    BY <1>1, <1>3, <1>4, <2>1 DEF OwnBuckets, Holds, Rest, i
  <2> QED BY <2>1, <2>2, <2>4, <2>5 DEF LimiterShape, Holds
<1>5. CASE buckets[i] = NoBucket
  <2> DEFINE k == NewId
  <2>1. buckets' = [buckets EXCEPT ![i] = k] /\ pool' = [pool EXCEPT ![k] = Full]
        /\ Holds(h, "allow", k)
    BY <1>2, <1>5
  <2>2. k \in Ids /\ k # NoBucket /\ (\A j \in IPs : buckets[j] # k)
        /\ \A g \in Handlers : handler[g].bucket # k
    BY <1>1, <1>3, FreshId, IdsCount DEF Stored, Held
  <2> HIDE DEF k
  <2>3. buckets'[i] = k /\ \A j \in IPs \ {i} : buckets'[j] = buckets[j]
    BY <1>1, <1>3, <2>1
  <2>4. LimiterTypes'
    <3>1. Full = [tokens |-> Burst, filled |-> now, seen |-> now]
      BY DEF Full
    <3>2. Full \in [tokens : Nat, filled : Nat, seen : Nat]
          /\ Full.tokens = Burst /\ Full.filled = now /\ Full.seen = now
      BY <3>1, RequestAssumption DEF LimiterShape, LimiterTypes
    <3>3. pool \in [Ids -> [tokens : Nat, filled : Nat, seen : Nat]]
          /\ \A c \in Ids : pool[c].tokens <= Burst /\ pool[c].filled <= now /\ pool[c].seen <= now
          /\ now \in Nat
      BY DEF LimiterShape, LimiterTypes
    <3> HIDE DEF Full
    <3>4. pool' \in [Ids -> [tokens : Nat, filled : Nat, seen : Nat]]
          /\ pool'[k] = Full /\ \A c \in Ids \ {k} : pool'[c] = pool[c]
      BY <2>1, <2>2, <3>2, <3>3
    <3>5. \A c \in Ids : pool'[c].tokens <= Burst /\ pool'[c].filled <= now /\ pool'[c].seen <= now
      BY <3>2, <3>3, <3>4, RequestAssumption
    <3>6. buckets' \in [IPs -> {NoBucket} \union Ids]
      BY <1>1, <1>3, <2>1, <2>2
    <3> QED BY <1>1, <3>4, <3>5, <3>6 DEF LimiterShape, LimiterTypes
  <2>5. DoomedIsThere'
    BY <1>1, <1>3, <2>2, <2>3 DEF LimiterShape, LimiterTypes, DoomedIsThere
  <2>6. Asking'
    BY <1>1, <2>1, <2>2, AskingStays DEF Holds, Asks
  <2>7. OwnBuckets'
    <3>1. handler'[h].bucket = k /\ handler'[h].ip = i
      BY <2>1 DEF Holds, i
    <3>2. \A g \in Handlers \ {h} : handler'[g] = handler[g]
      BY <2>1 DEF Holds, Rest
    <3> QED BY <1>1, <1>3, <2>2, <2>3, <3>1, <3>2 DEF OwnBuckets
  <2> QED BY <2>1, <2>4, <2>5, <2>6, <2>7 DEF LimiterShape, Holds
<1> QED BY <1>4, <1>5

\* lastSeen.Store.
LEMMA TouchShape ==
  ASSUME LimiterShape, NEW h \in Handlers, TouchBucket(h)
  PROVE  LimiterShape'
<1>1. /\ UNCHANGED <<conf, now, buckets, cleaner, granted, slack>>
      /\ handler[h].at = "touch" /\ handler[h].bucket \in Ids /\ handler[h].ip \in IPs
      /\ Holds(h, "allow", handler[h].bucket)
      /\ BucketTypes'
      /\ \A c \in Ids : /\ pool'[c].tokens = pool[c].tokens
                        /\ pool'[c].filled = pool[c].filled
                        /\ pool'[c].seen \in {pool[c].seen, now}
  BY TouchEffect
<1>2. LimiterTypes'
  BY <1>1 DEF LimiterShape, LimiterTypes, BucketTypes
<1>3. Asking'
  BY <1>1, IdsCount, AskingStays DEF Holds, Asks
<1>4. OwnBuckets' /\ DoomedIsThere'
  BY <1>1 DEF LimiterShape, OwnBuckets, DoomedIsThere, Holds, Rest
<1> QED BY <1>1, <1>2, <1>3, <1>4 DEF LimiterShape, Holds

\* Allow.
LEMMA AllowShape ==
  ASSUME LimiterShape, NEW h \in Handlers, Allow(h)
  PROVE  LimiterShape'
<1>1. /\ UNCHANGED <<conf, now, buckets, cleaner, slack>>
      /\ handler[h].at = "allow" /\ handler[h].bucket \in Ids /\ handler[h].ip \in IPs
      /\ HandlersOK' /\ Rest(h) /\ handler'[h].bucket = NoBucket
      /\ handler'[h].at \in {"idle", "serve"}
      /\ \/ UNCHANGED <<pool, granted>>
         \/ /\ Level(handler[h].bucket) > 0
            /\ Takes(handler[h].bucket)
            /\ granted' = [granted EXCEPT ![handler[h].ip] = @ + 1]
  BY AllowEffect
<1>2. Asking'
  BY <1>1, AskingStays DEF Asks
<1>3. OwnBuckets' /\ DoomedIsThere'
  BY <1>1 DEF LimiterShape, OwnBuckets, DoomedIsThere, Rest
<1>4. LimiterTypes'
  <2>1. CASE UNCHANGED <<pool, granted>>
    BY <1>1, <2>1 DEF LimiterShape, LimiterTypes
  <2>2. CASE Takes(handler[h].bucket) /\ Level(handler[h].bucket) > 0
             /\ granted' = [granted EXCEPT ![handler[h].ip] = @ + 1]
    <3> DEFINE b == handler[h].bucket
    <3>1. Level(b) \in Nat \ {0} /\ Level(b) <= Burst /\ b \in Ids
      BY <1>1, <2>2, LevelBounds DEF LimiterShape
    <3>2. BucketTypes /\ now \in Nat
      BY DEF LimiterShape, LimiterTypes, BucketTypes
    <3>3. Takes(b)
      BY <2>2
    <3> HIDE DEF b
    <3>4. /\ BucketTypes'
          /\ pool'[b].tokens = Level(b) - 1 /\ pool'[b].filled = now
          /\ pool'[b].seen = pool[b].seen
          /\ \A c \in Ids \ {b} : pool'[c] = pool[c]
      BY <3>1, <3>2, <3>3, TakeEffect
    <3>5. \A c \in Ids : pool'[c].tokens <= Burst /\ pool'[c].filled <= now /\ pool'[c].seen <= now
      <4>1. \A c \in Ids : pool[c].tokens <= Burst /\ pool[c].filled <= now /\ pool[c].seen <= now
        BY DEF LimiterShape, LimiterTypes
      <4> QED BY <3>1, <3>2, <3>4, <4>1, RequestAssumption
    <3>6. granted' \in [IPs -> Nat]
      BY <1>1, <2>2 DEF LimiterShape, LimiterTypes
    <3> QED BY <1>1, <3>4, <3>5, <3>6 DEF LimiterShape, LimiterTypes, BucketTypes
  <2> QED BY <1>1, <2>1, <2>2
<1> QED BY <1>1, <1>2, <1>3, <1>4 DEF LimiterShape

\* The steps of the cleanup but its Delete.
LEMMA CheckShape ==
  ASSUME LimiterShape, CleanupBegins \/ \E ip \in IPs : CleanupChecks(ip)
  PROVE  LimiterShape' /\ UNCHANGED <<conf, now, buckets, pool, handler, granted, slack>>
<1>1. UNCHANGED <<conf, now, buckets, pool, handler, granted, slack>>
  BY DEF CleanupBegins, CleanupChecks, history
<1>2. /\ cleaner' \in [now : Nat, left : SUBSET IPs, doomed : IPs \union {NoIP}]
      /\ cleaner'.now <= now
      /\ cleaner'.doomed # NoIP => buckets[cleaner'.doomed] # NoBucket
  <2>1. CASE CleanupBegins
    <3>1. cleaner' = [now |-> now, left |-> {ip \in IPs : buckets[ip] # NoBucket}, doomed |-> NoIP]
      BY <2>1 DEF CleanupBegins
    <3>2. now \in Nat
      BY DEF LimiterShape, LimiterTypes
    <3> QED BY <3>1, <3>2
  <2>2. ASSUME NEW ip \in IPs, CleanupChecks(ip)
        PROVE  /\ cleaner' \in [now : Nat, left : SUBSET IPs, doomed : IPs \union {NoIP}]
               /\ cleaner'.now <= now
               /\ cleaner'.doomed # NoIP => buckets[cleaner'.doomed] # NoBucket
    <3> DEFINE d == IF /\ buckets[ip] # NoBucket
                       /\ cleaner.now > pool[buckets[ip]].seen + MaxIdle THEN ip ELSE NoIP
               l == cleaner.left \ {ip}
               first == [cleaner EXCEPT !.left = l]
    <3>1. cleaner' = [first EXCEPT !.doomed = d]
      BY <2>2 DEF CleanupChecks
    <3>2. d \in IPs \union {NoIP} /\ (d # NoIP => buckets[d] # NoBucket)
      OBVIOUS
    <3>3. PICK t \in Nat, s \in SUBSET IPs, x \in IPs \union {NoIP} :
            cleaner = [now |-> t, left |-> s, doomed |-> x]
      BY DEF LimiterShape, LimiterTypes
    <3>4. l \in SUBSET IPs /\ t <= now
      BY <3>3 DEF LimiterShape, LimiterTypes
    <3> HIDE DEF d, l
    <3>5. first = [now |-> t, left |-> l, doomed |-> x]
      BY <3>3
    <3> HIDE DEF first
    <3>6. cleaner' = [now |-> t, left |-> l, doomed |-> d]
      BY <3>1, <3>5
    <3> QED BY <3>2, <3>3, <3>4, <3>6
  <2> QED BY <2>1, <2>2
<1>3. HandlersOK' /\ LimiterTypes' /\ OwnBuckets' /\ DoomedIsThere'
  BY <1>1, <1>2 DEF LimiterShape, HandlersOK, LimiterTypes, OwnBuckets, DoomedIsThere
<1>4. Asking'
  BY <1>1, CountedStays DEF LimiterShape, Asking, Asks
<1> QED BY <1>1, <1>3, <1>4 DEF LimiterShape

\* Delete: the address has no bucket, and one that nobody holds is blank again.
LEMMA DeleteEffect ==
  ASSUME LimiterShape, CleanupDeletes
  PROVE  /\ UNCHANGED <<conf, now, handler, granted>>
         /\ cleaner.doomed \in IPs /\ buckets[cleaner.doomed] \in Ids
         /\ buckets' = [buckets EXCEPT ![cleaner.doomed] = NoBucket]
         /\ pool' = pool \/ pool' = [pool EXCEPT ![buckets[cleaner.doomed]] = Unused]
         /\ slack' = [slack EXCEPT ![cleaner.doomed] = @ +
              (IF InUse(buckets[cleaner.doomed])
               THEN Burst + Cardinality(HeldBy(buckets[cleaner.doomed])) ELSE 0)]
         /\ cleaner' = [cleaner EXCEPT !.doomed = NoIP]
<1>1. cleaner.doomed # NoIP
  BY DEF CleanupDeletes
<1>2. cleaner.doomed \in IPs /\ buckets[cleaner.doomed] \in Ids
  BY <1>1 DEF LimiterShape, LimiterTypes, DoomedIsThere
<1>3. UNCHANGED <<conf, now, handler, granted>>
  BY DEF CleanupDeletes
<1>4. pool' = pool \/ pool' = [pool EXCEPT ![buckets[cleaner.doomed]] = Unused]
  BY DEF CleanupDeletes
<1> QED BY <1>2, <1>3, <1>4 DEF CleanupDeletes

\* The goroutines that hold a bucket can be counted.
LEMMA HeldByCount ==
  ASSUME NEW b
  PROVE  IsFiniteSet(HeldBy(b)) /\ Cardinality(HeldBy(b)) \in Nat
<1>1. HeldBy(b) \in SUBSET Handlers
  BY DEF HeldBy
<1> QED BY <1>1, FS_Subset, FS_CardinalityType, RequestAssumption

\* Delete.
LEMMA DeleteShape ==
  ASSUME LimiterShape, CleanupDeletes
  PROVE  LimiterShape'
<1> DEFINE i == cleaner.doomed
           b == buckets[i]
           more == IF InUse(b) THEN Burst + Cardinality(HeldBy(b)) ELSE 0
<1>1. /\ UNCHANGED <<conf, now, handler, granted>>
      /\ i \in IPs /\ b \in Ids
      /\ buckets' = [buckets EXCEPT ![i] = NoBucket]
      /\ pool' = pool \/ pool' = [pool EXCEPT ![b] = Unused]
      /\ slack' = [slack EXCEPT ![i] = @ + more]
      /\ cleaner' = [cleaner EXCEPT !.doomed = NoIP]
  BY DeleteEffect
<1>2. more \in Nat
  BY HeldByCount, RequestAssumption
<1>3. cleaner' \in [now : Nat, left : SUBSET IPs, doomed : IPs \union {NoIP}]
      /\ cleaner'.now <= now /\ cleaner'.doomed = NoIP
  <2>1. PICK t \in Nat, s \in SUBSET IPs, x \in IPs \union {NoIP} :
          cleaner = [now |-> t, left |-> s, doomed |-> x]
    BY DEF LimiterShape, LimiterTypes
  <2>2. t <= now
    BY <2>1 DEF LimiterShape, LimiterTypes
  <2>3. cleaner' = [now |-> t, left |-> s, doomed |-> NoIP]
    BY <1>1, <2>1
  <2> QED BY <2>1, <2>2, <2>3
<1> HIDE DEF b, i, more
<1>4. /\ pool' \in [Ids -> [tokens : Nat, filled : Nat, seen : Nat]]
      /\ \A c \in Ids : pool'[c].tokens <= Burst /\ pool'[c].filled <= now /\ pool'[c].seen <= now
  <2>1. Unused \in [tokens : Nat, filled : Nat, seen : Nat]
        /\ Unused.tokens = 0 /\ Unused.filled = 0 /\ Unused.seen = 0
    BY DEF Unused
  <2>2. /\ pool \in [Ids -> [tokens : Nat, filled : Nat, seen : Nat]] /\ now \in Nat
        /\ \A c \in Ids : pool[c].tokens <= Burst /\ pool[c].filled <= now /\ pool[c].seen <= now
    BY DEF LimiterShape, LimiterTypes
  <2> HIDE DEF Unused
  <2>3. CASE pool' = pool
    BY <2>2, <2>3
  <2>4. CASE pool' = [pool EXCEPT ![b] = Unused]
    <3>1. pool' \in [Ids -> [tokens : Nat, filled : Nat, seen : Nat]]
          /\ \A c \in Ids : pool'[c] = Unused \/ pool'[c] = pool[c]
      BY <2>1, <2>2, <2>4
    <3> QED BY <2>1, <2>2, <3>1, RequestAssumption
  <2> QED BY <1>1, <2>3, <2>4
<1>5. buckets' \in [IPs -> {NoBucket} \union Ids] /\ slack' \in [IPs -> Nat]
      /\ \A j \in IPs : buckets'[j] \in {NoBucket, buckets[j]}
  BY <1>1, <1>2 DEF LimiterShape, LimiterTypes
<1>6. LimiterTypes' /\ DoomedIsThere'
  BY <1>1, <1>3, <1>4, <1>5 DEF LimiterShape, LimiterTypes, DoomedIsThere
<1>7. HandlersOK' /\ OwnBuckets'
  BY <1>1, <1>5 DEF LimiterShape, HandlersOK, OwnBuckets
<1>8. Asking'
  BY <1>1, CountedStays DEF LimiterShape, Asking, Asks
<1> QED BY <1>6, <1>7, <1>8 DEF LimiterShape

\* The clock.
LEMMA TickShape ==
  ASSUME LimiterShape, Tick
  PROVE  /\ LimiterShape' /\ now' = now + 1
         /\ UNCHANGED <<conf, buckets, pool, handler, granted, slack>>
<1>1. UNCHANGED <<conf, buckets, pool, cleaner, handler, granted, slack>> /\ now' = now + 1
  BY DEF Tick, limiter, history
<1>2. LimiterTypes'
  BY <1>1 DEF LimiterShape, LimiterTypes
<1>3. HandlersOK' /\ OwnBuckets' /\ DoomedIsThere'
  BY <1>1 DEF LimiterShape, HandlersOK, OwnBuckets, DoomedIsThere
<1>4. Asking'
  BY <1>1, CountedStays DEF LimiterShape, Asking, Asks
<1> QED BY <1>1, <1>2, <1>3, <1>4 DEF LimiterShape

EmptyLimiter ==
  /\ conf \in Configs /\ now \in Nat
  /\ buckets = NoBuckets /\ pool = EmptyPool /\ cleaner = Resting
  /\ handler = [h \in Handlers |-> Idle]
  /\ granted = [ip \in IPs |-> 0] /\ slack = [ip \in IPs |-> 0]

\* The first start and every start after a crash find an empty limiter.
LEMMA EmptyShape == EmptyLimiter => LimiterShape /\ Budget
<1> SUFFICES ASSUME EmptyLimiter PROVE LimiterShape /\ Budget
  OBVIOUS
<1> USE DEF EmptyLimiter
<1>1. \A h \in Handlers : handler[h].at = "idle" /\ handler[h].bucket = NoBucket
  BY DEF Idle
<1>2. HandlersOK /\ Asking /\ OwnBuckets
  <2>1. HandlersOK
    BY DEF HandlersOK, Idle
  <2>2. Asking
    BY <1>1 DEF Asking, Asks
  <2>3. \A i \in IPs : buckets[i] = NoBucket
    BY DEF NoBuckets
  <2>4. OwnBuckets
    BY <1>1, <2>3 DEF OwnBuckets
  <2> QED BY <2>1, <2>2, <2>4
<1>3. LimiterTypes /\ DoomedIsThere
  BY RequestAssumption DEF LimiterTypes, DoomedIsThere, NoBuckets, EmptyPool, Resting, Unused
<1>4. Budget
  <2> SUFFICES ASSUME NEW ip \in IPs PROVE Paid(ip)
    BY DEF Budget
  <2>1. Stale(ip) = {}
    BY <1>1 DEF Stale
  <2>2. Cardinality(Stale(ip)) = 0
    BY <2>1, FS_EmptySet
  <2>3. Credit(ip) = Burst /\ granted[ip] = 0 /\ slack[ip] = 0
    BY DEF Credit, NoBuckets
  <2>4. Rate * now \in Nat
    BY Products, RequestAssumption
  <2> QED BY <2>2, <2>3, <2>4, RequestAssumption DEF Paid
<1> QED BY <1>2, <1>3, <1>4 DEF LimiterShape

\* A crash empties the limiter.
LEMMA CrashShape ==
  ASSUME LimiterShape, Crash
  PROVE  LimiterShape' /\ Budget'
<1>1. EmptyLimiter'
  BY DEF LimiterShape, LimiterTypes, Crash, EmptyLimiter, NoBuckets, EmptyPool
<1>2. EmptyLimiter' => (LimiterShape /\ Budget)'
  BY EmptyShape, PTL
<1> QED BY <1>1, <1>2

-----------------------------------------------------------------------------
(* Nobody is paid twice                                                     *)

AreNumbers ==
  \A ip \in IPs : /\ Credit(ip) \in Nat /\ Credit(ip) <= Burst
                  /\ Cardinality(Stale(ip)) \in Nat
                  /\ granted[ip] \in Nat /\ slack[ip] \in Nat
                  /\ Rate * now \in Nat

\* What Paid adds up are numbers.
LEMMA Sums == LimiterTypes => AreNumbers
<1> SUFFICES ASSUME LimiterTypes, NEW ip \in IPs
             PROVE  /\ Credit(ip) \in Nat /\ Credit(ip) <= Burst
                    /\ Cardinality(Stale(ip)) \in Nat
                    /\ granted[ip] \in Nat /\ slack[ip] \in Nat
                    /\ Rate * now \in Nat
  BY DEF AreNumbers
<1>1. now \in Nat /\ granted[ip] \in Nat /\ slack[ip] \in Nat
  BY DEF LimiterTypes
<1>2. Rate * now \in Nat
  BY <1>1, Products, RequestAssumption
<1> QED BY <1>1, <1>2, CreditBounds, StaleFinite

\* A bucket nothing happens to keeps its level.
LEMMA SameLevel ==
  ASSUME NEW b \in Ids, now' = now,
         pool'[b].tokens = pool[b].tokens, pool'[b].filled = pool[b].filled
  PROVE  Level(b)' = Level(b)
BY DEF Level

\* A step that changes neither credit nor holders keeps the account.
LEMMA SameAccount ==
  ASSUME Budget, UNCHANGED <<now, granted, slack>>,
         \A ip \in IPs : Stale(ip)' = Stale(ip) /\ Credit(ip)' = Credit(ip)
  PROVE  Budget'
BY DEF Budget, Paid

\* The steps beside the limiter.
LEMMA BesideBudget ==
  ASSUME LimiterShape, Budget, Beside
  PROVE  Budget'
<1>1. UNCHANGED <<now, buckets, pool, granted, slack>>
  BY DEF Beside, limiter
<1>2. \A ip \in IPs : Credit(ip)' = Credit(ip)
  BY <1>1 DEF Credit, Level
<1>3. \A h \in Handlers : handler'[h] = handler[h]
                          \/ (handler[h].bucket = NoBucket /\ handler'[h].bucket = NoBucket)
  BY DEF Beside, Unrelated
<1>4. \A ip \in IPs : Stale(ip)' = Stale(ip)
  BY <1>1, <1>3 DEF Stale
<1> QED BY <1>1, <1>2, <1>4, SameAccount

\* Load: the bucket a goroutine takes up is the one in the map.
LEMMA LoadBudget ==
  ASSUME LimiterShape, Budget, NEW h \in Handlers, LoadBucket(h), ~Beside
  PROVE  Budget'
<1> DEFINE b == buckets[handler[h].ip]
<1>1. /\ UNCHANGED <<conf, now, limiter, granted, slack>>
      /\ handler[h].bucket = NoBucket
      /\ (Holds(h, "store", NoBucket) /\ b = NoBucket) \/ Holds(h, "touch", b)
  BY LoadEffect
<1>2. UNCHANGED <<now, buckets, pool, granted, slack>>
  BY <1>1 DEF limiter
<1>3. \A ip \in IPs : Credit(ip)' = Credit(ip)
  BY <1>2 DEF Credit, Level
<1>4. handler'[h].bucket = buckets[handler'[h].ip] /\ Rest(h)
  BY <1>1 DEF Holds
<1> HIDE DEF b
<1>5. \A ip \in IPs : Stale(ip)' = Stale(ip)
  BY <1>1, <1>2, <1>4 DEF Stale, Rest
<1> QED BY <1>2, <1>3, <1>5, SameAccount

\* LoadOrStore: a new bucket is as good as none.
LEMMA StoreBudget ==
  ASSUME LimiterShape, Budget, NEW h \in Handlers, StoreBucket(h)
  PROVE  Budget'
<1>0. UNCHANGED <<now, granted, slack>> /\ handler[h].bucket = NoBucket /\ handler[h].ip \in IPs
  BY StoreEffect
<1> PICK i \in IPs : i = handler[h].ip
  BY <1>0
<1>1. UNCHANGED <<now, granted, slack>> /\ handler[h].bucket = NoBucket /\ i \in IPs
  BY <1>0
<1>2. \/ /\ buckets[i] # NoBucket /\ UNCHANGED <<buckets, pool>>
         /\ Holds(h, "allow", buckets[i])
      \/ /\ buckets[i] = NoBucket
         /\ buckets' = [buckets EXCEPT ![i] = NewId]
         /\ pool' = [pool EXCEPT ![NewId] = Full]
         /\ Holds(h, "allow", NewId)
  BY StoreEffect
<1>3. buckets \in [IPs -> {NoBucket} \union Ids] /\ BucketTypes
  BY DEF LimiterShape, LimiterTypes, BucketTypes
<1>4. CASE buckets[i] # NoBucket
  <2>1. UNCHANGED <<buckets, pool>> /\ Holds(h, "allow", buckets[i])
    BY <1>2, <1>4
  <2>2. \A ip \in IPs : Credit(ip)' = Credit(ip)
    BY <1>1, <2>1 DEF Credit, Level
  <2>3. handler'[h].bucket = buckets[handler'[h].ip] /\ Rest(h)
    BY <2>1 DEF Holds
  <2>4. \A ip \in IPs : Stale(ip)' = Stale(ip)
    BY <1>1, <2>1, <2>3 DEF Stale, Rest
  <2> QED BY <1>1, <2>2, <2>4, SameAccount
<1>5. CASE buckets[i] = NoBucket
  <2>0. NewId \in Ids
    BY <1>1, <1>3, FreshId
  <2> PICK k \in Ids : k = NewId
    BY <2>0
  <2>1. buckets' = [buckets EXCEPT ![i] = k] /\ pool' = [pool EXCEPT ![k] = Full]
        /\ Holds(h, "allow", k)
    BY <1>2, <1>5
  <2>2. k \in Ids /\ k # NoBucket /\ (\A j \in IPs : buckets[j] # k)
        /\ \A g \in Handlers : handler[g].bucket # k
    BY <1>1, <1>3, FreshId, IdsCount DEF Stored, Held
  <2>3. handler'[h].bucket = k /\ handler'[h].ip = i /\ Rest(h)
    BY <2>1 DEF Holds
  <2>4. buckets'[i] = k /\ \A j \in IPs \ {i} : buckets'[j] = buckets[j]
    BY <1>1, <1>3, <2>1
  <2>5. \A ip \in IPs : Stale(ip)' = Stale(ip)
    BY <1>1, <1>5, <2>2, <2>3, <2>4 DEF Stale, Rest
  <2>6. \A c \in Ids \ {k} : pool'[c] = pool[c]
    BY <1>3, <2>1, <2>2 DEF BucketTypes
  <2>7. ASSUME NEW ip \in IPs \ {i} PROVE Credit(ip)' = Credit(ip)
    <3>1. buckets'[ip] = buckets[ip] /\ buckets[ip] # k
      BY <2>2, <2>4
    <3>2. CASE buckets[ip] = NoBucket
      BY <3>1, <3>2 DEF Credit
    <3>3. CASE buckets[ip] # NoBucket
      <4>1. buckets[ip] \in Ids
        BY <1>3, <3>3
      <4>2. pool'[buckets[ip]] = pool[buckets[ip]]
        BY <2>6, <3>1, <4>1
      <4> QED BY <1>1, <3>1, <3>3, <4>2 DEF Credit, Level
    <3> QED BY <3>2, <3>3
  <2>8. Credit(i)' = Credit(i)
    <3>1. pool'[k] = Full
      BY <1>3, <2>1, <2>2 DEF BucketTypes
    <3>2. pool'[k].tokens = Burst /\ pool'[k].filled = now
      BY <3>1 DEF Full
    <3>3. now - now = 0 /\ now \in Nat /\ Rate * 0 = 0
      BY Products, RequestAssumption DEF LimiterShape, LimiterTypes
    <3>4. Rate * (now' - pool'[k].filled) = 0
      BY <1>1, <3>2, <3>3
    <3>5. Level(k)' = Burst
      BY <3>2, <3>4, RequestAssumption DEF Level
    <3>6. Credit(i)' = Level(k)'
      BY <2>2, <2>4 DEF Credit, Level
    <3>7. Credit(i) = Burst
      BY <1>5 DEF Credit
    <3> QED BY <3>5, <3>6, <3>7
  <2> QED BY <1>1, <2>5, <2>7, <2>8, SameAccount
<1> QED BY <1>4, <1>5

\* lastSeen.Store.
LEMMA TouchBudget ==
  ASSUME LimiterShape, Budget, NEW h \in Handlers, TouchBucket(h)
  PROVE  Budget'
<1>1. /\ UNCHANGED <<now, buckets, granted, slack>>
      /\ Holds(h, "allow", handler[h].bucket)
      /\ \A c \in Ids : /\ pool'[c].tokens = pool[c].tokens
                        /\ pool'[c].filled = pool[c].filled
  BY TouchEffect
<1>2. \A ip \in IPs : Stale(ip)' = Stale(ip)
  BY <1>1 DEF Stale, Holds, Rest
<1>3. ASSUME NEW ip \in IPs PROVE Credit(ip)' = Credit(ip)
  <2>1. CASE buckets[ip] = NoBucket
    BY <1>1, <2>1 DEF Credit
  <2>2. CASE buckets[ip] # NoBucket
    <3>1. buckets[ip] \in Ids
      BY <2>2 DEF LimiterShape, LimiterTypes
    <3> QED BY <1>1, <2>2, <3>1, SameLevel DEF Credit, Level
  <2> QED BY <2>1, <2>2
<1> QED BY <1>1, <1>2, <1>3, SameAccount

\* Allow: a token comes off the credit, or off the stale bucket of the goroutine.
LEMMA AllowBudget ==
  ASSUME LimiterShape, Budget, NEW h \in Handlers, Allow(h)
  PROVE  Budget'
<1>0. /\ UNCHANGED <<now, buckets, slack>>
      /\ handler[h].bucket \in Ids /\ handler[h].ip \in IPs
      /\ Rest(h) /\ handler'[h].bucket = NoBucket
      /\ \/ UNCHANGED <<pool, granted>>
         \/ /\ Level(handler[h].bucket) > 0
            /\ Takes(handler[h].bucket)
            /\ granted' = [granted EXCEPT ![handler[h].ip] = @ + 1]
  BY AllowEffect
<1> PICK i \in IPs, b \in Ids : i = handler[h].ip /\ b = handler[h].bucket
  BY <1>0
<1>1. b # NoBucket /\ LimiterTypes /\ BucketTypes /\ now \in Nat /\ granted \in [IPs -> Nat]
  BY IdsCount DEF LimiterShape, LimiterTypes, BucketTypes
<1>2. \A ip \in IPs : /\ Stale(ip)' \subseteq Stale(ip)
                      /\ h \notin Stale(ip)'
                      /\ ip # i => Stale(ip)' = Stale(ip)
  BY <1>0 DEF Stale, Rest
<1>3. \A ip \in IPs \ {i} : buckets[ip] # b
  BY <1>1 DEF LimiterShape, OwnBuckets
<1>4. LimiterTypes'
  BY AllowShape DEF LimiterShape
<1>5. \A ip \in IPs : Cardinality(Stale(ip)') \in Nat
                      /\ Cardinality(Stale(ip)') <= Cardinality(Stale(ip))
  BY <1>2, StaleFinite, FS_Subset, FS_CardinalityType
<1>6. CASE UNCHANGED <<pool, granted>>
  <2>1. \A ip \in IPs : Credit(ip)' = Credit(ip)
    BY <1>0, <1>6 DEF Credit, Level
  <2>2. ASSUME NEW ip \in IPs PROVE Paid(ip)'
    <3>1. Paid(ip)
      BY DEF Budget
    <3> HIDE DEF Budget
    <3> QED BY <1>0, <1>1, <1>5, <1>6, <2>1, <3>1, Sums, RequestAssumption DEF Paid, AreNumbers
  <2> QED BY <2>2 DEF Budget
<1>7. CASE Level(b) > 0 /\ Takes(b) /\ granted' = [granted EXCEPT ![i] = @ + 1]
  <2>1. Level(b) \in Nat \ {0}
    BY <1>1, <1>7, LevelBounds
  <2>2. /\ pool'[b].tokens = Level(b) - 1 /\ pool'[b].filled = now
        /\ \A c \in Ids \ {b} : pool'[c] = pool[c]
    BY <1>1, <1>7, <2>1, TakeEffect
  <2>3. \A ip \in IPs : buckets[ip] # b => Credit(ip)' = Credit(ip)
    <3> SUFFICES ASSUME NEW ip \in IPs, buckets[ip] # b PROVE Credit(ip)' = Credit(ip)
      OBVIOUS
    <3>1. CASE buckets[ip] = NoBucket
      BY <1>0, <3>1 DEF Credit
    <3>2. CASE buckets[ip] # NoBucket
      <4>1. buckets[ip] \in Ids
        BY <3>2, <1>1 DEF LimiterTypes
      <4> QED BY <1>0, <2>2, <3>2, <4>1 DEF Credit, Level
    <3> QED BY <3>1, <3>2
  <2>4. ASSUME NEW ip \in IPs \ {i} PROVE Paid(ip)'
    <3>1. Paid(ip) /\ granted'[ip] = granted[ip]
      BY <1>1, <1>7 DEF Budget
    <3>2. Credit(ip)' = Credit(ip) /\ Stale(ip)' = Stale(ip)
      BY <1>2, <1>3, <2>3
    <3> QED BY <1>0, <3>1, <3>2 DEF Paid
  <2>5. Paid(i)'
    <3>1. Paid(i) /\ granted'[i] = granted[i] + 1
      BY <1>1, <1>7 DEF Budget
    <3>2. Credit(i)' + Cardinality(Stale(i)') <= Credit(i) + Cardinality(Stale(i)) - 1
      <4>1. CASE buckets[i] = b
        <5>1. Credit(i) = Level(b)
          BY <1>1, <4>1 DEF Credit
        <5>2. Credit(i)' = Level(b)'
          BY <1>0, <1>1, <4>1 DEF Credit, Level
        <5>3. Level(b)' = Level(b) - 1
          <6>1. now - now = 0 /\ Rate * 0 = 0
            BY <1>1, Products, RequestAssumption
          <6>2. Rate * (now' - pool'[b].filled) = 0
            BY <1>0, <2>2, <6>1
          <6>3. Level(b) <= Burst
            BY <1>1, LevelBounds
          <6> QED BY <2>1, <2>2, <6>2, <6>3, RequestAssumption DEF Level
        <5> QED BY <1>5, <2>1, <5>1, <5>2, <5>3, Sums, <1>1 DEF AreNumbers
      <4>2. CASE buckets[i] # b
        <5>1. h \in Stale(i)
          BY <1>1, <4>2 DEF Stale
        <5>2. Stale(i)' \subseteq Stale(i) \ {h}
          BY <1>2
        <5>3. IsFiniteSet(Stale(i) \ {h}) /\ Cardinality(Stale(i) \ {h}) = Cardinality(Stale(i)) - 1
          BY <5>1, StaleFinite, FS_RemoveElement
        <5>4. Cardinality(Stale(i)') <= Cardinality(Stale(i) \ {h})
          BY <5>2, <5>3, FS_Subset
        <5>5. Credit(i)' = Credit(i)
          BY <2>3, <4>2
        <5> QED BY <1>1, <1>5, <5>3, <5>4, <5>5, Sums DEF AreNumbers
      <4> QED BY <4>1, <4>2
    <3>3. /\ Credit(i)' \in Nat /\ Cardinality(Stale(i)') \in Nat
          /\ Credit(i) \in Nat /\ Cardinality(Stale(i)) \in Nat
          /\ granted[i] \in Nat /\ slack[i] \in Nat /\ Rate * now \in Nat
      <4>1. Credit(i) \in Nat /\ Cardinality(Stale(i)) \in Nat /\ granted[i] \in Nat
            /\ slack[i] \in Nat /\ Rate * now \in Nat
        BY <1>1, Sums DEF AreNumbers
      <4>2. Cardinality(Stale(i)') \in Nat
        BY <1>5
      <4>3. Credit(i)' \in Nat
        <5>1. (LimiterTypes => AreNumbers)'
          BY Sums, PTL
        <5> QED BY <1>4, <5>1 DEF AreNumbers
      <4> QED BY <4>1, <4>2, <4>3
    <3> QED BY <1>0, <3>1, <3>2, <3>3, RequestAssumption DEF Paid
  <2> QED BY <2>4, <2>5 DEF Budget
<1> QED BY <1>0, <1>6, <1>7

\* A bucket gains at most Rate tokens per tick.
LEMMA TickLevel ==
  ASSUME LimiterTypes, NEW b \in Ids, now' = now + 1, pool' = pool
  PROVE  Level(b)' <= Level(b) + Rate
<1>1. pool[b].tokens \in Nat /\ pool[b].filled \in Nat /\ now - pool[b].filled \in Nat
      /\ now \in Nat
  BY DEF LimiterTypes
<1> DEFINE n == now - pool[b].filled
           n2 == now' - pool'[b].filled
<1>2. n2 = n + 1 /\ n \in Nat
  BY <1>1
<1>3. Rate * n2 = Rate * n + Rate /\ Rate * n \in Nat
  <2> HIDE DEF n, n2
  <2> QED BY <1>2, Products, RequestAssumption
<1> DEFINE t == pool[b].tokens + Rate * n
           t2 == pool'[b].tokens + Rate * n2
<1>4. t2 = t + Rate /\ t \in Nat
  <2> HIDE DEF n, n2
  <2> QED BY <1>1, <1>3, RequestAssumption
<1>5. Level(b) = IF t < Burst THEN t ELSE Burst
  BY DEF Level
<1>6. Level(b)' = IF t2 < Burst THEN t2 ELSE Burst
  BY DEF Level
<1> HIDE DEF t, t2
<1> QED BY <1>4, <1>5, <1>6, RequestAssumption

\* The clock: what the credit gains, the limit gains.
LEMMA TickBudget ==
  ASSUME LimiterShape, Budget, Tick
  PROVE  Budget'
<1>1. now' = now + 1 /\ UNCHANGED <<conf, buckets, pool, handler, granted, slack>> /\ LimiterShape'
  BY TickShape
<1>2. LimiterTypes /\ LimiterTypes' /\ now \in Nat
  BY <1>1 DEF LimiterShape, LimiterTypes
<1>3. ASSUME NEW ip \in IPs PROVE Paid(ip)'
  <2>1. Paid(ip)
    BY DEF Budget
  <2>2. Stale(ip)' = Stale(ip)
    BY <1>1 DEF Stale
  <2>3. Credit(ip)' <= Credit(ip) + Rate
    <3>1. CASE buckets[ip] = NoBucket
      BY <1>1, <3>1, RequestAssumption DEF Credit
    <3>2. CASE buckets[ip] # NoBucket
      <4>1. PICK b \in Ids : b = buckets[ip]
        BY <1>2, <3>2 DEF LimiterTypes
      <4>2. Level(b)' <= Level(b) + Rate
        BY <1>1, <1>2, TickLevel
      <4>3. Credit(ip) = Level(b)
        BY <3>2, <4>1 DEF Credit
      <4>4. Credit(ip)' = Level(b)'
        BY <1>1, <3>2, <4>1 DEF Credit, Level
      <4> QED BY <4>2, <4>3, <4>4
    <3> QED BY <3>1, <3>2
  <2>4. Rate * now' = Rate * now + Rate
    BY <1>1, <1>2, Products, RequestAssumption
  <2>5. /\ Credit(ip) \in Nat /\ Cardinality(Stale(ip)) \in Nat
        /\ granted[ip] \in Nat /\ slack[ip] \in Nat /\ Rate * now \in Nat
    BY <1>2, Sums DEF AreNumbers
  <2>6. Credit(ip)' \in Nat
    <3>1. (LimiterTypes => AreNumbers)'
      BY Sums, PTL
    <3> QED BY <1>2, <3>1 DEF AreNumbers
  <2> QED BY <1>1, <2>1, <2>2, <2>3, <2>4, <2>5, <2>6, RequestAssumption DEF Paid
<1> QED BY <1>3 DEF Budget

\* A bucket that is not in use has refilled: to remove it changes nothing.
LEMMA UnusedIsFull ==
  ASSUME LimiterShape, RefillsWhileIdle, NEW b \in Ids, ~InUse(b)
  PROVE  Level(b) = Burst
<1>1. /\ pool[b].tokens \in Nat /\ pool[b].filled \in Nat /\ pool[b].seen \in Nat
      /\ pool[b].filled <= now /\ now \in Nat /\ cleaner.now \in Nat /\ cleaner.now <= now
  BY DEF LimiterShape, LimiterTypes
<1>2. pool[b].seen + MaxIdle < cleaner.now /\ pool[b].filled <= pool[b].seen + Patience
  BY <1>1, RequestAssumption DEF InUse
<1> DEFINE n == now - pool[b].filled
<1>3. n \in Nat /\ MaxIdle <= n + Patience
  BY <1>1, <1>2, RequestAssumption
<1>4. pool[b].tokens + Rate * n = pool[b].tokens + Rate * (now - pool[b].filled)
  OBVIOUS
<1> HIDE DEF n
<1>5. Rate * MaxIdle <= Rate * (n + Patience)
  BY <1>3, ProductOrder, RequestAssumption
<1>6. Rate * (n + Patience) = Rate * n + Rate * Patience
  BY <1>3, RequestAssumption
<1>7. Rate * n \in Nat /\ Rate * Patience \in Nat /\ Rate * MaxIdle \in Nat
  BY <1>3, Products, RequestAssumption
<1>8. Rate * n >= Burst
  <2>1. Burst + Rate * Patience <= Rate * MaxIdle
    BY DEF RefillsWhileIdle
  <2> QED BY <1>5, <1>6, <1>7, <2>1, RequestAssumption
<1> DEFINE t == pool[b].tokens + Rate * n
<1>9. t \in Nat /\ t >= Burst
  BY <1>1, <1>7, <1>8, RequestAssumption
<1>10. Level(b) = IF t < Burst THEN t ELSE Burst
  BY <1>4 DEF Level
<1> HIDE DEF t
<1> QED BY <1>9, <1>10, RequestAssumption

\* Delete: a bucket in use is paid for by slack, another one is full.
LEMMA DeleteBudget ==
  ASSUME LimiterShape, RefillsWhileIdle, Budget, CleanupDeletes
  PROVE  Budget'
<1>0. cleaner.doomed \in IPs /\ buckets[cleaner.doomed] \in Ids
  BY DeleteEffect
<1> PICK i \in IPs, b \in Ids : i = cleaner.doomed /\ b = buckets[i]
  BY <1>0
<1>1. /\ UNCHANGED <<conf, now, handler, granted>>
      /\ buckets' = [buckets EXCEPT ![i] = NoBucket]
      /\ pool' = pool \/ pool' = [pool EXCEPT ![b] = Unused]
      /\ slack' = [slack EXCEPT ![i] = @ +
           (IF InUse(b) THEN Burst + Cardinality(HeldBy(b)) ELSE 0)]
  BY DeleteEffect
<1>2. LimiterTypes /\ BucketTypes /\ b # NoBucket /\ slack \in [IPs -> Nat]
      /\ buckets \in [IPs -> {NoBucket} \union Ids]
  BY IdsCount DEF LimiterShape, LimiterTypes, BucketTypes
<1>3. buckets'[i] = NoBucket /\ \A ip \in IPs \ {i} : buckets'[ip] = buckets[ip] /\ buckets[ip] # b
  BY <1>1, <1>2 DEF LimiterShape, OwnBuckets
<1>4. \A c \in Ids \ {b} : pool'[c] = pool[c]
  BY <1>1, <1>2 DEF BucketTypes
<1>5. ASSUME NEW ip \in IPs \ {i} PROVE Paid(ip)'
  <2>1. Paid(ip)
    BY DEF Budget
  <2>2. slack'[ip] = slack[ip]
    BY <1>1, <1>2
  <2>3. Stale(ip)' = Stale(ip)
    BY <1>1, <1>3 DEF Stale
  <2>4. Credit(ip)' = Credit(ip)
    <3>1. CASE buckets[ip] = NoBucket
      BY <1>3, <3>1 DEF Credit
    <3>2. CASE buckets[ip] # NoBucket
      <4>1. buckets[ip] \in Ids \ {b}
        BY <1>2, <1>3, <3>2
      <4>2. pool'[buckets[ip]] = pool[buckets[ip]]
        BY <1>4, <4>1
      <4> QED BY <1>1, <1>3, <3>2, <4>2 DEF Credit, Level
    <3> QED BY <3>1, <3>2
  <2> QED BY <1>1, <2>1, <2>2, <2>3, <2>4 DEF Paid
<1>6. Paid(i)'
  <2>1. Paid(i)
    BY DEF Budget
  <2>2. Credit(i)' = Burst
    BY <1>3 DEF Credit
  <2>3. Stale(i)' = Stale(i) \union HeldBy(b)
    <3>1. \A h \in Handlers : handler[h].bucket = b => handler[h].ip = i
      BY <1>2 DEF LimiterShape, OwnBuckets
    <3> QED BY <1>1, <1>2, <1>3, <3>1 DEF Stale, HeldBy
  <2>4. /\ Credit(i) \in Nat /\ Cardinality(Stale(i)) \in Nat
        /\ granted[i] \in Nat /\ slack[i] \in Nat /\ Rate * now \in Nat
    BY <1>2, Sums DEF AreNumbers
  <2>5. CASE InUse(b)
    <3>1. slack'[i] = slack[i] + (Burst + Cardinality(HeldBy(b)))
      BY <1>1, <1>2, <2>5
    <3>2. /\ Cardinality(Stale(i)') <= Cardinality(Stale(i)) + Cardinality(HeldBy(b))
          /\ Cardinality(Stale(i)') \in Nat /\ Cardinality(HeldBy(b)) \in Nat
      <4>1. IsFiniteSet(Stale(i)) /\ IsFiniteSet(HeldBy(b)) /\ Cardinality(HeldBy(b)) \in Nat
        BY StaleFinite, HeldByCount
      <4>2. IsFiniteSet(Stale(i)')
            /\ Cardinality(Stale(i)') =
                 Cardinality(Stale(i)) + Cardinality(HeldBy(b)) - Cardinality(Stale(i) \cap HeldBy(b))
        <5>1. IsFiniteSet(Stale(i) \union HeldBy(b))
              /\ Cardinality(Stale(i) \union HeldBy(b)) =
                   Cardinality(Stale(i)) + Cardinality(HeldBy(b)) - Cardinality(Stale(i) \cap HeldBy(b))
          BY <4>1, FS_Union
        <5> QED BY <2>3, <5>1
      <4>3. Cardinality(Stale(i) \cap HeldBy(b)) \in Nat /\ Cardinality(Stale(i)') \in Nat
        BY <4>1, <4>2, FS_Intersection, FS_CardinalityType
      <4> QED BY <2>4, <4>1, <4>2, <4>3
    <3> QED BY <1>1, <2>1, <2>2, <2>4, <3>1, <3>2, RequestAssumption DEF Paid
  <2>6. CASE ~InUse(b)
    <3>1. slack'[i] = slack[i]
      BY <1>1, <1>2, <2>4, <2>6
    <3>2. Stale(i)' = Stale(i)
      BY <2>3, <2>6 DEF InUse
    <3>3. Credit(i) = Burst
      BY <1>2, <2>6, UnusedIsFull DEF Credit
    <3> QED BY <1>1, <2>1, <2>2, <3>1, <3>2, <3>3 DEF Paid
  <2> QED BY <2>5, <2>6
<1> QED BY <1>5, <1>6 DEF Budget

LimiterInv == LimiterShape /\ (RefillsWhileIdle => Budget)

\* Every limiter starts empty, and every step keeps its shape and its accounts.
LEMMA LimiterInvInductive ==
  /\ Init => LimiterInv
  /\ LimiterInv /\ [Next]_vars => LimiterInv'
<1>1. Init => LimiterInv
  BY EmptyShape DEF Init, EmptyLimiter, LimiterInv
<1> SUFFICES ASSUME LimiterInv, [Next]_vars PROVE LimiterInv'
  BY <1>1
<1>0. LimiterShape /\ (RefillsWhileIdle => Budget) /\ (RefillsWhileIdle' <=> RefillsWhileIdle)
  BY DEF LimiterInv, RefillsWhileIdle
<1>2. CASE Beside
  BY <1>0, <1>2, BesideShape, BesideBudget DEF LimiterInv
<1>3. ASSUME NEW h \in Handlers, LoadBucket(h), ~Beside PROVE LimiterInv'
  BY <1>0, <1>3, LoadShape, LoadBudget DEF LimiterInv
<1>4. ASSUME NEW h \in Handlers, StoreBucket(h) PROVE LimiterInv'
  BY <1>0, <1>4, StoreShape, StoreBudget DEF LimiterInv
<1>5. ASSUME NEW h \in Handlers, TouchBucket(h) PROVE LimiterInv'
  BY <1>0, <1>5, TouchShape, TouchBudget DEF LimiterInv
<1>6. ASSUME NEW h \in Handlers, Allow(h) PROVE LimiterInv'
  BY <1>0, <1>6, AllowShape, AllowBudget DEF LimiterInv
<1>7. CASE CleanupBegins \/ \E ip \in IPs : CleanupChecks(ip)
  <2>1. LimiterShape' /\ UNCHANGED <<conf, now, buckets, pool, handler, granted, slack>>
    BY <1>0, <1>7, CheckShape
  <2>2. \A ip \in IPs : Stale(ip)' = Stale(ip) /\ Credit(ip)' = Credit(ip)
    BY <2>1 DEF Stale, Credit, Level
  <2>3. Budget => Budget'
    BY <2>1, <2>2, SameAccount
  <2> QED BY <1>0, <2>1, <2>3 DEF LimiterInv
<1>8. CASE CleanupDeletes
  BY <1>0, <1>8, DeleteShape, DeleteBudget DEF LimiterInv
<1>9. CASE Tick
  BY <1>0, <1>9, TickShape, TickBudget DEF LimiterInv
<1>10. CASE Crash
  BY <1>0, <1>10, CrashShape DEF LimiterInv
<1>11. ASSUME NEW h \in Handlers, NEW r \in conf.clients, Arrive(h, r) PROVE Beside
  BY <1>0, <1>11, ArriveBeside
<1>12. ASSUME \/ \E h \in Handlers :
                   \/ \E c \in Cookies : Serve(h, c)
                   \/ BeginUpdate(h) \/ WriteFile(h) \/ WriteFails(h) \/ Publish(h)
              \/ Start \/ StartFails \/ UNCHANGED vars
       PROVE  Beside
  BY <1>0, <1>12, BesideSteps
<1> QED BY <1>2, <1>3, <1>4, <1>5, <1>6, <1>7, <1>8, <1>9, <1>10, <1>11, <1>12
        DEF Next, Handle

\* No address gets more than the burst and the refill since the process started,
\* plus what cleanups that race with its requests add (RateLimiter).
THEOREM LimiterIsFair == Spec => []LimitHolds
<1>1. LimiterInv => LimitHolds
  <2> SUFFICES ASSUME LimiterInv, RefillsWhileIdle, NEW ip \in IPs
               PROVE  granted[ip] <= Burst + Rate * now + slack[ip]
    BY DEF LimitHolds
  <2>1. Paid(ip) /\ LimiterTypes
    BY DEF LimiterInv, LimiterShape, Budget
  <2> QED BY <2>1, Sums, RequestAssumption DEF Paid, AreNumbers
<1> QED BY <1>1, LimiterInvInductive, PTL DEF Spec

\* A bucket, in the map or in the hands of a goroutine, belongs to one address,
\* whatever the cleanup does meanwhile (getOrCreate, cleanup).
THEOREM BucketsAreOwn == Spec => []OwnBuckets
<1>1. LimiterInv => OwnBuckets
  BY DEF LimiterInv, LimiterShape
<1> QED BY <1>1, LimiterInvInductive, PTL DEF Spec

-----------------------------------------------------------------------------
(* Sessions                                                                 *)

\* With an API token, every session was opened by a login with it, and ends
\* settingsSessionTTL after it at the latest.
SessionInv ==
  /\ now \in Nat /\ login \in Nat /\ login <= now + 1 /\ issued \subseteq Nat
  /\ conf.token => \A c \in issued : login > 0 /\ c <= login - 1 + SessionTTL

\* The guards of the routes of the settings.
LEMMA SettingsRoutes ==
  ASSUME NEW r, NEW c, Answer(r, c) = 200
  PROVE  /\ r.path = "/api/v1/settings" /\ conf.token => TokenMatches(r) \/ ValidSession(c)
         /\ r.path = "/api/v1/settings/session" => TokenMatches(r)
<1>1. r.path = "/api/v1/settings/session" => TokenMatches(r)
  BY DEF Answer
<1>2. r.path = "/api/v1/settings" /\ conf.token => SettingsAuthorized(r, c)
  BY DEF Answer
<1> QED BY <1>1, <1>2 DEF SettingsAuthorized

\* Only Serve lets a goroutine go on to change the settings.
LEMMA OnlyServeLocks ==
  ASSUME LimiterShape, [Next]_vars, NEW g \in Handlers,
         handler'[g].at = "lock", handler[g].at # "lock"
  PROVE  \E c \in Cookies : Serve(g, c) /\ WhitelistAdmits(handler[g].req)
                            /\ handler[g].req.path = "/api/v1/settings"
                            /\ Answer(handler[g].req, c) = 200
<1>0. HandlersOK
  BY DEF LimiterShape
<1>1. ASSUME NEW h \in Handlers, NEW r \in conf.clients, Arrive(h, r) PROVE FALSE
  <2>1. Becomes(h, "serve", r, NoIP) \/ Becomes(h, "load", r, ClientIP(r))
    BY <1>1, ArriveBecomes
  <2>2. Rest(h) /\ handler'[h].at \in {"serve", "load"}
    BY <1>0, <2>1, BecomesOK
  <2> QED BY <2>2 DEF Rest
<1>2. ASSUME NEW h \in Handlers, LoadBucket(h) PROVE FALSE
  BY <1>2, LoadEffect DEF Holds, Rest
<1>3. ASSUME NEW h \in Handlers, StoreBucket(h) PROVE FALSE
  BY <1>3, StoreEffect DEF Holds, Rest
<1>4. ASSUME NEW h \in Handlers, TouchBucket(h) PROVE FALSE
  BY <1>4, TouchEffect DEF Holds, Rest
<1>5. ASSUME NEW h \in Handlers, Allow(h) PROVE FALSE
  BY <1>5, AllowEffect DEF Rest
<1>6. ASSUME NEW h \in Handlers, BeginUpdate(h) PROVE FALSE
  <2>1. At(h, "lock") /\ (Leave(h) \/ \E m : MoveWith(h, "write", m))
    BY <1>6 DEF BeginUpdate, MoveWith
  <2>2. \A k \in Handlers \ {h} : handler'[k] = handler[k]
    BY <1>0, <2>1, LeaveOK, MergedOK
  <2> QED BY <2>1, <2>2 DEF At
<1>7. ASSUME NEW h \in Handlers, WriteFile(h) PROVE FALSE
  BY <1>0, <1>7, MoveOK DEF WriteFile
<1>8. ASSUME NEW h \in Handlers, WriteFails(h) \/ Publish(h) PROVE FALSE
  BY <1>0, <1>8, LeaveOK DEF WriteFails, Publish
<1>9. ASSUME CleanupBegins \/ CleanupDeletes \/ (\E ip \in IPs : CleanupChecks(ip))
             \/ Tick \/ Start \/ StartFails \/ UNCHANGED vars
      PROVE  FALSE
  <2>1. handler' = handler
    BY <1>9 DEF CleanupBegins, CleanupDeletes, CleanupChecks, Tick, Start, StartFails, vars
  <2> QED BY <2>1
<1>10. ASSUME Crash PROVE FALSE
  BY <1>10 DEF Crash, Idle
<1>11. ASSUME NEW h \in Handlers, NEW c \in Cookies, Serve(h, c)
       PROVE  /\ h = g /\ WhitelistAdmits(handler[g].req)
              /\ handler[g].req.path = "/api/v1/settings"
              /\ Answer(handler[g].req, c) = 200
  <2>1. CASE Leave(h)
    BY <1>0, <2>1, LeaveOK
  <2>2. CASE ~Leave(h)
    <3>1. /\ Move(h, "lock") /\ WhitelistAdmits(handler[h].req)
          /\ Answer(handler[h].req, c) = 200 /\ handler[h].req.path = "/api/v1/settings"
      BY <1>11, <2>2 DEF Serve
    <3>2. h = g
      BY <1>0, <3>1, MoveOK
    <3> QED BY <3>1, <3>2
  <2> QED BY <2>1, <2>2
<1> QED BY <1>1, <1>2, <1>3, <1>4, <1>5, <1>6, <1>7, <1>8, <1>9, <1>10, <1>11
        DEF Next, Handle

\* Init and every step keep it.
LEMMA SessionInvInductive ==
  /\ Init => SessionInv
  /\ SessionInv /\ [Next]_vars => SessionInv'
<1>1. Init => SessionInv
  BY DEF Init, SessionInv
<1> SUFFICES ASSUME SessionInv, [Next]_vars PROVE SessionInv'
  BY <1>1
<1>2. ASSUME NEW h \in Handlers, NEW c \in Cookies, Serve(h, c) PROVE SessionInv'
  <2> DEFINE r == handler[h].req
             opens == WhitelistAdmits(r) /\ Answer(r, c) = 200
                      /\ r.path = "/api/v1/settings/session"
  <2>1. /\ UNCHANGED <<conf, now>>
        /\ issued' = IF opens THEN issued \union {now + SessionTTL} ELSE issued
        /\ login' = IF opens /\ r.token THEN now + 1 ELSE login
    BY <1>2 DEF Serve
  <2>2. CASE opens
    <3>1. TokenMatches(r)
      BY <2>2, SettingsRoutes
    <3>2. login' = now + 1 /\ issued' = issued \union {now + SessionTTL}
      BY <2>1, <2>2, <3>1 DEF TokenMatches
    <3>3. now \in Nat /\ login \in Nat /\ login <= now + 1 /\ issued \subseteq Nat
          /\ SessionTTL \in Nat
      BY RequestAssumption DEF SessionInv
    <3>4. issued' \subseteq Nat /\ login' \in Nat /\ login' > 0 /\ login' - 1 = now
      BY <3>2, <3>3
    <3>5. conf.token
      BY <3>1 DEF TokenMatches
    <3>6. ASSUME NEW d \in issued' PROVE d <= now + SessionTTL
      <4>1. CASE d \in issued
        <5>1. d <= login - 1 + SessionTTL /\ d \in Nat
          BY <3>3, <3>5, <4>1 DEF SessionInv
        <5> QED BY <3>3, <5>1
      <4>2. CASE d = now + SessionTTL
        BY <3>3, <4>2
      <4> QED BY <3>2, <4>1, <4>2
    <3> QED BY <2>1, <3>2, <3>3, <3>4, <3>6 DEF SessionInv
  <2>3. CASE ~opens
    BY <2>1, <2>3 DEF SessionInv
  <2> QED BY <2>2, <2>3
<1>3. CASE Tick
  BY <1>3 DEF Tick, SessionInv, history
<1>4. ASSUME ~Tick, ~\E h \in Handlers, c \in Cookies : Serve(h, c) PROVE SessionInv'
  <2>1. UNCHANGED <<conf, now, issued, login>>
    BY <1>4 DEF Next, Handle, vars, history, Arrive, LoadBucket, TouchBucket, StoreBucket, Allow,
       BeginUpdate, WriteFile, WriteFails, Publish, CleanupBegins, CleanupDeletes, CleanupChecks,
       Crash, Start, StartFails
  <2> QED BY <2>1 DEF SessionInv
<1> QED BY <1>2, <1>3, <1>4

\* With an API token the settings change only for a request that carries it or
\* within settingsSessionTTL of a login with it (settingsRequestAuthorized).
THEOREM SessionsExpire == Spec => SessionWindow
<1>1. LimiterInv /\ SessionInv /\ [Next]_vars =>
        [\A h \in Handlers :
           /\ handler'[h].at = "lock" /\ ~At(h, "lock")
           /\ conf.token /\ ~handler[h].req.token
           => login > 0 /\ now < login - 1 + SessionTTL]_vars
  <2> SUFFICES ASSUME LimiterInv, SessionInv, [Next]_vars, NEW h \in Handlers,
                      handler'[h].at = "lock", ~At(h, "lock"),
                      conf.token, ~handler[h].req.token
               PROVE  login > 0 /\ now < login - 1 + SessionTTL
    OBVIOUS
  <2>1. PICK c \in Cookies : handler[h].req.path = "/api/v1/settings"
                             /\ Answer(handler[h].req, c) = 200
    BY OnlyServeLocks DEF LimiterInv, At
  <2>2. ValidSession(c)
    BY <2>1, SettingsRoutes DEF TokenMatches
  <2> QED BY <2>2, RequestAssumption DEF ValidSession, SessionInv
<1> QED BY <1>1, LimiterInvInductive, SessionInvInductive, PTL DEF Spec, SessionWindow
=============================================================================
