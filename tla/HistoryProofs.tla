---------------------------- MODULE HistoryProofs ----------------------------
(***************************************************************************)
(* Theorems about the two histories the store accumulates, for any users,  *)
(* items and bounds: the star series (StarHistory) and the samples of      *)
(* referrers and paths (Snapshots).                                        *)
(*                                                                         *)
(* The series.  StarInv bounds every count the sync reads, stores or is    *)
(* about to write by peak, the most stars the repository ever had.  What   *)
(* makes it inductive is the sum of base and the pending stars: a full     *)
(* rebuild writes gazers on 0; an incremental one writes at most           *)
(* current - LastSeen stars (FewRecent) on LastSeen.                       *)
(*                                                                         *)
(* The samples.  The increments are computed from one sample and the one   *)
(* before, with a day of lookback; the lemma BeforeIsYesterday says that   *)
(* without a gap this is the sample of the day before, however far the     *)
(* computation looks back, so that an increment agrees with a rebuild      *)
(* until one of two samples changes.  DeltasAgree is inductive with the    *)
(* types.                                                                  *)
(***************************************************************************)
EXTENDS StarHistory, Snapshots, FiniteSetTheorems, TLAPS

\* A set of numbers that is not empty has a least one.
LEMMA Least ==
  ASSUME NEW S \in SUBSET Nat, S # {}
  PROVE  \E x \in S : \A y \in S : x <= y
<1>1. \E x \in S : \A y \in S : <<y, x>> \notin OpToRel(<, Nat)
  BY NatLessThanWellFounded, WFMin, Zenon
<1>2. \E x \in S : \A y \in S : ~ (y < x)
  BY <1>1, Zenon DEF OpToRel
<1> QED BY <1>2

\* And one that has a bound has a greatest one.
LEMMA Greatest ==
  ASSUME NEW n \in Nat, NEW S \in SUBSET (0 .. n), S # {}
  PROVE  Max(S) \in S
<1> DEFINE T == {x \in 0 .. n : n - x \in S}
<1>1. T \in SUBSET Nat /\ T # {}
  <2>1. PICK x \in S : TRUE
    OBVIOUS
  <2>2. n - x \in 0 .. n /\ n - (n - x) = x
    BY <2>1
  <2>3. n - x \in T
    BY <2>1, <2>2
  <2>4. T \subseteq 0 .. n
    OBVIOUS
  <2>5. 0 .. n \subseteq Nat
    OBVIOUS
  <2> HIDE DEF T
  <2> QED BY <2>3, <2>4, <2>5
<1>2. PICK t \in T : \A y \in T : t <= y
  BY <1>1, Least
<1>3. \A y \in S : n - y \in T
  OBVIOUS
<1>4. n - t \in S /\ \A y \in S : n - t >= y
  BY <1>2, <1>3
<1> QED BY <1>4 DEF Max

-----------------------------------------------------------------------------
(* The star series                                                        *)

\* The repository on GitHub, and the most stars it ever had.
WorldOK ==
  /\ clock \in 0 .. MaxTime /\ raced \in BOOLEAN
  /\ gazers \subseteq Stars /\ IsFiniteSet(gazers)
  /\ \A g, h \in gazers : g.user = h.user => g = h
  /\ peak \in Nat /\ Cardinality(gazers) <= peak /\ peak <= Cardinality(Users)

\* No count the sync has read, stored or is about to write is above it.
TablesOK ==
  /\ rows \in [StarDays -> Nat] /\ \A d \in StarDays : rows[d] <= peak
  /\ cursor \in [count : Nat, at : 0 .. MaxTime] /\ cursor.count <= peak + 1
SyncOK ==
  /\ pc \in {"idle", "decide", "write"} /\ mode \in {"full", "incremental"}
  /\ current \in Nat /\ current <= peak
  /\ pending \subseteq Stars /\ IsFiniteSet(pending) /\ newest \in 0 .. MaxTime
  /\ base \in Nat /\ base <= peak
  /\ pc = "write" => base + Cardinality(pending) <= peak
  /\ failures \in 0 .. MaxFailures
StarInv == WorldOK /\ TablesOK /\ SyncOK

\* Every user has one star at most.
LEMMA StarPerUser ==
  ASSUME NEW G \in SUBSET Stars, \A g, h \in G : g.user = h.user => g = h
  PROVE  Cardinality(G) <= Cardinality(Users) /\ IsFiniteSet(G)
<1> DEFINE f == [g \in G |-> g.user]
<1>1. f \in Injection(G, Users)
  <2>1. f \in [G -> Users]
    BY DEF Stars
  <2>2. \A a, b \in G : f[a] = f[b] => a = b
    OBVIOUS
  <2> QED BY <2>1, <2>2 DEF Injection, IsInjective
<1> HIDE DEF f
<1> QED BY <1>1, FS_Injection, StarAssumption

\* StargazersRecent answers with as many stars as it is asked for, at most.
LEMMA FewRecent ==
  ASSUME WorldOK, NEW n \in Nat, NEW s
  PROVE  /\ Recent(n, s) \subseteq gazers /\ IsFiniteSet(Recent(n, s))
         /\ Cardinality(Recent(n, s)) <= n
<1> DEFINE after == {g \in gazers : g.at > s}
           R == Recent(n, s)
<1>1. R = {g \in after : Cardinality({h \in after : h.at >= g.at}) <= n}
  BY DEF Recent
<1>2. R \subseteq gazers /\ after \subseteq gazers
  BY <1>1
<1>3. IsFiniteSet(R) /\ IsFiniteSet(gazers) /\ Cardinality(R) \in Nat
  BY <1>2, FS_Subset, FS_CardinalityType DEF WorldOK
<1>4. \A g \in gazers : g.at \in Nat
  BY DEF WorldOK, Stars, Times
<1>5. CASE R = {}
  BY <1>3, <1>5, FS_EmptySet
<1>6. CASE R # {}
  <2> DEFINE A == {g.at : g \in R}
  <2>1. A \in SUBSET Nat /\ A # {}
    BY <1>2, <1>4, <1>6
  <2>2. PICK g \in R : \A h \in R : g.at <= h.at
    <3>1. \E x \in A : \A y \in A : x <= y
      <4> HIDE DEF A
      <4> QED BY <2>1, Least
    <3> QED BY <3>1
  <2> DEFINE newer == {h \in after : h.at >= g.at}
  <2>3. R \subseteq newer /\ Cardinality(newer) <= n
    BY <1>1, <1>2, <1>4, <2>2
  <2>4. IsFiniteSet(newer)
    BY <1>2, <1>3, FS_Subset
  <2>5. Cardinality(R) <= Cardinality(newer) /\ Cardinality(newer) \in Nat
    BY <2>3, <2>4, FS_Subset, FS_CardinalityType
  <2> QED BY <1>3, <2>3, <2>5
<1> QED BY <1>2, <1>3, <1>5, <1>6

\* The newest of some stars, or no time.
LEMMA NewestIs ==
  ASSUME NEW G \in SUBSET Stars
  PROVE  /\ Max({g.at : g \in G} \union {NoTime}) \in 0 .. MaxTime
         /\ G # {} => Max({g.at : g \in G}) \in 0 .. MaxTime
<1>0. MaxTime \in Nat
  BY StarAssumption
<1>1. {g.at : g \in G} \subseteq 0 .. MaxTime
  BY <1>0 DEF Stars, Times
<1>2. {g.at : g \in G} \union {NoTime} \subseteq 0 .. MaxTime
  BY <1>0, <1>1 DEF NoTime
<1>3. Max({g.at : g \in G} \union {NoTime}) \in 0 .. MaxTime
  <2> DEFINE S == {g.at : g \in G} \union {NoTime}
  <2>1. S \in SUBSET (0 .. MaxTime) /\ S # {}
    BY <1>2
  <2> HIDE DEF S
  <2>2. Max(S) \in S
    BY <1>0, <2>1, Greatest
  <2> QED BY <2>1, <2>2 DEF S
<1>4. ASSUME G # {} PROVE Max({g.at : g \in G}) \in 0 .. MaxTime
  <2> DEFINE S == {g.at : g \in G}
  <2>1. S \in SUBSET (0 .. MaxTime) /\ S # {}
    BY <1>1, <1>4
  <2> HIDE DEF S
  <2>2. Max(S) \in S
    BY <1>0, <2>1, Greatest
  <2> QED BY <2>1, <2>2 DEF S
<1> QED BY <1>3, <1>4

\* A database without the repository.
LEMMA StarsBegin == StarInit => StarInv
<1> SUFFICES ASSUME StarInit PROVE StarInv
  OBVIOUS
<1>1. IsFiniteSet({}) /\ Cardinality({}) = 0 /\ Cardinality(Users) \in Nat
  BY FS_EmptySet, FS_CardinalityType, StarAssumption
<1>2. WorldOK
  <2>1. clock = 0 /\ raced = FALSE /\ gazers = {} /\ peak = 0 /\ MaxTime \in Nat
    BY StarAssumption DEF StarInit
  <2>2. gazers \subseteq Stars /\ \A g, h \in gazers : g.user = h.user => g = h
    BY <2>1
  <2>3. clock \in 0 .. MaxTime
    BY <2>1
  <2>4. IsFiniteSet(gazers) /\ Cardinality(gazers) = 0
    BY <1>1, <2>1
  <2>5. raced \in BOOLEAN
    BY <2>1, Zenon
  <2>6. peak \in Nat /\ Cardinality(gazers) <= peak /\ peak <= Cardinality(Users)
    BY <1>1, <2>1
  <2> QED BY <2>2, <2>3, <2>4, <2>5, <2>6, Zenon DEF WorldOK
<1>3. TablesOK
  BY StarAssumption DEF StarInit, TablesOK, NeverSynced, NoTime
<1>4. SyncOK
  BY <1>1, StarAssumption DEF StarInit, SyncOK, NoTime
<1> QED BY <1>2, <1>3, <1>4 DEF StarInv

\* Stars come and go, and the peak with them.
LEMMA StarsMove ==
  ASSUME StarInv, NEW u \in Users, Star(u) \/ Unstar(u)
  PROVE  StarInv'
<1>1. /\ clock' \in 0 .. MaxTime /\ clock' \in Times /\ raced' \in BOOLEAN
      /\ UNCHANGED <<rows, cursor, pc, current, pending, base, newest, mode, failures>>
  <2>1. WorldMoves
    BY DEF Star, Unstar
  <2>2. clock' = clock + 1 /\ clock < MaxTime /\ clock \in 0 .. MaxTime /\ MaxTime \in Nat
    BY <2>1, StarAssumption DEF WorldMoves, StarInv, WorldOK
  <2>3. clock' \in 0 .. MaxTime /\ clock' \in Times
    BY <2>2 DEF Times
  <2> QED BY <2>1, <2>3 DEF WorldMoves, stored, locals, StarInv, WorldOK
<1>2. /\ gazers' \subseteq Stars /\ \A g, h \in gazers' : g.user = h.user => g = h
      /\ Cardinality(gazers') \in Nat /\ IsFiniteSet(gazers')
      /\ peak' = MaxOf(peak, Cardinality(gazers')) \/ (peak' = peak /\ Cardinality(gazers') <= peak)
  <2>0. WorldOK
    BY DEF StarInv
  <2>1. CASE Star(u)
    <3>1. [user |-> u, at |-> clock'] \in Stars
      BY <1>1 DEF Stars
    <3>2. gazers' = gazers \union {[user |-> u, at |-> clock']} /\ \A g \in gazers : g.user # u
      BY <2>1 DEF Star
    <3>3. gazers' \in SUBSET Stars
      BY <2>0, <3>1, <3>2 DEF WorldOK
    <3>4. \A g, h \in gazers' : g.user = h.user => g = h
      BY <2>0, <3>2 DEF WorldOK
    <3>5. IsFiniteSet(gazers') /\ Cardinality(gazers') \in Nat
      BY <3>3, <3>4, StarPerUser, FS_CardinalityType
    <3> QED BY <2>1, <3>3, <3>4, <3>5 DEF Star
  <2>2. CASE Unstar(u)
    <3>1. gazers' \in SUBSET gazers /\ peak' = peak
      BY <2>2 DEF Unstar
    <3>2. IsFiniteSet(gazers') /\ Cardinality(gazers') <= Cardinality(gazers)
          /\ Cardinality(gazers') \in Nat /\ Cardinality(gazers) \in Nat
      BY <2>0, <3>1, FS_Subset, FS_CardinalityType DEF WorldOK
    <3> QED BY <2>0, <3>1, <3>2 DEF WorldOK
  <2> QED BY <2>1, <2>2
<1>3. peak' \in Nat /\ peak <= peak' /\ Cardinality(gazers') <= peak' /\ peak' <= Cardinality(Users)
  <2>1. Cardinality(gazers') <= Cardinality(Users)
    <3>1. \A G \in SUBSET Stars :
            (\A g, h \in G : g.user = h.user => g = h) => Cardinality(G) <= Cardinality(Users)
      BY StarPerUser
    <3> QED BY <1>2, <3>1
  <2>2. peak \in Nat /\ peak <= Cardinality(Users)
    BY DEF StarInv, WorldOK
  <2> QED BY <1>2, <2>1, <2>2 DEF MaxOf
<1>4. WorldOK'
  BY <1>1, <1>2, <1>3 DEF WorldOK
<1>5. peak \in Nat /\ TablesOK /\ SyncOK /\ (pc = "write" => Cardinality(pending) \in Nat)
  BY FS_CardinalityType DEF StarInv, WorldOK, SyncOK
<1>6. \A n \in Nat : n <= peak => n <= peak'
  BY <1>3, <1>5
<1>7. TablesOK'
  <2>1. \A d \in StarDays : rows'[d] <= peak'
    BY <1>1, <1>5, <1>6 DEF TablesOK
  <2>2. cursor'.count <= peak' + 1
    BY <1>1, <1>3, <1>5 DEF TablesOK
  <2> QED BY <1>1, <1>5, <2>1, <2>2 DEF TablesOK
<1>8. SyncOK'
  <2>1. pc = "write" => base + Cardinality(pending) <= peak'
    BY <1>3, <1>5 DEF SyncOK
  <2> QED BY <1>1, <1>5, <1>6, <2>1 DEF SyncOK
<1> QED BY <1>4, <1>7, <1>8 DEF StarInv

\* The metadata, the list, and what comes of asking for them.
LEMMA StarsAsked ==
  ASSUME StarInv, ReadMetadata \/ Skip \/ FetchFull \/ FetchRecent \/ ReadFails \/ ProcessDies
  PROVE  StarInv'
<1>1. WorldOK /\ TablesOK /\ SyncOK
  BY DEF StarInv
<1>2. UNCHANGED <<world, stored>>
  BY DEF ReadMetadata, Skip, FetchFull, FetchRecent, ReadFails, ProcessDies
<1>3. WorldOK' /\ TablesOK'
  BY <1>1, <1>2 DEF world, stored, WorldOK, TablesOK
<1>4. peak' = peak /\ peak \in Nat /\ Cardinality(gazers) \in Nat /\ Cardinality(gazers) <= peak
  BY <1>1, <1>2, FS_CardinalityType DEF world, WorldOK
<1> SUFFICES SyncOK'
  BY <1>3 DEF StarInv
<1>5. CASE ReadMetadata
  BY <1>1, <1>4, <1>5 DEF ReadMetadata, SyncOK
<1>6. CASE Skip \/ ReadFails \/ ProcessDies
  <2>1. /\ UNCHANGED <<current, pending, base, newest, mode>> /\ pc' = "idle"
        /\ failures' = failures \/ (failures < MaxFailures /\ failures' = failures + 1)
    BY <1>6 DEF Skip, ReadFails, ProcessDies, locals
  <2>2. failures' \in 0 .. MaxFailures
    BY <1>1, <2>1, StarAssumption DEF SyncOK
  <2> QED BY <1>1, <1>4, <2>1, <2>2 DEF SyncOK
<1>7. CASE FetchFull
  <2>1. /\ pending' = gazers /\ base' = 0 /\ mode' = "full" /\ pc' = "write"
        /\ newest' = Max({g.at : g \in gazers} \union {NoTime})
        /\ UNCHANGED <<current, failures>>
    BY <1>7 DEF FetchFull
  <2>2. newest' \in 0 .. MaxTime /\ pending' \subseteq Stars /\ IsFiniteSet(pending')
    BY <1>1, <2>1, NewestIs DEF WorldOK
  <2>3. base' + Cardinality(pending') <= peak'
    BY <1>4, <2>1
  <2> QED BY <1>1, <1>4, <2>1, <2>2, <2>3 DEF SyncOK
<1>8. CASE FetchRecent
  <2> DEFINE stars == Recent(current - LastSeen, cursor.at)
  <2>1. pc = "decide" /\ Incremental /\ UNCHANGED <<current, failures>>
    BY <1>8 DEF FetchRecent
  <2>2. LastSeen \in Nat /\ LastSeen < current /\ current \in Nat /\ current <= peak
    <3>1. cursor.count \in Nat /\ cursor.count # 0 /\ current > cursor.count - 1
      BY <1>1, <2>1 DEF Incremental, Synced, LastSeen, NeverSynced, TablesOK
    <3> QED BY <1>1, <3>1 DEF LastSeen, SyncOK
  <2>3. current - LastSeen \in Nat
    BY <2>2
  <2>4. /\ stars \subseteq gazers /\ IsFiniteSet(stars)
        /\ Cardinality(stars) <= current - LastSeen
    BY <1>1, <2>3, FewRecent
  <2>5. CASE stars = {}
    <3>1. pc' = "idle" /\ UNCHANGED <<pending, base, newest, mode>>
      BY <1>8, <2>5 DEF FetchRecent
    <3> QED BY <1>1, <1>4, <2>1, <3>1 DEF SyncOK
  <2>6. CASE stars # {}
    <3>1. /\ pending' = stars /\ base' = LastSeen /\ mode' = "incremental" /\ pc' = "write"
          /\ newest' = Max({g.at : g \in stars})
      BY <1>8, <2>6 DEF FetchRecent
    <3> HIDE DEF stars
    <3>2. stars \in SUBSET Stars
      BY <1>1, <2>4 DEF WorldOK
    <3>3. newest' \in 0 .. MaxTime
      BY <2>6, <3>1, <3>2, NewestIs
    <3>4. Cardinality(stars) \in Nat
      BY <2>4, FS_CardinalityType
    <3>5. base' \in Nat /\ base' <= peak' /\ base' + Cardinality(pending') <= peak'
      BY <1>4, <2>2, <2>4, <3>1, <3>4
    <3> QED BY <1>1, <1>4, <2>1, <2>4, <3>1, <3>2, <3>3, <3>5 DEF SyncOK
  <2> QED BY <2>5, <2>6
<1> QED BY <1>5, <1>6, <1>7, <1>8

\* A failure more, or none.
LEMMA FailuresBounded ==
  ASSUME SyncOK, NEW ok \in BOOLEAN, ok \/ failures < MaxFailures,
         failures' = IF ok THEN failures ELSE failures + 1
  PROVE  failures' \in 0 .. MaxFailures
BY StarAssumption DEF SyncOK

\* A star written stands on those before it, and one less is pending.
LEMMA StarWritten ==
  ASSUME StarInv, NEW ok \in BOOLEAN, WriteStar(ok)
  PROVE  StarInv'
<1>1. WorldOK /\ TablesOK /\ SyncOK
  BY DEF StarInv
<1>2. PICK s \in pending :
        /\ pending' = pending \ {s}
        /\ rows' = IF ok THEN [rows EXCEPT ![Day(s.at)] = MaxOf(@, base + 1)] ELSE rows
  BY DEF WriteStar
<1>3. /\ pc = "write" /\ base' = base + 1
      /\ UNCHANGED <<world, cursor, pc, current, newest, mode>>
  BY DEF WriteStar
<1>4. failures' \in 0 .. MaxFailures
  <2>1. (ok \/ failures < MaxFailures) /\ failures' = IF ok THEN failures ELSE failures + 1
    BY DEF WriteStar
  <2> QED BY <1>1, <2>1, FailuresBounded
<1>5. WorldOK' /\ peak' = peak /\ peak \in Nat
  BY <1>1, <1>3 DEF world, WorldOK
<1>6. /\ IsFiniteSet(pending') /\ pending' \subseteq Stars
      /\ Cardinality(pending) \in Nat /\ Cardinality(pending') = Cardinality(pending) - 1
      /\ Cardinality(pending') \in Nat
  <2>1. IsFiniteSet(pending) /\ pending \subseteq Stars
    BY <1>1 DEF SyncOK
  <2>2. IsFiniteSet(pending \ {s}) /\ Cardinality(pending \ {s}) = Cardinality(pending) - 1
    BY <1>2, <2>1, FS_RemoveElement
  <2> QED BY <1>2, <2>1, <2>2, FS_CardinalityType
<1>7. base' \in Nat /\ base' <= peak /\ base' + Cardinality(pending') <= peak
  <2>1. base \in Nat /\ base + Cardinality(pending) <= peak
    BY <1>1, <1>3 DEF SyncOK
  <2> QED BY <1>3, <1>5, <1>6, <2>1
<1>8. TablesOK'
  <2>1. rows \in [StarDays -> Nat] /\ \A d \in StarDays : rows[d] <= peak
    BY <1>1 DEF TablesOK
  <2>2. \A d \in StarDays : MaxOf(rows[d], base + 1) \in Nat /\ MaxOf(rows[d], base + 1) <= peak
    BY <1>3, <1>5, <1>7, <2>1 DEF MaxOf
  <2>3. rows' \in [StarDays -> Nat] /\ \A d \in StarDays : rows'[d] <= peak
    BY <1>2, <1>5, <2>1, <2>2
  <2> QED BY <1>1, <1>3, <1>5, <2>3 DEF TablesOK
<1>9. SyncOK'
  BY <1>1, <1>3, <1>4, <1>5, <1>6, <1>7 DEF SyncOK
<1> QED BY <1>5, <1>8, <1>9 DEF StarInv

\* The cursor holds the count the sync was for.
LEMMA CursorWritten ==
  ASSUME StarInv, NEW ok \in BOOLEAN, WriteCursor(ok)
  PROVE  StarInv'
<1>1. WorldOK /\ TablesOK /\ SyncOK
  BY DEF StarInv
<1>2. /\ pc' = "idle" /\ UNCHANGED <<world, rows, locals>>
      /\ cursor' = IF ok THEN [count |-> current + 1, at |-> newest] ELSE cursor
  BY DEF WriteCursor
<1>3. failures' \in 0 .. MaxFailures
  <2>1. (ok \/ failures < MaxFailures) /\ failures' = IF ok THEN failures ELSE failures + 1
    BY DEF WriteCursor
  <2> QED BY <1>1, <2>1, FailuresBounded
<1>4. WorldOK' /\ peak' = peak /\ peak \in Nat
  BY <1>1, <1>2 DEF world, WorldOK
<1>5. TablesOK'
  <2>1. current \in Nat /\ current <= peak /\ newest \in 0 .. MaxTime
    BY <1>1 DEF SyncOK
  <2>2. cursor' \in [count : Nat, at : 0 .. MaxTime] /\ cursor'.count <= peak + 1
    <3>1. CASE ok
      BY <1>2, <1>4, <2>1, <3>1
    <3>2. CASE ~ok
      BY <1>1, <1>2, <3>2 DEF TablesOK
    <3> QED BY <3>1, <3>2
  <2> QED BY <1>1, <1>2, <1>4, <2>2 DEF TablesOK
<1>6. SyncOK'
  BY <1>1, <1>2, <1>3, <1>4 DEF SyncOK, locals
<1> QED BY <1>4, <1>5, <1>6 DEF StarInv

\* Every step keeps the invariant.
LEMMA StarsStep == StarInv /\ [StarNext]_starVars => StarInv'
<1> SUFFICES ASSUME StarInv, [StarNext]_starVars PROVE StarInv'
  OBVIOUS
<1>1. CASE SyncStep
  BY <1>1, StarsAsked, StarWritten, CursorWritten DEF SyncStep
<1>2. CASE ReadFails \/ ProcessDies
  BY <1>2, StarsAsked
<1>3. CASE WriteStar(FALSE) \/ WriteCursor(FALSE)
  BY <1>3, StarWritten, CursorWritten
<1>4. ASSUME NEW u \in Users, Star(u) \/ Unstar(u) PROVE StarInv'
  BY <1>4, StarsMove
<1>5. CASE UNCHANGED starVars
  BY <1>5 DEF starVars, world, stored, locals, StarInv, WorldOK, TablesOK, SyncOK
<1> QED BY <1>1, <1>2, <1>3, <1>4, <1>5 DEF StarNext

\* The series never holds more stars than the repository ever had, whatever the races
\* between the metadata and the list, crashes and unnoticed failures (syncRepoStars).
THEOREM SeriesInventsNoStars == StarSpec => []NeverAbovePeak
<1>1. StarInv => NeverAbovePeak
  BY DEF StarInv, TablesOK, NeverAbovePeak
<1> QED BY <1>1, StarsBegin, StarsStep, PTL DEF StarSpec

\* The tables and the sync's locals keep their types, and no count exceeds the number
\* of users.
THEOREM StarTypeCorrect == StarSpec => []StarTypeOK
<1>1. StarInv => StarTypeOK
  <2> SUFFICES ASSUME StarInv PROVE StarTypeOK
    OBVIOUS
  <2>1. WorldOK /\ TablesOK /\ SyncOK /\ Cardinality(Users) \in Nat
    BY FS_CardinalityType, StarAssumption DEF StarInv
  <2>2. \A n \in Nat : n <= peak => n \in Count
    BY <2>1 DEF WorldOK, Count
  <2>3. clock \in 0 .. MaxTime /\ gazers \subseteq Stars /\ peak \in Count /\ raced \in BOOLEAN
    BY <2>1, <2>2 DEF WorldOK
  <2>4. rows \in [StarDays -> Count]
    BY <2>1, <2>2 DEF TablesOK
  <2>5. cursor \in [count : 0 .. Cardinality(Users) + 1, at : 0 .. MaxTime]
    <3>1. cursor.count \in 0 .. Cardinality(Users) + 1
      BY <2>1 DEF TablesOK, WorldOK
    <3> QED BY <2>1, <3>1 DEF TablesOK
  <2>6. /\ pc \in {"idle", "decide", "write"} /\ mode \in {"full", "incremental"}
        /\ current \in Count /\ base \in Count /\ newest \in 0 .. MaxTime
        /\ failures \in 0 .. MaxFailures /\ pending \subseteq Stars
    BY <2>1, <2>2 DEF SyncOK
  <2> QED BY <2>3, <2>4, <2>5, <2>6 DEF StarTypeOK
<1> QED BY <1>1, StarsBegin, StarsStep, PTL DEF StarSpec

-----------------------------------------------------------------------------
(* The samples and their increments                                       *)

\* What a process does is one of the records it is given, and a run has its day.
RunOK ==
  /\ run \in [Processes -> [at : {"idle", "store"}, day : 0 .. MaxDay, left : SUBSET Items]]
  /\ \A p \in Processes : run[p].at = "store" => run[p].day \in 1 .. today

\* The samples alone: what the increments are computed from.
CountsOK == today \in Days /\ count \in [Days -> [Items -> 0 .. MaxCount]]

\* The bounds are numbers.
LEMMA Numbers == MaxDay \in Nat /\ MaxDay > 0 /\ MaxCount \in Nat /\ MaxRuns \in Nat
BY SnapshotsAssumption

\* The greatest element of a set is the one that is in it and exceeded by none.
LEMMA MaxIs ==
  ASSUME NEW S \in SUBSET Int, NEW m \in S, \A y \in S : m >= y
  PROVE  Max(S) = m
<1>1. Max(S) \in S /\ \A y \in S : Max(S) >= y
  BY DEF Max
<1>2. Max(S) \in Int /\ m \in Int
  BY <1>1
<1>3. Max(S) >= m /\ m >= Max(S)
  BY <1>1
<1> QED
  BY <1>2, <1>3

\* Without a gap, the sample before is that of the day before, or there is none.
LEMMA BeforeIsYesterday ==
  ASSUME CountsOK, NEW i \in Items, NEW d \in Days, NEW from \in Int, from < d, NoGap(i, d)
  PROVE  Before(i, d, from)
           = IF d > 1 /\ count[d - 1][i] > 0 /\ from <= d - 1 THEN count[d - 1][i] ELSE 0
<1> DEFINE S == {x \in from .. d - 1 : x \in Days /\ count[x][i] > 0}
<1>0. d \in Int /\ d >= 1 /\ d <= MaxDay /\ MaxDay \in Nat
  BY Numbers DEF Days
<1>1. Before(i, d, from) = IF S = {} THEN 0 ELSE count[Max(S)][i]
  BY DEF Before
<1>2. CASE d > 1 /\ count[d - 1][i] > 0
  <2>1. d - 1 \in S
    BY <1>0, <1>2 DEF Days
  <2>2. S \subseteq Int /\ \A y \in S : d - 1 >= y
    BY <1>0
  <2>3. Max(S) = d - 1
    BY <2>1, <2>2, MaxIs
  <2> QED
    BY <1>1, <1>2, <2>1, <2>3
<1>3. CASE ~(d > 1 /\ count[d - 1][i] > 0)
  <2>1. \A x \in 1 .. d - 1 : count[x][i] = 0
    BY <1>3 DEF NoGap
  <2>2. S = {}
    BY <1>0, <2>1 DEF Days
  <2> QED
    BY <1>1, <1>3, <2>2
<1> QED
  BY <1>2, <1>3

\* The types hold initially ...
LEMMA InitTypes == Init => CountsOK /\ RunOK
<1> SUFFICES ASSUME Init PROVE CountsOK /\ RunOK
  OBVIOUS
<1>1. CountsOK
  BY Numbers DEF Init, CountsOK, Days
<1>2. RunOK
  BY Numbers DEF Init, RunOK, Resting
<1> QED
  BY <1>1, <1>2

\* ... and every step keeps them.
LEMMA NextTypes == CountsOK /\ RunOK /\ [Next]_vars => CountsOK' /\ RunOK'
<1> SUFFICES ASSUME CountsOK, RunOK, [Next]_vars PROVE CountsOK' /\ RunOK'
  OBVIOUS
<1> USE Numbers
<1>0. today \in Nat /\ today >= 1 /\ today <= MaxDay
  BY DEF CountsOK, Days
<1>1. ASSUME NEW p \in Processes, Begin(p) PROVE CountsOK' /\ RunOK'
  BY <1>0, <1>1 DEF Begin, CountsOK, RunOK, tables
<1>2. ASSUME NEW p \in Processes, Crash(p) PROVE CountsOK' /\ RunOK'
  BY <1>0, <1>2 DEF Crash, CountsOK, RunOK, tables, Resting
<1>3. ASSUME NEW p \in Processes, NEW i \in Items, NoSample(p, i) PROVE CountsOK' /\ RunOK'
  BY <1>0, <1>3 DEF NoSample, CountsOK, RunOK, tables
<1>4. ASSUME NEW p \in Processes, NEW i \in Items, NEW n \in 1 .. MaxCount, StoreSample(p, i, n)
      PROVE  CountsOK' /\ RunOK'
  <2>1. run[p].day \in Days
    BY <1>0, <1>4 DEF StoreSample, RunOK, Days
  <2>2. count[run[p].day] \in [Items -> 0 .. MaxCount]
    BY <2>1 DEF CountsOK
  <2>3. Kept(count[run[p].day][i], n) \in 0 .. MaxCount
    BY <2>2 DEF Kept
  <2>4. count' \in [Days -> [Items -> 0 .. MaxCount]]
    BY <1>4, <2>1, <2>2, <2>3 DEF StoreSample, CountsOK
  <2>5. RunOK'
    BY <1>4 DEF StoreSample, RunOK
  <2>6. today' = today
    BY <1>4 DEF StoreSample
  <2> QED
    BY <2>4, <2>5, <2>6 DEF CountsOK
<1>5. CASE UpdateDeltas
  BY <1>0, <1>5 DEF UpdateDeltas, CountsOK, RunOK, Resting, Processes
<1>6. CASE FetchEnds
  BY <1>0, <1>6 DEF FetchEnds, CountsOK, RunOK, Resting, tables, Processes
<1>7. CASE NewDay
  BY <1>0, <1>7 DEF NewDay, CountsOK, RunOK, tables, Days
<1>8. CASE UNCHANGED vars
  BY <1>8 DEF vars, CountsOK, RunOK, tables
<1> QED
  BY <1>1, <1>2, <1>3, <1>4, <1>5, <1>6, <1>7, <1>8 DEF Next

\* A step that keeps the tables and what is outdated keeps the agreement.
LEMMA SameTables ==
  ASSUME DeltasAgree, UNCHANGED <<count, delta, stale>> PROVE DeltasAgree'
BY DEF DeltasAgree, NoGap, Before

\* A sample that changes outdates its own increment and that of the next day; all
\* others compare two samples that stay.
LEMMA SampleKeepsAgreement ==
  ASSUME CountsOK, RunOK, DeltasAgree, CountsOK',
         NEW p \in Processes, NEW i \in Items, NEW n \in 1 .. MaxCount, StoreSample(p, i, n)
  PROVE  DeltasAgree'
<1> USE Numbers
<1> DEFINE day == run[p].day
<1>0. day \in Days /\ day \in Int
  BY DEF StoreSample, RunOK, CountsOK, Days
<1>1. \A d \in Days : \A j \in Items :
        count'[d][j] = IF d = day /\ j = i THEN Kept(count[d][j], n) ELSE count[d][j]
  BY <1>0 DEF StoreSample, CountsOK
<1>2. delta' = delta
  BY DEF StoreSample
<1>3. CASE count' = count
  <2>1. stale' = stale
    BY <1>3 DEF StoreSample
  <2> QED
    BY <1>2, <1>3, <2>1, SameTables
<1>4. CASE count' # count
  <2>1. stale' = stale \union {<<day, i>>, <<day + 1, i>>}
    BY <1>4 DEF StoreSample
  <2> SUFFICES ASSUME NEW d \in Days, NEW j \in Items,
                      count'[d][j] > 0, <<d, j>> \notin stale', NoGap(j, d)'
               PROVE  delta'[d][j] = Rise(Before(j, d, 1)', count'[d][j])
    BY DEF DeltasAgree
  <2>2. ~(j = i /\ d \in {day, day + 1}) /\ <<d, j>> \notin stale
    BY <2>1
  <2>3. d \in Int /\ d >= 1 /\ (d > 1 => d - 1 \in Days)
    BY DEF Days
  <2>4. count'[d][j] = count[d][j]
    BY <1>1, <2>2
  <2>5. d > 1 => count'[d - 1][j] = count[d - 1][j]
    BY <1>0, <1>1, <2>2, <2>3
  <2>6. \A x \in Days : count'[x][j] >= count[x][j] /\ count[x][j] >= 0
    <3>1. \A x \in Days : count[x][j] \in 0 .. MaxCount
      BY DEF CountsOK
    <3> QED
      BY <1>1, <3>1 DEF Kept
  <2>7. NoGap(j, d)
    <3>1. CASE d > 1 /\ count'[d - 1][j] > 0
      BY <2>5, <3>1 DEF NoGap
    <3>2. CASE \A x \in 1 .. d - 1 : count'[x][j] = 0
      <4>1. \A x \in 1 .. d - 1 : x \in Days
        BY DEF Days
      <4>2. \A x \in 1 .. d - 1 : count[x][j] = 0
        <5>1. \A x \in Days : count[x][j] \in Int
          BY DEF CountsOK
        <5> QED
          BY <2>6, <3>2, <4>1, <5>1
      <4> QED
        BY <4>2 DEF NoGap
    <3> QED
      BY <3>1, <3>2 DEF NoGap
  <2>8. delta[d][j] = Rise(Before(j, d, 1), count[d][j])
    BY <2>2, <2>4, <2>7 DEF DeltasAgree
  <2>9. Before(j, d, 1)' = Before(j, d, 1)
    <3>1. CASE d = 1
      BY <3>1 DEF Before
    <3>2. CASE d > 1
      <4>1. Before(j, d, 1) = IF count[d - 1][j] > 0 THEN count[d - 1][j] ELSE 0
        BY <2>3, <2>7, <3>2, BeforeIsYesterday
      <4>2. Before(j, d, 1)' = IF count'[d - 1][j] > 0 THEN count'[d - 1][j] ELSE 0
        <5> DEFINE S == {x \in 1 .. d - 1 : x \in Days /\ count'[x][j] > 0}
        <5>1. Before(j, d, 1)' = IF S = {} THEN 0 ELSE count'[Max(S)][j]
          BY DEF Before
        <5>2. CASE count'[d - 1][j] > 0
          <6>1. d - 1 \in S /\ S \subseteq Int /\ \A y \in S : d - 1 >= y
            BY <2>3, <3>2, <5>2
          <6>2. Max(S) = d - 1
            BY <6>1, MaxIs
          <6> QED
            BY <5>1, <5>2, <6>1, <6>2
        <5>3. CASE ~(count'[d - 1][j] > 0)
          <6>1. \A x \in 1 .. d - 1 : count'[x][j] = 0
            BY <5>3 DEF NoGap
          <6>2. S = {}
            BY <6>1
          <6> QED
            BY <5>1, <5>3, <6>2
        <5> QED
          BY <5>2, <5>3
      <4> QED
        BY <2>5, <3>2, <4>1, <4>2
    <3> QED
      BY <2>3, <3>1, <3>2
  <2> QED
    BY <1>2, <2>4, <2>8, <2>9
<1> QED
  BY <1>3, <1>4

\* The increments of a run are those of a rebuild from the day of the run on, and
\* what was outdated before that day is still outdated.
LEMMA RunKeepsAgreement ==
  ASSUME CountsOK, RunOK, DeltasAgree, UpdateDeltas PROVE DeltasAgree'
<1> USE Numbers
<1> DEFINE day == run[Serve].day
<1>0. Serve \in Processes /\ day \in Int /\ day >= 1
  BY DEF UpdateDeltas, RunOK, CountsOK, Days, Processes
<1>1. count' = count
  BY DEF UpdateDeltas
<1>2. CASE UNCHANGED <<delta, stale>>
  BY <1>1, <1>2, SameTables
<1>3. CASE delta' = Recomputed(day) /\ stale' = {x \in stale : x[1] < day}
  <2> SUFFICES ASSUME NEW d \in Days, NEW j \in Items,
                      count[d][j] > 0, <<d, j>> \notin stale', NoGap(j, d)
               PROVE  delta'[d][j] = Rise(Before(j, d, 1), count[d][j])
    BY <1>1 DEF DeltasAgree, NoGap, Before
  <2>0. d \in Int /\ d >= 1
    BY DEF Days
  <2>1. delta'[d][j] = IF d >= day /\ count[d][j] > 0
                         THEN Rise(Before(j, d, day - 1), count[d][j]) ELSE delta[d][j]
    BY <1>3 DEF Recomputed
  <2>2. CASE d >= day
    <3>1. delta'[d][j] = Rise(Before(j, d, day - 1), count[d][j])
      BY <2>1, <2>2
    <3>2. Before(j, d, day - 1) = Before(j, d, 1)
      <4>1. CASE d = 1
        <5>1. \A x \in day - 1 .. d - 1 : x \notin Days
          BY <1>0, <4>1 DEF Days
        <5>2. {x \in day - 1 .. d - 1 : x \in Days /\ count[x][j] > 0} = {}
          BY <5>1
        <5>3. {x \in 1 .. d - 1 : x \in Days /\ count[x][j] > 0} = {}
          BY <4>1
        <5> QED
          BY <5>2, <5>3 DEF Before
      <4>2. CASE d > 1
        <5>1. Before(j, d, day - 1) = IF count[d - 1][j] > 0 THEN count[d - 1][j] ELSE 0
          BY <1>0, <2>0, <2>2, <4>2, BeforeIsYesterday
        <5>2. Before(j, d, 1) = IF count[d - 1][j] > 0 THEN count[d - 1][j] ELSE 0
          BY <2>0, <4>2, BeforeIsYesterday
        <5> QED
          BY <5>1, <5>2
      <4> QED
        BY <2>0, <4>1, <4>2
    <3> QED
      BY <3>1, <3>2
  <2>3. CASE d < day
    <3>1. <<d, j>> \notin stale
      BY <1>3, <2>3
    <3>2. delta'[d][j] = delta[d][j]
      BY <1>0, <2>0, <2>1, <2>3
    <3> QED
      BY <3>1, <3>2 DEF DeltasAgree
  <2> QED
    BY <1>0, <2>0, <2>2, <2>3
<1> QED
  BY <1>2, <1>3 DEF UpdateDeltas

\* However the runs of serve and fetch, midnights and crashes follow each other,
\* an increment is what a rebuild would give (updateDeltasSince).
THEOREM IncrementsAgree == Spec => []DeltasAgree
<1>1. Init => DeltasAgree
  BY DEF Init, DeltasAgree
<1>2. CountsOK /\ RunOK /\ CountsOK' /\ DeltasAgree /\ [Next]_vars => DeltasAgree'
  <2> SUFFICES ASSUME CountsOK, RunOK, CountsOK', DeltasAgree, [Next]_vars PROVE DeltasAgree'
    OBVIOUS
  <2>1. ASSUME NEW p \in Processes, Begin(p) \/ Crash(p) \/ \E i \in Items : NoSample(p, i)
        PROVE  DeltasAgree'
    <3>1. UNCHANGED <<count, delta, stale>>
      BY <2>1 DEF Begin, Crash, NoSample, tables
    <3> QED
      BY <3>1, SameTables
  <2>2. ASSUME NEW p \in Processes, NEW i \in Items, NEW n \in 1 .. MaxCount,
               StoreSample(p, i, n)
        PROVE  DeltasAgree'
    BY <2>2, SampleKeepsAgreement
  <2>3. CASE UpdateDeltas
    BY <2>3, RunKeepsAgreement
  <2>4. CASE FetchEnds \/ NewDay \/ UNCHANGED vars
    <3>1. UNCHANGED <<count, delta, stale>>
      BY <2>4 DEF FetchEnds, NewDay, vars, tables
    <3> QED
      BY <3>1, SameTables
  <2> QED
    BY <2>1, <2>2, <2>3, <2>4 DEF Next
<1> QED
  BY <1>1, <1>2, InitTypes, NextTypes, PTL DEF Spec

\* Samples and increments of a day change only while a run that began on that day or
\* before goes on, and samples never go down (UpsertReferrer, UpsertPath).
THEOREM PastIsKept == Spec => HistoryKept
<1> DEFINE Kept1 ==
      \A d \in Days : \A i \in Items :
        /\ count'[d][i] >= count[d][i]
        /\ (count'[d][i] # count[d][i] \/ delta'[d][i] # delta[d][i])
             => \E p \in Processes : run[p].at # "idle" /\ run[p].day <= d
<1>1. CountsOK /\ RunOK /\ [Next]_vars => [Kept1]_vars
  <2> SUFFICES ASSUME CountsOK, RunOK, Next, NEW d \in Days, NEW i \in Items
               PROVE  /\ count'[d][i] >= count[d][i]
                      /\ (count'[d][i] # count[d][i] \/ delta'[d][i] # delta[d][i])
                           => \E p \in Processes : run[p].at # "idle" /\ run[p].day <= d
    OBVIOUS
  <2> USE Numbers
  <2>0. count[d][i] \in Int /\ d \in Int
    BY DEF CountsOK, Days
  <2>1. CASE UNCHANGED <<count, delta>>
    BY <2>0, <2>1
  <2>2. ASSUME NEW p \in Processes, NEW j \in Items, NEW n \in 1 .. MaxCount,
               StoreSample(p, j, n)
        PROVE  /\ count'[d][i] >= count[d][i]
               /\ (count'[d][i] # count[d][i] \/ delta'[d][i] # delta[d][i])
                    => \E q \in Processes : run[q].at # "idle" /\ run[q].day <= d
    <3>1. run[p].day \in Days /\ run[p].at = "store"
      BY <2>2 DEF StoreSample, RunOK, CountsOK, Days
    <3>2. count'[d][i] = IF d = run[p].day /\ i = j THEN Kept(count[d][i], n) ELSE count[d][i]
      BY <2>2, <3>1 DEF StoreSample, CountsOK
    <3>3. count'[d][i] >= count[d][i] /\ (count'[d][i] # count[d][i] => run[p].day <= d)
      BY <2>0, <3>2 DEF Kept
    <3>4. delta' = delta
      BY <2>2 DEF StoreSample
    <3> QED
      BY <3>1, <3>3, <3>4
  <2>3. CASE UpdateDeltas
    <3>1. Serve \in Processes /\ run[Serve].at = "store" /\ run[Serve].day \in Int
      BY <2>3 DEF UpdateDeltas, RunOK, CountsOK, Processes, Days
    <3>2. count' = count /\ (delta' = delta \/ delta' = Recomputed(run[Serve].day))
      BY <2>3 DEF UpdateDeltas
    <3>3. delta'[d][i] # delta[d][i] => run[Serve].day <= d
      BY <2>0, <3>1, <3>2 DEF Recomputed
    <3> QED
      BY <2>0, <3>1, <3>2, <3>3
  <2> QED
    BY <2>1, <2>2, <2>3 DEF Next, Begin, Crash, NoSample, FetchEnds, NewDay, tables
<1> QED
  BY <1>1, InitTypes, NextTypes, PTL DEF Spec, HistoryKept

\* The sample before another is a sample, or none.
LEMMA BeforeIsCount ==
  ASSUME CountsOK, NEW i \in Items, NEW d \in Days, NEW from \in Int
  PROVE  Before(i, d, from) \in 0 .. MaxCount
<1> DEFINE S == {x \in from .. d - 1 : x \in Days /\ count[x][i] > 0}
<1>1. Before(i, d, from) = IF S = {} THEN 0 ELSE count[Max(S)][i]
  BY DEF Before
<1>2. S \in SUBSET Days /\ S \in SUBSET (0 .. MaxDay)
  BY Numbers DEF Days
<1> HIDE DEF S
<1>3. S # {} => Max(S) \in Days
  BY <1>2, Numbers, Greatest
<1> QED
  BY <1>1, <1>3, Numbers DEF CountsOK

\* Samples, increments and runs keep their types; a run's day is never ahead of the day.
THEOREM SnapshotTypeCorrect == Spec => []TypeOK
<1> DEFINE Rest == runs \in 0 .. MaxRuns /\ delta \in [Days -> [Items -> 0 .. MaxCount]]
<1>1. CountsOK /\ RunOK /\ Rest => TypeOK
  <2> SUFFICES ASSUME CountsOK, RunOK, Rest PROVE TypeOK
    OBVIOUS
  <2>1. ASSUME NEW p \in Processes
        PROVE  /\ run[p].at \in {"idle", "store"} /\ run[p].left \subseteq Items
               /\ run[p].at # "idle" => run[p].day \in 1 .. today
    BY <2>1 DEF RunOK
  <2> QED
    BY <2>1 DEF CountsOK, TypeOK
<1>2. Init => Rest
  BY Numbers DEF Init
<1>3. CountsOK /\ RunOK /\ Rest /\ [Next]_vars => Rest'
  <2> SUFFICES ASSUME CountsOK, RunOK, Rest, [Next]_vars PROVE Rest'
    OBVIOUS
  <2>1. ASSUME NEW p \in Processes, Begin(p) PROVE Rest'
    BY <2>1, Numbers DEF Begin, tables
  <2>2. CASE UNCHANGED <<runs, delta>>
    BY <2>2
  <2>3. CASE UpdateDeltas
    <3>1. Serve \in Processes /\ run[Serve].day \in Int
      BY <2>3, Numbers DEF UpdateDeltas, RunOK, Processes
    <3>2. \A d \in Days : \A i \in Items :
            Rise(Before(i, d, run[Serve].day - 1), count[d][i]) \in 0 .. MaxCount
      <4> SUFFICES ASSUME NEW d \in Days, NEW i \in Items
                   PROVE  Rise(Before(i, d, run[Serve].day - 1), count[d][i]) \in 0 .. MaxCount
        OBVIOUS
      <4>1. Before(i, d, run[Serve].day - 1) \in 0 .. MaxCount
        BY <3>1, BeforeIsCount
      <4>2. count[d][i] \in 0 .. MaxCount
        BY DEF CountsOK
      <4> QED
        BY <4>1, <4>2, Numbers DEF Rise
    <3>3. Recomputed(run[Serve].day) \in [Days -> [Items -> 0 .. MaxCount]]
      BY <3>2 DEF Recomputed
    <3> QED
      BY <2>3, <3>3 DEF UpdateDeltas
  <2> QED
    BY <2>1, <2>2, <2>3
       DEF Next, Crash, NoSample, StoreSample, FetchEnds, NewDay, tables, vars
<1> QED
  BY <1>1, <1>2, <1>3, InitTypes, NextTypes, PTL DEF Spec
==============================================================================
