----------------------------- MODULE ReportsProofs -----------------------------
(***************************************************************************)
(* Theorems about what is reported: which repositories (Catalog, for any   *)
(* repositories, filter and settings and any number of commands, changes   *)
(* and runs) and what of them (Reports, for any sizes, windows and days).  *)
(*                                                                         *)
(* Which repositories.  A page knows what was excluded when it began, and  *)
(* BannedInv says that every such row is still excluded; PublicInv follows *)
(* "public" from GitHub through the list of a run into a row.  ShowInv     *)
(* ties the showcase to the times its entries were added and bounds the    *)
(* sort numbers, so that MAX(sort) exists.                                 *)
(*                                                                         *)
(* What of them.  A total is a fold over a set, whose order is not known.  *)
(* SmallerSets, the least counterexample among the subsets of a finite     *)
(* set, shows that the sums of disjoint sets add up, whatever the order,   *)
(* and everything about windows follows from that.  The scores are         *)
(* quotients, compared by cross-multiplication; a ranking exists because   *)
(* the number of repositories before each is its place; the pages are the  *)
(* list because each starts where the one before it ends.                  *)
(***************************************************************************)
EXTENDS Catalog, MCReports, FunctionTheorems, FiniteSetTheorems, SequenceTheorems,
        NaturalsInduction, WellFoundedInduction, TLAPS

Row == [visibility : Visibilities, policy : Policies]
RowsOK == rows \in [Repos -> Row \union {NoRow}]

\* The run and the page are records with the fields they are given.
SyncOK ==
  \E at, full, left, list, private, ok :
    sync = [at |-> at, full |-> full, left |-> left, list |-> list, private |-> private, ok |-> ok]
PageOK ==
  \E at, left, shown, banned :
    page = [at |-> at, left |-> left, shown |-> shown, banned |-> banned]
RecordsOK == RowsOK /\ SyncOK /\ PageOK

\* What the page took for excluded still is.
BannedInv ==
  \A r \in Repos : r \in page.banned => rows[r] # NoRow /\ rows[r].policy = "exclude"

OnGitHub == {"public", "private", "internal", "gone"}

\* "public" in the run's list or in a row was public on GitHub at some time.
PublicInv ==
  /\ \A r \in Repos : github[r] = "public" => r \in wasPublic
  /\ \A x \in sync.left : x.visibility = "public" => x.name \in wasPublic
  /\ \A r \in Repos : rows[r] # NoRow /\ rows[r].visibility = "public" => r \in wasPublic
  /\ github \in [Repos -> OnGitHub]

\* A missing row and a visibility not fetched yet are unlike any other.
LEMMA Sentinels ==
  /\ NoRow \notin Row
  /\ Unfetched # "public"
BY CatalogAssumption DEF Row

\* A row written by a run is a row, and keeps the operator's decision.
LEMMA UpsertedRow ==
  ASSUME RowsOK, NEW r \in Repos, NEW v
  PROVE  /\ Upserted(r, v) \in Row
         /\ Upserted(r, v) # NoRow
         /\ rows[r] # NoRow => Upserted(r, v).policy = rows[r].policy
         /\ Upserted(r, v).visibility = "public" => v = "public"
<1>1. NormalizeVisibility(v) \in Visibilities
  BY DEF NormalizeVisibility, Visibilities
<1>2. NormalizeVisibility(v) = "public" => v = "public"
  BY DEF NormalizeVisibility
<1>3. rows[r] # NoRow => rows[r].policy \in Policies
  BY DEF RowsOK, Row
<1>4. Upserted(r, v) \in Row
  BY <1>1, <1>3 DEF Upserted, Row, Policies
<1>5. rows[r] # NoRow => Upserted(r, v).policy = rows[r].policy
  BY DEF Upserted
<1>6. Upserted(r, v).visibility = "public" => v = "public"
  BY <1>2 DEF Upserted
<1> QED
  BY <1>4, <1>5, <1>6, Sentinels

\* What the operator's command leaves of a row.
LEMMA PolicyRow ==
  ASSUME RowsOK, NEW r \in Repos, NEW p \in Policies, rows[r] # NoRow
  PROVE  /\ [rows[r] EXCEPT !.policy = p] \in Row
         /\ [rows[r] EXCEPT !.policy = p].visibility = rows[r].visibility
BY DEF RowsOK, Row

\* The actions by what they do to the tables, the run and the page.
LEMMA Steps ==
  ASSUME [Next]_vars
  PROVE  \/ ResolveFilter
         \/ MergePins
         \/ \E r \in Repos : ResolveOne(r)
         \/ \E x \in sync.left : SyncRepo(x)
         \/ \E x \in sync.left : SyncRepoFails(x)
         \/ ListShowcase \/ EndSync \/ \E r \in Repos : RefreshShowcase(r)
         \/ \E r \in Repos : Pin(r) \/ Unpin(r) \/ Feature(r) \/ Unfeature(r)
         \/ \E r \in Repos, p \in Policies : SetPolicy(r, p)
         \/ OpenPage(Repos) \/ \E r \in Repos : OpenPage({r})
         \/ \E r \in Repos : CheckRow(r)
         \/ SendPage
         \/ \E r \in Repos, v \in {"public", "private", "internal", "gone"} : Move(r, v)
         \/ UNCHANGED vars
BY DEF Next, SyncStep, Operator, Page

-----------------------------------------------------------------------------

\* The tables, the run and the page have their fields at the start.
LEMMA InitRecords == Init => RecordsOK
<1> SUFFICES ASSUME Init PROVE RecordsOK
  OBVIOUS
<1>1. RowsOK
  <2>1. \A r \in Repos : github[r] \in {"public", "private"}
    BY DEF Init
  <2>2. \A r \in Repos : [visibility |-> github[r], policy |-> "inherit"] \in Row
    BY <2>1 DEF Row, Visibilities, Policies
  <2> QED
    BY <2>2 DEF Init, RowsOK
<1>2. SyncOK
  BY DEF Init, SyncOK, NoSync
<1>3. PageOK
  BY DEF Init, PageOK, NoPage
<1> QED
  BY <1>1, <1>2, <1>3 DEF RecordsOK

\* Rows stay rows: a run writes whole ones, the operator changes a policy.
LEMMA NextRows == RowsOK /\ [Next]_vars => RowsOK'
<1> SUFFICES ASSUME RowsOK, [Next]_vars PROVE RowsOK'
  OBVIOUS
<1>1. CASE rows' = rows
  BY <1>1 DEF RowsOK
<1>2. ASSUME NEW x \in sync.left, SyncRepo(x) PROVE RowsOK'
  <2>1. PICK v : rows' = [rows EXCEPT ![x.name] = Upserted(x.name, v)]
    BY <1>2 DEF SyncRepo
  <2>2. CASE x.name \in Repos
    <3>1. Upserted(x.name, v) \in Row
      BY <2>2, UpsertedRow
    <3> QED
      BY <2>1, <3>1 DEF RowsOK
  <2>3. CASE x.name \notin Repos
    BY <2>1, <2>3 DEF RowsOK
  <2> QED
    BY <2>2, <2>3
<1>3. ASSUME NEW r \in Repos, NEW p \in Policies, SetPolicy(r, p) PROVE RowsOK'
  <2>1. rows[r] # NoRow /\ rows' = [rows EXCEPT ![r] = [rows[r] EXCEPT !.policy = p]]
    BY <1>3 DEF SetPolicy
  <2>2. [rows[r] EXCEPT !.policy = p] \in Row
    BY <2>1, PolicyRow
  <2> QED
    BY <2>1, <2>2 DEF RowsOK
<1> QED
  BY <1>1, <1>2, <1>3, Steps
     DEF ResolveFilter, MergePins, ResolveOne, SyncRepoFails, ListShowcase, EndSync,
         RefreshShowcase, Pin, Unpin, Feature, Unfeature, OpenPage, CheckRow, SendPage, Move,
         vars, store

\* A run keeps its fields.
LEMMA NextSync == SyncOK /\ [Next]_vars => SyncOK'
<1> SUFFICES ASSUME SyncOK, [Next]_vars PROVE SyncOK'
  OBVIOUS
<1>1. CASE sync' = sync
  BY <1>1 DEF SyncOK
<1>2. CASE ResolveFilter
  <2>1. PICK left, private :
          sync' = [NoSync EXCEPT !.at = "pins", !.full = TRUE, !.left = left,
                                 !.private = private]
    BY <1>2, Zenon DEF ResolveFilter
  <2> QED BY <2>1 DEF SyncOK, NoSync
<1>3. CASE MergePins
  BY <1>3 DEF MergePins, SyncOK
<1>4. CASE \E r \in Repos : ResolveOne(r)
  BY <1>4 DEF ResolveOne, SyncOK, NoSync
<1>5. CASE \E x \in sync.left : SyncRepo(x) \/ SyncRepoFails(x)
  BY <1>5 DEF SyncRepo, SyncRepoFails, SyncOK
<1>6. CASE ListShowcase \/ EndSync \/ \E r \in Repos : RefreshShowcase(r)
  BY <1>6 DEF ListShowcase, EndSync, RefreshShowcase, SyncOK, NoSync
<1>7. CASE \E r \in Repos, v \in {"public", "private", "internal", "gone"} : Move(r, v)
  BY <1>7 DEF Move, SyncOK
<1> QED
  BY <1>1, <1>2, <1>3, <1>4, <1>5, <1>6, <1>7, Steps
     DEF Pin, Unpin, Feature, Unfeature, SetPolicy, Command, OpenPage, CheckRow, SendPage, vars

\* A page keeps its fields.
LEMMA NextPage == PageOK /\ [Next]_vars => PageOK'
<1> SUFFICES ASSUME PageOK, [Next]_vars PROVE PageOK'
  OBVIOUS
<1>1. CASE page' = page
  BY <1>1 DEF PageOK
<1>2. CASE OpenPage(Repos) \/ \E r \in Repos : OpenPage({r})
  BY <1>2 DEF OpenPage, PageOK, NoPage
<1>3. CASE SendPage \/ \E r \in Repos : CheckRow(r)
  BY <1>3 DEF SendPage, CheckRow, PageOK, NoPage
<1>4. CASE \E r \in Repos, p \in Policies : SetPolicy(r, p)
  BY <1>4 DEF SetPolicy, PageOK
<1> QED
  BY <1>1, <1>2, <1>3, <1>4, Steps
     DEF ResolveFilter, MergePins, ResolveOne, SyncRepo, SyncRepoFails, ListShowcase, EndSync,
         RefreshShowcase, Pin, Unpin, Feature, Unfeature, Move, vars

\* So every step keeps the rows, the run and the page in form.
LEMMA NextRecords == RecordsOK /\ [Next]_vars => RecordsOK'
BY NextRows, NextSync, NextPage DEF RecordsOK

-----------------------------------------------------------------------------

\* A run that refreshes a row keeps its exclusion, and the operator who lifts it
\* ends the page's claim.
LEMMA NextBanned == RecordsOK /\ BannedInv /\ [Next]_vars => BannedInv'
<1> SUFFICES ASSUME RecordsOK, BannedInv, [Next]_vars PROVE BannedInv'
  OBVIOUS
<1>0. RowsOK /\ PageOK
  BY DEF RecordsOK
<1>1. CASE rows' = rows /\ page'.banned = page.banned
  BY <1>1 DEF BannedInv
<1>2. ASSUME NEW x \in sync.left, SyncRepo(x) PROVE BannedInv'
  <2>1. PICK v : rows' = [rows EXCEPT ![x.name] = Upserted(x.name, v)]
    BY <1>2 DEF SyncRepo
  <2>2. page' = page
    BY <1>2 DEF SyncRepo
  <2> SUFFICES ASSUME NEW r \in Repos, r \in page.banned
               PROVE  rows'[r] # NoRow /\ rows'[r].policy = "exclude"
    BY <2>2 DEF BannedInv
  <2>3. rows[r] # NoRow /\ rows[r].policy = "exclude"
    BY DEF BannedInv
  <2>4. rows'[r] = IF r = x.name THEN Upserted(r, v) ELSE rows[r]
    BY <1>0, <2>1 DEF RowsOK
  <2>5. Upserted(r, v) # NoRow /\ Upserted(r, v).policy = "exclude"
    BY <1>0, <2>3, UpsertedRow
  <2> QED
    BY <2>3, <2>4, <2>5
<1>3. ASSUME NEW r \in Repos, NEW p \in Policies, SetPolicy(r, p) PROVE BannedInv'
  <2>1. page'.banned = page.banned \ {r}
    BY <1>0, <1>3 DEF SetPolicy, PageOK
  <2>2. \A q \in Repos : q # r => rows'[q] = rows[q]
    BY <1>0, <1>3 DEF SetPolicy, RowsOK
  <2> QED
    BY <2>1, <2>2 DEF BannedInv
<1>4. ASSUME NEW names, OpenPage(names) PROVE BannedInv'
  <2>1. page'.banned = {r \in Repos : rows[r] # NoRow /\ rows[r].policy = "exclude"}
    BY <1>4 DEF OpenPage, NoPage
  <2>2. rows' = rows
    BY <1>4 DEF OpenPage, store
  <2> QED
    BY <2>1, <2>2 DEF BannedInv
<1>5. CASE SendPage
  <2>1. page'.banned = {}
    BY <1>5 DEF SendPage, NoPage
  <2> QED
    BY <2>1 DEF BannedInv
<1>6. CASE \E r \in Repos : CheckRow(r)
  <2>1. page'.banned = page.banned /\ rows' = rows
    BY <1>0, <1>6 DEF CheckRow, PageOK, store
  <2> QED
    BY <2>1, <1>1
<1> QED
  BY <1>1, <1>2, <1>3, <1>4, <1>5, <1>6, Steps
     DEF ResolveFilter, MergePins, ResolveOne, SyncRepoFails, ListShowcase, EndSync,
         RefreshShowcase, Pin, Unpin, Feature, Unfeature, Move, vars, store

\* A repository excluded before a page began is not on it (report_visibility.go).
THEOREM ExclusionHides == Spec => []ExcludedHidden
<1>1. Init => BannedInv /\ ExcludedHidden
  BY DEF Init, NoPage, BannedInv, ExcludedHidden
<1>2. RecordsOK /\ BannedInv /\ ExcludedHidden /\ [Next]_vars => ExcludedHidden'
  <2> SUFFICES ASSUME RecordsOK, BannedInv, ExcludedHidden, [Next]_vars PROVE ExcludedHidden'
    OBVIOUS
  <2>0. PageOK
    BY DEF RecordsOK
  <2>1. CASE page' = page
    BY <2>1 DEF ExcludedHidden
  <2>2. CASE SendPage \/ \E names : OpenPage(names)
    <3>1. SendPage => page'.shown = {}
      BY DEF SendPage, NoPage
    <3>2. \A names : OpenPage(names) => page'.shown = {}
      BY DEF OpenPage, NoPage
    <3> QED
      BY <2>2, <3>1, <3>2 DEF ExcludedHidden
  <2>3. ASSUME NEW r \in Repos, NEW p \in Policies, SetPolicy(r, p) PROVE ExcludedHidden'
    <3>1. page'.shown = page.shown /\ page'.banned = page.banned \ {r}
      BY <2>0, <2>3 DEF SetPolicy, PageOK
    <3> QED
      BY <3>1 DEF ExcludedHidden
  <2>4. ASSUME NEW r \in Repos, CheckRow(r) PROVE ExcludedHidden'
    <3>1. /\ page'.shown = IF Reportable(r) THEN page.shown \union {r} ELSE page.shown
          /\ page'.banned = page.banned
      BY <2>0, <2>4 DEF CheckRow, PageOK
    <3>2. Reportable(r) => r \notin page.banned
      BY DEF Reportable, BannedInv
    <3> QED
      BY <3>1, <3>2 DEF ExcludedHidden
  <2> QED
    BY <2>1, <2>2, <2>3, <2>4, Steps
       DEF ResolveFilter, MergePins, ResolveOne, SyncRepo, SyncRepoFails, ListShowcase, EndSync,
           RefreshShowcase, Pin, Unpin, Feature, Unfeature, Move, vars
<1> QED
  BY <1>1, <1>2, InitRecords, NextRecords, NextBanned, PTL DEF Spec

-----------------------------------------------------------------------------

\* "public" comes from GitHub, through the list or through a request of its own.
LEMMA NextPublic == RecordsOK /\ PublicInv /\ [Next]_vars => PublicInv'
<1> SUFFICES ASSUME RecordsOK, PublicInv, [Next]_vars PROVE PublicInv'
  OBVIOUS
<1>0. RowsOK /\ SyncOK
  BY DEF RecordsOK
<1>1. CASE /\ github' = github /\ rows' = rows /\ wasPublic' = wasPublic
           /\ sync'.left \subseteq sync.left
  BY <1>1 DEF PublicInv
<1>2. CASE ResolveFilter
  <2>1. sync'.left \subseteq {Known(r) : r \in Repos}
    BY <1>2 DEF ResolveFilter, NoSync, Listed
  <2>2. \A x \in sync'.left : x.visibility = "public" => x.name \in wasPublic
    BY <2>1 DEF PublicInv, Known
  <2>3. github' = github /\ rows' = rows /\ wasPublic' = wasPublic
    BY <1>2 DEF ResolveFilter, store, history
  <2> QED
    BY <2>2, <2>3 DEF PublicInv
<1>3. CASE MergePins
  <2>1. \A x \in sync'.left : x \in sync.left \/ x.visibility = Unfetched
    BY <1>0, <1>3 DEF MergePins, ByName, SyncOK
  <2>2. github' = github /\ rows' = rows /\ wasPublic' = wasPublic
    BY <1>3 DEF MergePins, store, history
  <2> QED
    BY <2>1, <2>2, Sentinels DEF PublicInv
<1>4. CASE \E r \in Repos : ResolveOne(r)
  <2>1. \A x \in sync'.left : x.visibility = Unfetched
    BY <1>4 DEF ResolveOne, ByName, NoSync
  <2>2. github' = github /\ rows' = rows /\ wasPublic' = wasPublic
    BY <1>4 DEF ResolveOne, store, history
  <2> QED
    BY <2>1, <2>2, Sentinels DEF PublicInv
<1>5. ASSUME NEW x \in sync.left, SyncRepo(x) PROVE PublicInv'
  <2> DEFINE v == IF x.visibility = Unfetched THEN github[x.name] ELSE x.visibility
  <2>1. rows' = [rows EXCEPT ![x.name] = Upserted(x.name, v)]
    BY <1>5 DEF SyncRepo
  <2>2. github' = github /\ wasPublic' = wasPublic
    BY <1>5 DEF SyncRepo, history
  <2>3. sync'.left \subseteq sync.left
    BY <1>0, <1>5 DEF SyncRepo, SyncOK
  <2>4. x.name \in Repos /\ v = "public" => x.name \in wasPublic
    BY DEF PublicInv
  <2>5. ASSUME NEW r \in Repos, rows'[r] # NoRow, rows'[r].visibility = "public"
        PROVE  r \in wasPublic
    <3>1. CASE r = x.name
      <4>1. rows'[r] = Upserted(r, v)
        BY <1>0, <2>1, <3>1 DEF RowsOK
      <4>2. v = "public"
        <5> HIDE DEF v
        <5> QED
          BY <1>0, <2>5, <4>1, UpsertedRow
      <4> QED
        BY <2>4, <3>1, <4>2
    <3>2. CASE r # x.name
      <4>1. rows'[r] = rows[r]
        BY <1>0, <2>1, <3>2 DEF RowsOK
      <4> QED
        BY <2>5, <4>1 DEF PublicInv
    <3> QED
      BY <3>1, <3>2
  <2> QED
    BY <2>2, <2>3, <2>5 DEF PublicInv
<1>6. ASSUME NEW r \in Repos, NEW p \in Policies, SetPolicy(r, p) PROVE PublicInv'
  <2>1. /\ rows[r] # NoRow
        /\ \A q \in Repos : rows'[q] = IF q = r THEN [rows[r] EXCEPT !.policy = p] ELSE rows[q]
    BY <1>0, <1>6 DEF SetPolicy, RowsOK
  <2>2. [rows[r] EXCEPT !.policy = p].visibility = rows[r].visibility
    BY <1>0, <2>1, PolicyRow
  <2>3. github' = github /\ wasPublic' = wasPublic /\ sync' = sync
    BY <1>6 DEF SetPolicy, Command
  <2> QED
    BY <2>1, <2>2, <2>3 DEF PublicInv
<1>7. ASSUME NEW r \in Repos, NEW v \in {"public", "private", "internal", "gone"}, Move(r, v)
      PROVE  PublicInv'
  <2>1. rows' = rows /\ sync'.left = sync.left
    BY <1>0, <1>7 DEF Move, store, SyncOK
  <2>2. wasPublic' = IF v = "public" THEN wasPublic \union {r} ELSE wasPublic
    BY <1>7 DEF Move
  <2>3. github' = [github EXCEPT ![r] = v]
    BY <1>7 DEF Move
  <2>4. github' \in [Repos -> OnGitHub]
    <3>1. github \in [Repos -> OnGitHub]
      BY DEF PublicInv
    <3>2. v \in OnGitHub
      BY DEF OnGitHub
    <3> QED
      BY <2>3, <3>1, <3>2
  <2>5. \A q \in Repos : github'[q] = IF q = r THEN v ELSE github[q]
    BY <2>3 DEF PublicInv
  <2>6. wasPublic \subseteq wasPublic' /\ (v = "public" => r \in wasPublic')
    BY <2>2
  <2> QED
    BY <2>1, <2>4, <2>5, <2>6 DEF PublicInv
<1>8. CASE EndSync
  <2>1. sync'.left = {} /\ github' = github /\ rows' = rows /\ wasPublic' = wasPublic
    BY <1>8 DEF EndSync, NoSync, store
  <2> QED
    BY <2>1, <1>1
<1>9. CASE \/ \E x \in sync.left : SyncRepoFails(x)
           \/ ListShowcase \/ \E r \in Repos : RefreshShowcase(r)
  <2>1. /\ github' = github /\ rows' = rows /\ wasPublic' = wasPublic
        /\ sync'.left \subseteq sync.left
    BY <1>0, <1>9 DEF SyncRepoFails, ListShowcase, RefreshShowcase, SyncOK, store, history
  <2> QED
    BY <2>1, <1>1
<1> QED
  BY <1>1, <1>2, <1>3, <1>4, <1>5, <1>6, <1>7, <1>8, <1>9, Steps
     DEF Pin, Unpin, Feature, Unfeature, Command, OpenPage, CheckRow, SendPage, vars, store, history

\* What was never public on GitHub is shown only by the operator's decision
\* (NormalizeGitHubVisibility, UpsertRepoWithVisibility, reportVisible).
THEOREM PrivateStaysHidden == Spec => []NeverPublicHidden
<1>1. Init => PublicInv
  <2> SUFFICES ASSUME Init PROVE PublicInv
    OBVIOUS
  <2>0. github \in [Repos -> {"public", "private"}]
    BY DEF Init
  <2>1. github \in [Repos -> OnGitHub]
    <3>1. {"public", "private"} \subseteq OnGitHub
      BY DEF OnGitHub
    <3> QED
      BY <2>0, <3>1
  <2>4. wasPublic = {r \in Repos : github[r] = "public"}
    BY DEF Init
  <2>2. sync.left = {}
    BY DEF Init, NoSync
  <2>3. \A r \in Repos : rows[r] # NoRow => rows[r].visibility = github[r]
    BY DEF Init
  <2> QED
    BY <2>1, <2>2, <2>3, <2>4 DEF PublicInv
<1>2. RecordsOK /\ PublicInv => NeverPublicHidden
  BY DEF PublicInv, NeverPublicHidden, Reportable
<1> QED
  BY <1>1, <1>2, InitRecords, NextRecords, NextPublic, PTL DEF Spec

\* No repository is in a run twice (resolveTracked).
THEOREM RunsTrackOnce == Spec => []TrackedOnce
<1>1. Init => TrackedOnce
  BY DEF Init, NoSync, TrackedOnce
<1>2. RecordsOK /\ TrackedOnce /\ [Next]_vars => TrackedOnce'
  <2> SUFFICES ASSUME RecordsOK, TrackedOnce, [Next]_vars PROVE TrackedOnce'
    OBVIOUS
  <2>0. SyncOK
    BY DEF RecordsOK
  <2>1. CASE sync'.left \subseteq sync.left
    BY <2>1 DEF TrackedOnce
  <2>2. CASE ResolveFilter
    <3>1. sync'.left \subseteq {Known(r) : r \in Repos}
      BY <2>2 DEF ResolveFilter, NoSync, Listed
    <3> QED
      BY <3>1 DEF TrackedOnce, Known
  <2>3. CASE MergePins
    <3>1. sync'.left = sync.left \union
            {ByName(p) : p \in ToSet(pins) \ {x.name : x \in sync.left}}
      BY <2>0, <2>3 DEF MergePins, SyncOK
    <3> QED
      BY <3>1 DEF TrackedOnce, ByName
  <2>4. CASE \E r \in Repos : ResolveOne(r)
    <3>1. \E r : sync'.left = {ByName(r)}
      BY <2>4 DEF ResolveOne, NoSync
    <3> QED
      BY <3>1 DEF TrackedOnce
  <2>5. CASE EndSync
    <3>1. sync'.left = {}
      BY <2>5 DEF EndSync, NoSync
    <3> QED
      BY <3>1, <2>1
  <2>6. CASE \/ \E x \in sync.left : SyncRepo(x) \/ SyncRepoFails(x)
             \/ ListShowcase \/ \E r \in Repos : RefreshShowcase(r)
             \/ \E r \in Repos, v \in {"public", "private", "internal", "gone"} : Move(r, v)
    <3>1. sync'.left \subseteq sync.left
      BY <2>0, <2>6 DEF SyncRepo, SyncRepoFails, ListShowcase, RefreshShowcase, Move, SyncOK
    <3> QED
      BY <3>1, <2>1
  <2>7. CASE sync' = sync
    BY <2>7, <2>1
  <2> QED
    BY <2>2, <2>3, <2>4, <2>5, <2>6, <2>7, Steps
       DEF Pin, Unpin, Feature, Unfeature, SetPolicy, Command, OpenPage, CheckRow, SendPage, vars
<1> QED
  BY <1>1, <1>2, InitRecords, NextRecords, PTL DEF Spec
-----------------------------------------------------------------------------

\* The showcase of the operator and the table are in the same order.
Entry == [name : Repos, sort : Nat, upstream : {"none", "itself", "parent"}]
ShowTypes ==
  /\ featured \subseteq Entry
  /\ commands \in Nat
  /\ showcase \in [Repos -> 0 .. Len(FeaturedBefore) + commands]
ShowInv == ShowTypes /\ (\E n \in Nat : \A f \in featured : f.sort < n) /\ ShowcaseOrdered

\* What is featured at the start: a list of repositories without repeats.
LEMMA CuratedBefore ==
  /\ FeaturedBefore \in Seq(Repos) /\ Len(FeaturedBefore) \in Nat
  /\ DOMAIN FeaturedBefore = 1 .. Len(FeaturedBefore)
  /\ \A i \in 1 .. Len(FeaturedBefore) : FeaturedBefore[i] \in Repos
  /\ \A i, j \in 1 .. Len(FeaturedBefore) : FeaturedBefore[i] = FeaturedBefore[j] => i = j
<1>1. FeaturedBefore \in Seq(Repos) /\ IsInjective(FeaturedBefore)
  BY CatalogAssumption
<1>2. DOMAIN FeaturedBefore = 1 .. Len(FeaturedBefore)
  BY <1>1
<1>3. \A i, j \in DOMAIN FeaturedBefore : FeaturedBefore[i] = FeaturedBefore[j] => i = j
  BY <1>1, Zenon DEF IsInjective
<1> QED
  BY <1>1, <1>2, <1>3

\* A set of numbers has a least one.
LEMMA HasMin ==
  ASSUME NEW S \in SUBSET Nat, S # {}
  PROVE  \E x \in S : \A y \in S : x <= y
<1>1. \E x \in S : \A y \in S : <<y, x>> \notin OpToRel(<, Nat)
  BY NatLessThanWellFounded, WFMin, Zenon
<1>2. \E x \in S : \A y \in S : ~ (y < x)
  BY <1>1, Zenon DEF OpToRel
<1> QED
  BY <1>2

\* The next sort number is above every one there is: the least upper bound is one
\* of the numbers, because the number below it would bound them too.
LEMMA NextSortIsLast ==
  ASSUME featured \subseteq Entry, NEW n \in Nat, \A f \in featured : f.sort < n
  PROVE  NextSort \in Nat /\ \A f \in featured : f.sort < NextSort
<1> DEFINE S == {f.sort + 1 : f \in featured} \union {0}
           U == {m \in Nat : \A x \in S : x <= m}
<1>1. \A f \in featured : f.sort \in Nat
  BY DEF Entry
<1>2. S \subseteq Nat /\ 0 \in S /\ n \in U
  BY <1>1
<1>3. PICK m \in U : \A u \in U : m <= u
  BY <1>2, HasMin
<1>4. m \in S
  <2> SUFFICES ASSUME m \notin S PROVE FALSE
    OBVIOUS
  <2> HIDE DEF S
  <2>1. m \in Nat /\ \A x \in S : x <= m
    OBVIOUS
  <2>2. \A x \in S : x \in Nat /\ x # m
    BY <1>2
  <2>3. m # 0 /\ m - 1 \in Nat
    BY <1>2, <2>1
  <2>4. \A x \in S : x <= m - 1
    BY <2>1, <2>2, <2>3
  <2>5. m - 1 \in U
    BY <2>3, <2>4
  <2> QED
    BY <1>3, <2>1, <2>5
<1>5. Max(S) \in S /\ \A y \in S : Max(S) >= y
  <2> HIDE DEF S
  <2>1. \A y \in S : m >= y
    BY <1>2
  <2> QED
    BY <1>4, <2>1 DEF Max
<1>6. NextSort = Max(S)
  BY DEF NextSort
<1>7. \A f \in featured : f.sort + 1 \in S
  OBVIOUS
<1> HIDE DEF S
<1>8. NextSort \in Nat
  BY <1>2, <1>5, <1>6
<1>9. \A f \in featured : NextSort >= f.sort + 1
  BY <1>5, <1>6, <1>7
<1> QED
  BY <1>1, <1>8, <1>9

\* The showcase at the start is in the order of its list.
LEMMA InitShow == Init => ShowInv
<1> SUFFICES ASSUME Init PROVE ShowInv
  OBVIOUS
<1> USE CuratedBefore
<1> DEFINE N == Len(FeaturedBefore)
           E(i) == [name |-> FeaturedBefore[i], sort |-> i - 1, upstream |-> "none"]
<1>1. featured = {E(i) : i \in 1 .. N}
  BY DEF Init
<1>2. commands = 0
  BY DEF Init
<1>3. \A r \in Repos :
        showcase[r] = IF r \in ToSet(FeaturedBefore)
                        THEN CHOOSE i \in 1 .. N : FeaturedBefore[i] = r ELSE 0
  BY DEF Init
<1>4. \A r : r \in ToSet(FeaturedBefore) <=> \E i \in 1 .. N : FeaturedBefore[i] = r
  BY DEF ToSet
<1>5. \A i \in 1 .. N : FeaturedBefore[i] \in Repos /\ showcase[FeaturedBefore[i]] = i
  <2> SUFFICES ASSUME NEW i \in 1 .. N PROVE showcase[FeaturedBefore[i]] = i
    OBVIOUS
  <2>1. showcase[FeaturedBefore[i]]
          = CHOOSE j \in 1 .. N : FeaturedBefore[j] = FeaturedBefore[i]
    BY <1>3, <1>4
  <2>2. \A j \in 1 .. N : FeaturedBefore[j] = FeaturedBefore[i] => j = i
    OBVIOUS
  <2> QED
    BY <2>1, <2>2
<1>6. \A r \in Repos : showcase[r] # 0 => \E i \in 1 .. N : FeaturedBefore[i] = r /\ showcase[r] = i
  BY <1>3, <1>4, <1>5
<1>7. \A r \in Repos : showcase[r] \in 0 .. N
  BY <1>6
<1>8. showcase \in [Repos -> 0 .. N]
  <2>1. showcase = [r \in Repos |-> showcase[r]]
    BY DEF Init
  <2> QED
    BY <1>7, <2>1
<1>9. \A i \in 1 .. N : E(i) \in Entry
  BY <1>5 DEF Entry
<1>10. ShowTypes
  BY <1>1, <1>2, <1>8, <1>9 DEF ShowTypes
<1>11. \A f \in featured : \E i \in 1 .. N :
         f.name = FeaturedBefore[i] /\ f.sort = i - 1 /\ showcase[f.name] = i
  BY <1>1, <1>5
<1>12. {f.name : f \in featured} = {r \in Repos : showcase[r] > 0}
  <2>1. \A f \in featured : f.name \in Repos /\ showcase[f.name] > 0
    BY <1>5, <1>11
  <2>2. \A r \in Repos : showcase[r] > 0 => \E f \in featured : f.name = r
    <3> TAKE r \in Repos
    <3> HAVE showcase[r] > 0
    <3>1. PICK i \in 1 .. N : FeaturedBefore[i] = r
      BY <1>6
    <3>2. E(i) \in featured /\ E(i).name = r
      BY <1>1, <3>1
    <3> QED
      BY <3>2
  <2> QED
    BY <2>1, <2>2
<1>13. \A f, g \in featured : showcase[f.name] < showcase[g.name] => f.sort < g.sort
  BY <1>11
<1>14. \A f \in featured : f.sort < N
  BY <1>11
<1> QED
  BY <1>10, <1>12, <1>13, <1>14 DEF ShowInv, ShowcaseOrdered

\* A new entry is the last in time and in sort; the refresh of a run rewrites
\* entries that are there under their name and sort.
LEMMA NextShow == ShowInv /\ [Next]_vars => ShowInv'
<1> SUFFICES ASSUME ShowInv, [Next]_vars PROVE ShowInv'
  OBVIOUS
<1> USE CuratedBefore
<1> DEFINE N == Len(FeaturedBefore)
<1>0. ShowTypes /\ ShowcaseOrdered
  BY DEF ShowInv
<1>1. PICK n \in Nat : \A f \in featured : f.sort < n
  BY DEF ShowInv
<1>2. \A f \in featured : f.name \in Repos /\ f.sort \in Nat
  BY <1>0 DEF ShowTypes, Entry
<1>3. \A r \in Repos : showcase[r] \in 0 .. N + commands
  BY <1>0 DEF ShowTypes
<1>4. CASE UNCHANGED <<featured, showcase>> /\ commands' \in {commands, commands + 1}
  <2>1. commands' \in Nat /\ commands' >= commands
    BY <1>0, <1>4 DEF ShowTypes
  <2>2. 0 .. N + commands \subseteq 0 .. N + commands'
    BY <1>0, <2>1 DEF ShowTypes
  <2>3. ShowTypes'
    BY <1>0, <1>4, <2>1, <2>2 DEF ShowTypes
  <2>4. ShowcaseOrdered'
    BY <1>0, <1>4 DEF ShowcaseOrdered
  <2> QED
    BY <1>1, <1>4, <2>3, <2>4 DEF ShowInv
<1>5. ASSUME NEW r \in Repos, RefreshShowcase(r) PROVE ShowInv'
  <2>1. PICK up \in {"itself", "parent"} :
          featured' = {IF f.name = r /\ github[r] # "gone" THEN [f EXCEPT !.upstream = up] ELSE f :
                       f \in featured}
    BY <1>5 DEF RefreshShowcase
  <2>2. \A f \in Entry : /\ [f EXCEPT !.upstream = up] \in Entry
                          /\ [f EXCEPT !.upstream = up].name = f.name
                          /\ [f EXCEPT !.upstream = up].sort = f.sort
    BY DEF Entry
  <2>3. /\ \A g \in featured' : g \in Entry /\ \E f \in featured : g.name = f.name /\ g.sort = f.sort
        /\ \A f \in featured : \E g \in featured' : g.name = f.name
    <3> DEFINE Fresh(f) ==
          IF f.name = r /\ github[r] # "gone" THEN [f EXCEPT !.upstream = up] ELSE f
    <3>1. \A f \in featured : f \in Entry
      BY <1>0 DEF ShowTypes
    <3>2. \A f \in featured : Fresh(f) \in Entry /\ Fresh(f).name = f.name /\ Fresh(f).sort = f.sort
      BY <2>2, <3>1
    <3>3. featured' = {Fresh(f) : f \in featured}
      BY <2>1
    <3> HIDE DEF Fresh
    <3> QED
      BY <3>2, <3>3
  <2>4. showcase' = showcase /\ commands' = commands
    BY <1>5 DEF RefreshShowcase, bounds, history
  <2>5. ShowTypes'
    BY <1>0, <2>3, <2>4 DEF ShowTypes
  <2>6. \A f \in featured' : f.sort < n
    BY <1>1, <2>3
  <2>7. ShowcaseOrdered'
    <3>1. {f.name : f \in featured'} = {f.name : f \in featured}
      BY <2>3
    <3>2. \A f, g \in featured' : showcase[f.name] < showcase[g.name] => f.sort < g.sort
      BY <1>0, <2>3 DEF ShowcaseOrdered
    <3> QED
      BY <1>0, <2>4, <3>1, <3>2 DEF ShowcaseOrdered
  <2> QED
    BY <2>5, <2>6, <2>7 DEF ShowInv
<1>6. ASSUME NEW r \in Repos, Feature(r), \A f \in featured : f.name # r PROVE ShowInv'
  <2> DEFINE new == [name |-> r, sort |-> NextSort, upstream |-> "none"]
  <2>1. commands' = commands + 1 /\ commands' \in Nat
    BY <1>0, <1>6 DEF Feature, Command, ShowTypes
  <2>2. featured' = featured \union {new}
    BY <1>6 DEF Feature
  <2>3. showcase' = [showcase EXCEPT ![r] = N + commands']
    BY <1>6 DEF Feature
  <2>4. NextSort \in Nat /\ \A f \in featured : f.sort < NextSort
    BY <1>0, <1>1, NextSortIsLast DEF ShowTypes
  <2>5. new \in Entry /\ new.name = r /\ new.sort = NextSort
    BY <2>4 DEF Entry
  <2> HIDE DEF new
  <2>6. \A q \in Repos : showcase'[q] = IF q = r THEN N + commands' ELSE showcase[q]
    BY <1>0, <2>3 DEF ShowTypes
  <2>7. ShowTypes'
    <3>1. \A q \in Repos : showcase'[q] \in 0 .. N + commands'
      BY <1>0, <1>3, <2>1, <2>6 DEF ShowTypes
    <3>2. showcase' \in [Repos -> 0 .. N + commands']
      <4>1. showcase' = [q \in Repos |-> showcase'[q]]
        BY <1>0, <2>3 DEF ShowTypes
      <4> QED
        BY <3>1, <4>1
    <3> QED
      BY <1>0, <2>1, <2>2, <2>5, <3>2 DEF ShowTypes
  <2>8. \A f \in featured' : f.sort < NextSort + 1
    BY <1>2, <2>2, <2>4, <2>5
  <2>9. showcase'[r] > 0 /\ \A q \in Repos : q # r => showcase'[q] < showcase'[r]
    BY <1>0, <1>3, <2>1, <2>6 DEF ShowTypes
  <2>10. ShowcaseOrdered'
    <3>1. \A f \in featured : showcase'[f.name] = showcase[f.name]
      BY <1>2, <1>6, <2>6
    <3>2. {f.name : f \in featured'} = {q \in Repos : showcase'[q] > 0}
      <4>1. \A f \in featured' : f.name \in Repos /\ showcase'[f.name] > 0
        BY <1>0, <1>2, <2>2, <2>5, <2>9, <3>1 DEF ShowcaseOrdered
      <4>2. \A q \in Repos : showcase'[q] > 0 => \E f \in featured' : f.name = q
        BY <1>0, <2>2, <2>5, <2>6 DEF ShowcaseOrdered
      <4> QED
        BY <4>1, <4>2
    <3>3. ASSUME NEW f \in featured', NEW g \in featured', showcase'[f.name] < showcase'[g.name]
          PROVE  f.sort < g.sort
      <4>1. CASE f \in featured /\ g \in featured
        BY <1>0, <3>1, <3>3, <4>1 DEF ShowcaseOrdered
      <4>2. CASE g = new /\ f \in featured
        BY <2>4, <2>5, <4>2
      <4>3. f # new
        <5>1. showcase'[g.name] <= showcase'[r] /\ g.name \in Repos
          BY <1>2, <2>2, <2>5, <2>6, <2>9, <1>3, <2>1, <1>0 DEF ShowTypes
        <5>2. showcase'[r] = N + commands' /\ N + commands' \in Int
          BY <2>1, <2>6
        <5>3. showcase'[g.name] \in Int
          BY <1>3, <2>6, <5>1, <5>2
        <5> QED
          BY <2>5, <3>3, <5>1, <5>2, <5>3
      <4> QED
        BY <2>2, <4>1, <4>2, <4>3
    <3> QED
      BY <3>2, <3>3 DEF ShowcaseOrdered
  <2> QED
    BY <2>4, <2>7, <2>8, <2>10 DEF ShowInv
<1>7. ASSUME NEW r \in Repos, Unfeature(r) PROVE ShowInv'
  <2>1. commands' = commands + 1 /\ commands' \in Nat
    BY <1>0, <1>7 DEF Unfeature, Command, ShowTypes
  <2>2. featured' = {f \in featured : f.name # r}
    BY <1>7 DEF Unfeature
  <2>3. showcase' = [showcase EXCEPT ![r] = 0]
    BY <1>7 DEF Unfeature
  <2>4. \A q \in Repos : showcase'[q] = IF q = r THEN 0 ELSE showcase[q]
    BY <1>0, <2>3 DEF ShowTypes
  <2>5. ShowTypes'
    <3>1. \A q \in Repos : showcase'[q] \in 0 .. N + commands'
      BY <1>0, <1>3, <2>1, <2>4 DEF ShowTypes
    <3>2. showcase' \in [Repos -> 0 .. N + commands']
      <4>1. showcase' = [q \in Repos |-> showcase'[q]]
        BY <1>0, <2>3 DEF ShowTypes
      <4> QED
        BY <3>1, <4>1
    <3> QED
      BY <1>0, <2>1, <2>2, <3>2 DEF ShowTypes
  <2>6. ShowcaseOrdered'
    BY <1>0, <1>2, <2>2, <2>4 DEF ShowcaseOrdered
  <2> QED
    BY <1>1, <2>2, <2>5, <2>6 DEF ShowInv
<1>8. ASSUME NEW r \in Repos, Feature(r), ~(\A f \in featured : f.name # r) PROVE ShowInv'
  <2>1. UNCHANGED <<featured, showcase>> /\ commands' = commands + 1
    BY <1>8 DEF Feature, Command
  <2> QED
    BY <2>1, <1>4
<1> QED
  BY <1>4, <1>5, <1>6, <1>7, <1>8, Steps
     DEF ResolveFilter, MergePins, ResolveOne, SyncRepo, SyncRepoFails, ListShowcase, EndSync,
         Pin, Unpin, SetPolicy, Command, OpenPage, CheckRow, SendPage, Move, vars, store, bounds,
         history

\* The showcase is the operator's, in the operator's order (AddFeatured,
\* RemoveFeatured, UpsertFeaturedMeta).
THEOREM ShowcaseKept == Spec => []ShowcaseOrdered
<1>1. ShowInv => ShowcaseOrdered
  BY DEF ShowInv
<1> QED
  BY <1>1, InitShow, NextShow, PTL DEF Spec

-----------------------------------------------------------------------------
(* Sums over sets                                                           *)

\* What is true of a subset whenever it is true of all smaller ones is true of all.
LEMMA SmallerSets ==
  ASSUME NEW S, IsFiniteSet(S), NEW Good,
         \A A \in SUBSET S : (\A B \in SUBSET A : B # A => B \in Good) => A \in Good
  PROVE  \A A \in SUBSET S : A \in Good
<1> DEFINE Bad == {A \in FiniteSubsetsOf(S) : A \notin Good}
<1>1. \A A \in SUBSET S : A \in FiniteSubsetsOf(S)
  BY FS_Subset DEF FiniteSubsetsOf
<1>2. SUFFICES ASSUME Bad # {} PROVE FALSE
  BY <1>1
<1>3. PICK A \in Bad : \A B \in Bad : <<B, A>> \notin StrictSubsetOrdering(S)
  <2>1. IsWellFoundedOn(StrictSubsetOrdering(S), FiniteSubsetsOf(S))
    BY FS_StrictSubsetOrderingWellFounded
  <2>2. Bad \subseteq FiniteSubsetsOf(S) /\ Bad # {}
    BY <1>2
  <2> HIDE DEF Bad
  <2>3. \E A \in Bad : \A B \in Bad : ~(<<B, A>> \in StrictSubsetOrdering(S))
    BY <2>1, <2>2, WFMin
  <2> QED BY <2>3
<1>4. A \in SUBSET S /\ A \notin Good
  BY DEF FiniteSubsetsOf
<1>5. ASSUME NEW B \in SUBSET A, B # A
      PROVE  B \in Good
  <2>1. B \in SUBSET S /\ <<B, A>> \in StrictSubsetOrdering(S)
    BY <1>4, <1>5, Zenon DEF StrictSubsetOrdering
  <2> QED BY <2>1, <1>1, <1>3
<1> QED BY <1>4, <1>5

\* The recursion by which Total is defined, over the subsets of S.
Picked(s) == CHOOSE x \in s : TRUE
SumsOver(f, S, g) ==
  g = [s \in SUBSET S |-> IF s = {} THEN 0 ELSE f[Picked(s)] + g[s \ {Picked(s)}]]
Sums(f, S) == CHOOSE g : SumsOver(f, S, g)
Sum(f, S) == Sums(f, S)[S]

\* A total is the sum over the days that have a row.
LEMMA TotalIsSum ==
  ASSUME NEW f, NEW days
  PROVE  Total(f, days) = Sum(f, DOMAIN f \intersect days)
BY Zenon DEF Total, FoldSet, MapThenFoldSet, Sum, Sums, SumsOver, Picked

\* What a fold takes next is in the set.
LEMMA PickedIn ==
  ASSUME NEW s, s # {}
  PROVE  Picked(s) \in s
BY Zenon DEF Picked

\* Two folds over the same numbers are the same on every set both reach.
LEMMA SumsAgree ==
  ASSUME NEW S, IsFiniteSet(S), NEW f, NEW g, NEW h, NEW k, NEW T, NEW U,
         \A x \in S : f[x] = h[x], S \subseteq T, S \subseteq U,
         SumsOver(f, T, g), SumsOver(h, U, k)
  PROVE  g[S] = k[S]
<1> DEFINE Good == {A \in SUBSET S : g[A] = k[A]}
<1>1. ASSUME NEW A \in SUBSET S, \A B \in SUBSET A : B # A => B \in Good
      PROVE  A \in Good
  <2>0. A \in SUBSET T /\ A \in SUBSET U
    OBVIOUS
  <2>1. g[A] = IF A = {} THEN 0 ELSE f[Picked(A)] + g[A \ {Picked(A)}]
    BY <2>0, Zenon DEF SumsOver
  <2>2. k[A] = IF A = {} THEN 0 ELSE h[Picked(A)] + k[A \ {Picked(A)}]
    BY <2>0, Zenon DEF SumsOver
  <2>3. CASE A = {}
    BY <2>1, <2>2, <2>3
  <2>4. CASE A # {}
    <3>1. Picked(A) \in A
      BY <2>4, PickedIn
    <3>2. f[Picked(A)] = h[Picked(A)]
      BY <3>1
    <3>3. A \ {Picked(A)} \in Good
      BY <3>1, <1>1, Zenon
    <3>4. g[A \ {Picked(A)}] = k[A \ {Picked(A)}]
      BY <3>3
    <3> QED BY <2>1, <2>2, <2>4, <3>2, <3>4, Zenon
  <2> QED BY <2>3, <2>4
<1> HIDE DEF Good
<1>2. \A A \in SUBSET S : A \in Good
  BY <1>1, SmallerSets
<1>3. S \in Good
  BY <1>2
<1> QED BY <1>3 DEF Good

\* A fold over a finite set has an answer.
LEMMA SumsExist ==
  ASSUME NEW S, IsFiniteSet(S), NEW f
  PROVE  SumsOver(f, S, Sums(f, S))
<1> DEFINE Good == {A \in SUBSET S : \E g : SumsOver(f, A, g)}
<1>1. ASSUME NEW A \in SUBSET S, \A B \in SUBSET A : B # A => B \in Good
      PROVE  A \in Good
  <2> DEFINE Less(s) == s \ {Picked(s)}
  <2> DEFINE g == [s \in SUBSET A |-> IF s = {} THEN 0 ELSE f[Picked(s)] + Sum(f, Less(s))]
  <2>1. ASSUME NEW B \in SUBSET A, B # A
        PROVE  SumsOver(f, B, Sums(f, B)) /\ IsFiniteSet(B)
    <3>1. \E h : SumsOver(f, B, h)
      BY <1>1, <2>1
    <3>2. SumsOver(f, B, Sums(f, B))
      BY <3>1, Zenon DEF Sums
    <3>3. IsFiniteSet(B)
      BY FS_Subset
    <3> QED BY <3>2, <3>3
  <2>2. ASSUME NEW B \in SUBSET A, B # A
        PROVE  g[B] = Sum(f, B)
    <3>1. Sum(f, B) = IF B = {} THEN 0 ELSE f[Picked(B)] + Sums(f, B)[Less(B)]
      BY <2>1, <2>2, Zenon DEF Sum, SumsOver
    <3>2. CASE B = {}
      BY <3>1, <3>2, Zenon
    <3>3. CASE B # {}
      <4>1. Less(B) \in SUBSET A /\ Less(B) # A /\ Less(B) \subseteq B
        BY <3>3, <2>2, PickedIn, Zenon
      <4>2. Sums(f, B)[Less(B)] = Sums(f, Less(B))[Less(B)]
        BY <4>1, <2>1, <2>2, SumsAgree
      <4> QED BY <3>1, <3>3, <4>2, Zenon DEF Sum
    <3> QED BY <3>2, <3>3
  <2>3. ASSUME NEW s \in SUBSET A
        PROVE  g[s] = IF s = {} THEN 0 ELSE f[Picked(s)] + g[Less(s)]
    <3>1. CASE s = {}
      BY <3>1
    <3>2. CASE s # {}
      <4>1. Less(s) \in SUBSET A /\ Less(s) # A
        BY <3>2, PickedIn, Zenon
      <4>2. g[Less(s)] = Sum(f, Less(s))
        BY <4>1, <2>2
      <4>3. g[s] = f[Picked(s)] + Sum(f, Less(s))
        BY <3>2, Zenon
      <4> QED BY <4>2, <4>3, <3>2, Zenon
    <3> QED BY <3>1, <3>2
  <2>4. g = [s \in SUBSET A |-> g[s]]
    BY Zenon
  <2> HIDE DEF g
  <2>5. SumsOver(f, A, g)
    BY <2>3, <2>4, Zenon DEF SumsOver
  <2> QED BY <2>5, Zenon
<1> HIDE DEF Good
<1>2. \A A \in SUBSET S : A \in Good
  BY <1>1, SmallerSets
<1>3. S \in Good
  BY <1>2
<1>4. \E g : SumsOver(f, S, g)
  BY <1>3 DEF Good
<1> QED BY <1>4, Zenon DEF Sums

\* A sum is nothing, or one of the numbers and the sum of the others.
LEMMA SumStep ==
  ASSUME NEW S, IsFiniteSet(S), NEW f
  PROVE  /\ S = {} => Sum(f, S) = 0
         /\ S # {} => /\ Picked(S) \in S
                      /\ Sum(f, S) = f[Picked(S)] + Sum(f, S \ {Picked(S)})
<1> DEFINE T == S \ {Picked(S)}
<1>1. SumsOver(f, S, Sums(f, S))
  BY SumsExist
<1>2. Sum(f, S) = IF S = {} THEN 0 ELSE f[Picked(S)] + Sums(f, S)[T]
  BY <1>1, Zenon DEF Sum, SumsOver
<1>3. IsFiniteSet(T) /\ T \subseteq S
  BY FS_Subset
<1>4. SumsOver(f, T, Sums(f, T))
  BY <1>3, SumsExist
<1> HIDE DEF T
<1>5. Sums(f, S)[T] = Sum(f, T)
  BY <1>1, <1>3, <1>4, SumsAgree DEF Sum
<1> QED BY <1>2, <1>5, PickedIn, Zenon DEF T

\* A sum depends on the numbers alone.
LEMMA SumAgrees ==
  ASSUME NEW S, IsFiniteSet(S), NEW f, NEW h, \A x \in S : f[x] = h[x]
  PROVE  Sum(f, S) = Sum(h, S)
<1>1. SumsOver(f, S, Sums(f, S)) /\ SumsOver(h, S, Sums(h, S))
  BY SumsExist
<1> QED BY <1>1, SumsAgree DEF Sum

\* f counts on S.
CountsOn(f, S) == \A x \in S : f[x] \in Nat

\* A sum of counts is a count.
LEMMA SumIsNat ==
  ASSUME NEW S, IsFiniteSet(S), NEW f, CountsOn(f, S)
  PROVE  Sum(f, S) \in Nat
<1> DEFINE Good == {A \in SUBSET S : Sum(f, A) \in Nat}
<1>1. ASSUME NEW A \in SUBSET S, \A B \in SUBSET A : B # A => B \in Good
      PROVE  A \in Good
  <2>0. IsFiniteSet(A)
    BY FS_Subset
  <2>1. CASE A = {}
    <3>1. Sum(f, A) = 0
      BY <2>0, <2>1, SumStep
    <3>2. Sum(f, A) \in Nat
      BY <3>1
    <3> QED BY <3>2
  <2>2. CASE A # {}
    <3>1. Picked(A) \in A /\ Sum(f, A) = f[Picked(A)] + Sum(f, A \ {Picked(A)})
      BY <2>0, <2>2, SumStep
    <3>2. A \ {Picked(A)} \in Good
      BY <3>1, <1>1, Zenon
    <3>3. f[Picked(A)] \in Nat /\ Sum(f, A \ {Picked(A)}) \in Nat
      BY <3>1, <3>2 DEF CountsOn
    <3>4. Sum(f, A) \in Nat
      BY <3>1, <3>3
    <3> QED BY <3>4
  <2> QED BY <2>1, <2>2
<1> HIDE DEF Good
<1>2. \A A \in SUBSET S : A \in Good
  BY <1>1, SmallerSets
<1>3. S \in Good
  BY <1>2
<1> QED BY <1>3 DEF Good

\* One of several summands: the order does not matter.
LEMMA SumTake ==
  ASSUME NEW S, IsFiniteSet(S), NEW f, CountsOn(f, S), NEW y \in S
  PROVE  Sum(f, S) = f[y] + Sum(f, S \ {y})
<1> DEFINE Good == {A \in SUBSET S : \A x \in A : Sum(f, A) = f[x] + Sum(f, A \ {x})}
<1>1. ASSUME NEW A \in SUBSET S, \A B \in SUBSET A : B # A => B \in Good
      PROVE  A \in Good
  <2>0. IsFiniteSet(A)
    BY FS_Subset
  <2>1. SUFFICES ASSUME NEW x \in A PROVE Sum(f, A) = f[x] + Sum(f, A \ {x})
    OBVIOUS
  <2>2. PICK p \in A : p = Picked(A) /\ Sum(f, A) = f[p] + Sum(f, A \ {p})
    BY <2>0, SumStep
  <2>3. CASE x = p
    BY <2>2, <2>3
  <2>4. CASE x # p
    <3> DEFINE C == A \ {x, p}
    <3>1. /\ A \ {p} \in Good /\ A \ {x} \in Good
          /\ x \in A \ {p} /\ p \in A \ {x}
          /\ (A \ {p}) \ {x} = C /\ (A \ {x}) \ {p} = C
      BY <1>1, <2>4, Zenon
    <3> HIDE DEF C
    <3>2. Sum(f, A \ {p}) = f[x] + Sum(f, C) /\ Sum(f, A \ {x}) = f[p] + Sum(f, C)
      BY <3>1
    <3>3. f[x] \in Nat /\ f[p] \in Nat
      BY DEF CountsOn
    <3>4. IsFiniteSet(C) /\ C \subseteq S
      BY FS_Subset DEF C
    <3>5. Sum(f, C) \in Nat
      BY <3>4, SumIsNat DEF CountsOn
    <3> QED BY <2>2, <3>2, <3>3, <3>5
  <2> QED BY <2>3, <2>4
<1> HIDE DEF Good
<1>2. \A A \in SUBSET S : A \in Good
  BY <1>1, SmallerSets
<1>3. S \in Good
  BY <1>2
<1> QED BY <1>3 DEF Good

\* The sum over two sets that share nothing is the sum of the sums.
LEMMA SumUnion ==
  ASSUME NEW S, NEW T, IsFiniteSet(S), IsFiniteSet(T), S \intersect T = {},
         NEW f, CountsOn(f, S), CountsOn(f, T)
  PROVE  Sum(f, S \union T) = Sum(f, S) + Sum(f, T)
<1> DEFINE Good == {A \in SUBSET S : Sum(f, A \union T) = Sum(f, A) + Sum(f, T)}
<1>t. Sum(f, T) \in Nat
  BY SumIsNat
<1>1. ASSUME NEW A \in SUBSET S, \A B \in SUBSET A : B # A => B \in Good
      PROVE  A \in Good
  <2>0. IsFiniteSet(A) /\ IsFiniteSet(A \union T) /\ CountsOn(f, A) /\ CountsOn(f, A \union T)
    BY FS_Subset, FS_Union DEF CountsOn
  <2>1. CASE A = {}
    <3>1. Sum(f, A) = 0 /\ A \union T = T
      BY <2>0, <2>1, SumStep
    <3>2. Sum(f, A \union T) = Sum(f, A) + Sum(f, T)
      BY <3>1, <1>t
    <3> QED BY <3>2
  <2>2. CASE A # {}
    <3>1. PICK p \in A : TRUE
      BY <2>2
    <3> DEFINE C == A \ {p}
    <3>2. C \in Good /\ (A \union T) \ {p} = C \union T
      BY <1>1, Zenon
    <3>3. Sum(f, A) = f[p] + Sum(f, C)
      BY <2>0, SumTake
    <3>4. Sum(f, A \union T) = f[p] + Sum(f, C \union T)
      BY <2>0, <3>2, SumTake
    <3>5. f[p] \in Nat /\ CountsOn(f, C) /\ IsFiniteSet(C)
      BY <2>0, FS_Subset DEF CountsOn
    <3>6. Sum(f, C) \in Nat
      BY <3>5, SumIsNat
    <3>7. Sum(f, C \union T) = Sum(f, C) + Sum(f, T)
      BY <3>2
    <3> HIDE DEF C
    <3>8. Sum(f, A \union T) = Sum(f, A) + Sum(f, T)
      BY <3>3, <3>4, <3>5, <3>6, <3>7, <1>t
    <3> QED BY <3>8
  <2> QED BY <2>1, <2>2
<1> HIDE DEF Good
<1>2. \A A \in SUBSET S : A \in Good
  BY <1>1, SmallerSets
<1>3. S \in Good
  BY <1>2
<1> QED BY <1>3 DEF Good

-----------------------------------------------------------------------------
(* Windows                                                                  *)

\* The rows of a metric.
IsRows(f) == IsFiniteSet(DOMAIN f) /\ CountsOn(f, DOMAIN f)

\* A total of counts is a count.
LEMMA TotalIsNat ==
  ASSUME NEW f, IsRows(f), NEW days
  PROVE  Total(f, days) \in Nat
<1>1. IsFiniteSet(DOMAIN f \intersect days) /\ CountsOn(f, DOMAIN f \intersect days)
  BY FS_Subset DEF IsRows, CountsOn
<1> QED BY <1>1, SumIsNat, TotalIsSum

\* Two windows side by side.
LEMMA TotalSplits ==
  ASSUME NEW f, IsRows(f), NEW a, NEW b, a \intersect b = {}
  PROVE  Total(f, a \union b) = Total(f, a) + Total(f, b)
<1> DEFINE A == DOMAIN f \intersect a
<1> DEFINE B == DOMAIN f \intersect b
<1>1. /\ IsFiniteSet(A) /\ CountsOn(f, A) /\ IsFiniteSet(B) /\ CountsOn(f, B)
      /\ A \intersect B = {}
  BY FS_Subset DEF IsRows, CountsOn
<1>2. Total(f, a) = Sum(f, A) /\ Total(f, b) = Sum(f, B)
  BY TotalIsSum
<1>3. DOMAIN f \intersect (a \union b) = A \union B
  BY Zenon
<1>4. Total(f, a \union b) = Sum(f, A \union B)
  BY <1>3, TotalIsSum
<1> HIDE DEF A, B
<1>5. Sum(f, A \union B) = Sum(f, A) + Sum(f, B)
  BY <1>1, SumUnion
<1> QED BY <1>2, <1>4, <1>5

\* A window holds every smaller one.
LEMMA TotalGrows ==
  ASSUME NEW f, IsRows(f), NEW a, NEW b, a \subseteq b
  PROVE  Total(f, a) <= Total(f, b)
<1> DEFINE c == b \ a
<1>1. a \union c = b /\ a \intersect c = {}
  BY Zenon
<1>2. Total(f, b) = Total(f, a) + Total(f, c)
  BY <1>1, TotalSplits
<1>3. Total(f, a) \in Nat /\ Total(f, c) \in Nat
  BY TotalIsNat
<1> QED BY <1>2, <1>3

\* It holds each of its days.
LEMMA TotalHolds ==
  ASSUME NEW f, IsRows(f), NEW days, NEW d \in DOMAIN f \intersect days
  PROVE  f[d] <= Total(f, days)
<1> DEFINE A == DOMAIN f \intersect days
<1>1. IsFiniteSet(A) /\ CountsOn(f, A) /\ Total(f, days) = Sum(f, A)
  BY FS_Subset, TotalIsSum DEF IsRows, CountsOn
<1>2. IsFiniteSet(A \ {d}) /\ CountsOn(f, A \ {d})
  BY <1>1, FS_Subset DEF CountsOn
<1>3. Sum(f, A) = f[d] + Sum(f, A \ {d})
  BY <1>1, SumTake
<1>4. Sum(f, A \ {d}) \in Nat /\ f[d] \in Nat
  BY <1>2, SumIsNat DEF IsRows, CountsOn
<1> QED BY <1>1, <1>3, <1>4

\* And nothing else.
LEMMA TotalOfNone ==
  ASSUME NEW f, NEW days, DOMAIN f \intersect days = {}
  PROVE  Total(f, days) = 0
<1>1. IsFiniteSet({})
  BY FS_EmptySet
<1> QED BY <1>1, SumStep, TotalIsSum

\* Only the rows in the window matter.
LEMMA TotalAgrees ==
  ASSUME NEW f, NEW h, NEW days, IsFiniteSet(DOMAIN f),
         DOMAIN f \intersect days = DOMAIN h \intersect days,
         \A d \in DOMAIN f \intersect days : f[d] = h[d]
  PROVE  Total(f, days) = Total(h, days)
<1>1. IsFiniteSet(DOMAIN f \intersect days)
  BY FS_Subset
<1> QED BY <1>1, SumAgrees, TotalIsSum

\* A window ends "back" days before now and is "span" days long.
LEMMA WindowBounds ==
  ASSUME NEW now \in Int, NEW back \in Nat, NEW span \in Nat
  PROVE  Window(now, back, span) = (now - back - span + 1) .. (now - back)
BY DEF Window

\* The greatest of some days up to "now", "now" among them.
LEMMA LastIsNow ==
  ASSUME NEW S \in SUBSET Int, NEW now \in S, \A d \in S : d <= now
  PROVE  Max(S) = now
<1>1. \A x \in S : (\A y \in S : x >= y) => x = now
  OBVIOUS
<1>2. \A y \in S : now >= y
  OBVIOUS
<1> QED BY <1>1, <1>2, Zenon DEF Max

\* The least of some days from "from" on is one of them.
LEMMA FirstIsIn ==
  ASSUME NEW from \in Int, NEW S \in SUBSET Int, S # {}, \A d \in S : from <= d
  PROVE  Min(S) \in S
<1> DEFINE T == {d - from : d \in S}
<1>1. T \in SUBSET Nat /\ T # {}
  <2>1. ASSUME NEW d \in S PROVE d - from \in Nat
    OBVIOUS
  <2>2. PICK d \in S : TRUE
    OBVIOUS
  <2>3. d - from \in T
    OBVIOUS
  <2>4. \A t \in T : t \in Nat
    BY <2>1
  <2> HIDE DEF T
  <2> QED BY <2>3, <2>4
<1>2. PICK t \in T : \A y \in T : t <= y
  <2> HIDE DEF T
  <2> QED BY <1>1, HasMin
<1>3. PICK x \in S : t = x - from
  OBVIOUS
<1>4. ASSUME NEW y \in S PROVE x <= y
  <2>1. y - from \in T
    OBVIOUS
  <2>2. t <= y - from
    BY <2>1, <1>2
  <2> QED BY <2>2, <1>3
<1>5. \E z \in S : \A y \in S : z <= y
  BY <1>4
<1> QED BY <1>5, Zenon DEF Min

\* The calendar of the chart begins where the rows were fetched from.
LEMMA ChartCalendar ==
  ASSUME NEW now \in Int, NEW w \in Nat \ {0}, NEW f, DOMAIN f \subseteq Int,
         now \in DOMAIN f, \A d \in DOMAIN f : d <= now
  PROVE  LET F == Fetched(f, now, w)
         IN /\ DOMAIN F = DOMAIN f \intersect (now - 3 * w) .. now
            /\ \A d \in DOMAIN F : F[d] = f[d]
            /\ Calendar(F, FetchFrom(now, w)) = (now - 3 * w) .. now
<1> DEFINE from == now - 3 * w
<1> DEFINE F == Fetched(f, now, w)
<1>1. FetchFrom(now, w) = from /\ from \in Int /\ from <= now
  BY DEF FetchFrom
<1>2. F = [d \in DOMAIN f \intersect from .. now |-> f[d]]
  BY <1>1, Zenon DEF Fetched
<1> HIDE DEF F
<1>3. DOMAIN F = DOMAIN f \intersect from .. now /\ \A d \in DOMAIN F : F[d] = f[d]
  BY <1>2, Zenon
<1>4. now \in from .. now
  BY <1>1
<1>5. now \in DOMAIN F /\ DOMAIN F \in SUBSET Int
  BY <1>3, <1>4, Zenon
<1>6. \A d \in DOMAIN F : from <= d /\ d <= now
  BY <1>3, <1>1
<1>7. Max(DOMAIN F) = now
  BY <1>5, <1>6, LastIsNow
<1>8. Min(DOMAIN F) \in DOMAIN F
  BY <1>1, <1>5, <1>6, FirstIsIn
<1>9. AtMost(from, Min(DOMAIN F)) = from
  BY <1>8, <1>6, <1>5, <1>1 DEF AtMost
<1>10. Calendar(F, from) = from .. now
  BY <1>5, <1>7, <1>9 DEF Calendar
<1> QED BY <1>1, <1>3, <1>10 DEF F

\* Where the chart has a point for today, it is the momentum of today.
LEMMA ChartEndsInMomentum ==
  ASSUME NEW now \in Int, NEW w \in Nat \ {0}, NEW f, IsRows(f), DOMAIN f \subseteq Int,
         now \in DOMAIN f, \A d \in DOMAIN f : d <= now
  PROVE  LET chart == MomentumChart(f, now, w)
         IN now \in DOMAIN chart /\ chart[now] = Momentum(f, now, w)
<1> DEFINE from == now - 3 * w
<1> DEFINE F == Fetched(f, now, w)
<1> DEFINE week == (now - w + 1) .. now
<1> DEFINE previous == (now - 2 * w + 1) .. (now - w)
<1> DEFINE series == MomentumSeries(F, w, FetchFrom(now, w))
<1>1. /\ DOMAIN F = DOMAIN f \intersect from .. now
      /\ \A d \in DOMAIN F : F[d] = f[d]
      /\ Calendar(F, FetchFrom(now, w)) = from .. now
  BY ChartCalendar
<1> HIDE DEF F
<1>2. series = [d \in {x \in from .. now : x - (2 * w - 1) \in from .. now} |->
                  Growth(Total(F, (d - w + 1) .. d), Total(F, (d - 2 * w + 1) .. (d - w)))]
  BY <1>1, Zenon DEF MomentumSeries
<1> HIDE DEF series
<1>3. now \in from .. now /\ now - (2 * w - 1) \in from .. now
  OBVIOUS
<1>4. now \in {x \in from .. now : x - (2 * w - 1) \in from .. now}
  BY <1>3
<1>5. /\ now \in DOMAIN series
      /\ series[now] = Growth(Total(F, week), Total(F, previous))
  BY <1>2, <1>4, Zenon
<1>6. ChartFrom(now, w) <= now
  BY DEF ChartFrom
<1>7. MomentumChart(f, now, w)
        = [d \in {x \in DOMAIN series : x >= ChartFrom(now, w)} |-> series[d]]
  BY Zenon DEF MomentumChart, series, F
<1>8. now \in {x \in DOMAIN series : x >= ChartFrom(now, w)}
  BY <1>5, <1>6 DEF ChartFrom
<1>9. now \in DOMAIN MomentumChart(f, now, w) /\ MomentumChart(f, now, w)[now] = series[now]
  BY <1>7, <1>8, Zenon
<1>10. week \subseteq from .. now /\ previous \subseteq from .. now
  OBVIOUS
<1>11. IsFiniteSet(DOMAIN F)
  BY <1>1, FS_Subset DEF IsRows
<1>12. Window(now, 0, w) = week /\ Window(now, w, w) = previous
  BY DEF Window
<1> HIDE DEF week, previous, from
<1>13. /\ DOMAIN F \intersect week = DOMAIN f \intersect week
       /\ DOMAIN F \intersect previous = DOMAIN f \intersect previous
  BY <1>1, <1>10, Zenon
<1>14. Total(F, week) = Total(f, week) /\ Total(F, previous) = Total(f, previous)
  BY <1>1, <1>11, <1>13, TotalAgrees
<1> QED BY <1>5, <1>9, <1>12, <1>14 DEF Momentum

\* The latest of today and yesterday is a part of any week.
LEMMA LatestInWeek ==
  ASSUME NEW now \in Int, NEW f, IsRows(f), NEW w \in Nat \ {0, 1}
  PROVE  Clones1d(f, now) <= LastDays(f, now, w)
<1> DEFINE recent == DOMAIN f \intersect {now - 1, now}
<1> DEFINE days == (now - (w - 1)) .. now
<1>0. LastDays(f, now, w) = Total(f, days) /\ Total(f, days) \in Nat
  BY TotalIsNat DEF LastDays
<1>1. CASE recent = {}
  BY <1>0, <1>1 DEF Clones1d
<1>2. CASE recent # {}
  <2>1. Max(recent) \in recent
    <3>1. \E x \in recent : \A y \in recent : x >= y
      <4>1. CASE now \in DOMAIN f
        <5>1. now \in recent /\ \A y \in recent : now >= y
          BY <4>1
        <5> QED BY <5>1
      <4>2. CASE now \notin DOMAIN f
        <5>1. now - 1 \in recent /\ \A y \in recent : now - 1 >= y
          BY <4>2, <1>2
        <5> QED BY <5>1
      <4> QED BY <4>1, <4>2
    <3> QED BY <3>1, Zenon DEF Max
  <2>2. recent \subseteq DOMAIN f \intersect days
    OBVIOUS
  <2>3. Clones1d(f, now) = f[Max(recent)]
    BY <1>2, Zenon DEF Clones1d
  <2>4. f[Max(recent)] <= Total(f, days)
    BY <2>1, <2>2, TotalHolds
  <2> QED BY <1>0, <2>3, <2>4
<1> QED BY <1>1, <1>2

\* What the SQL of the list and the windows in Go say of each other, for any rows
\* of days up to now.
THEOREM WindowsOfAnyRows ==
  \A now \in Int : \A f :
    /\ DOMAIN f \subseteq Int /\ IsRows(f) /\ (\A d \in DOMAIN f : d <= now)
    => WindowsFit(f, now)
<1> SUFFICES ASSUME NEW now \in Int, NEW f, DOMAIN f \subseteq Int, IsRows(f),
                    \A d \in DOMAIN f : d <= now
             PROVE  WindowsFit(f, now)
  OBVIOUS
<1> DEFINE week == (now - Week + 1) .. now
<1> DEFINE previous == (now - 2 * Week + 1) .. (now - Week)
<1>0. Week \in Nat \ {0, 1} /\ Month \in Nat /\ Month >= Week
  BY ReportsAssumption
<1>1. Clones1d(f, now) <= LastDays(f, now, Week)
  BY <1>0, LatestInWeek
<1>2. LastDays(f, now, Week) <= LastDays(f, now, Month)
  <2>1. (now - (Week - 1)) .. now \subseteq (now - (Month - 1)) .. now
    BY <1>0
  <2> QED BY <2>1, TotalGrows DEF LastDays
<1>3. Window(now, 0, Week) = week /\ Window(now, Week, Week) = previous
  BY <1>0 DEF Window
<1>4. LastDays(f, now, Week) = Total(f, week)
  <2>1. (now - (Week - 1)) .. now = week
    BY <1>0
  <2> QED BY <2>1 DEF LastDays
<1>5. LastDays(f, now, 2 * Week) = Total(f, previous) + Total(f, week)
  <2>1. (now - (2 * Week - 1)) .. now = previous \union week /\ previous \intersect week = {}
    BY <1>0
  <2>2. Total(f, previous \union week) = Total(f, previous) + Total(f, week)
    BY <2>1, TotalSplits
  <2> QED BY <2>1, <2>2 DEF LastDays
<1>6. Total(f, previous) \in Nat /\ Total(f, week) \in Nat
  BY TotalIsNat
<1>7. now \in DOMAIN f =>
        LET chart == MomentumChart(f, now, Week)
        IN now \in DOMAIN chart /\ chart[now] = Momentum(f, now, Week)
  BY <1>0, ChartEndsInMomentum
<1> HIDE DEF week, previous
<1>8. Total(f, week) + Total(f, previous) = LastDays(f, now, 2 * Week)
  BY <1>5, <1>6
<1> QED BY <1>1, <1>2, <1>3, <1>4, <1>7, <1>8 DEF WindowsFit

\* An input of a kind was chosen as one of that kind.
LEMMA Kinds ==
  ASSUME ReportInit
  PROVE  /\ Is("index") => IndexInput
         /\ Is("pair") => PairInput
         /\ Is("days") => DaysInput
         /\ Is("rule") => RuleInput
         /\ Is("fleet") => FleetInput
<1>1. IndexInput => input.kind = "index"
  BY DEF IndexInput
<1>2. PairInput => input.kind = "pair"
  BY DEF PairInput
<1>3. DaysInput => input.kind = "days"
  BY DEF DaysInput
<1>4. RuleInput => input.kind = "rule"
  <2>1. \A r, v : input = [kind |-> "rule", rule |-> r, visible |-> v] => input.kind = "rule"
    OBVIOUS
  <2> QED BY <2>1, Zenon DEF RuleInput
<1>5. FleetInput => input.kind = "fleet"
  BY DEF FleetInput
<1> QED BY <1>1, <1>2, <1>3, <1>4, <1>5 DEF ReportInit, Is

\* The rows a run is given.
LEMMA DaysInputs ==
  ASSUME ReportInit, Is("days")
  PROVE  /\ DOMAIN input.rows \subseteq Int /\ IsRows(input.rows)
         /\ \A d \in DOMAIN input.rows : d <= LastDay
         /\ input.percent \in {30, 50, 100}
<1>0. LastDay \in Nat
  BY InputAssumption
<1>1. DaysInput
  BY Kinds
<1>2. PICK kept \in SUBSET (1 .. LastDay) :
        \E f \in [kept -> 0 .. 2] : input.rows = f /\ input.percent \in {30, 50, 100}
  BY <1>1 DEF DaysInput
<1>3. PICK f \in [kept -> 0 .. 2] : input.rows = f /\ input.percent \in {30, 50, 100}
  BY <1>2
<1>4. DOMAIN input.rows = kept /\ \A d \in kept : input.rows[d] \in Nat
  BY <1>3
<1>5. IsFiniteSet(1 .. LastDay)
  BY <1>0, FS_Interval
<1>6. IsFiniteSet(kept)
  BY <1>5, FS_Subset
<1>7. \A d \in kept : d \in Int /\ d <= LastDay
  BY <1>0
<1> QED BY <1>3, <1>4, <1>6, <1>7 DEF IsRows, CountsOn

\* The windows computed in SQL (ListRepos) and in Go (internal/h2h) agree in every input of the
\* run, whatever LastDay.
THEOREM WindowsAlwaysAgree == ReportSpec => []WindowsAgree
<1>1. ReportInit => WindowsAgree
  <2>1. LastDay \in Int
    BY InputAssumption
  <2> QED BY <2>1, DaysInputs, WindowsOfAnyRows DEF WindowsAgree
<1>2. WindowsAgree /\ [ReportNext]_input => WindowsAgree'
  BY DEF ReportNext, WindowsAgree, Is
<1> QED BY <1>1, <1>2, PTL DEF ReportSpec

-----------------------------------------------------------------------------
(* Head-to-head                                                             *)

\* A repository with any counts and any ratio of growth.
AnySide == [clones : Nat, views : Nat, momentum : Int \X (Nat \ {0})]

\* s is a pair of shares of x and y, and t the same pair the other way round.
SharesOf(s, t) ==
  /\ s = <<s[1], s[2], s[3]>> /\ t = <<s[2], s[1], s[3]>>
  /\ s[1] \in Nat /\ s[2] \in Nat /\ s[3] \in Nat \ {0} /\ s[1] + s[2] = s[3]

\* The shares of a pair are mirrored when the pair is, and follow the counts.
LEMMA Shares ==
  ASSUME NEW x \in Nat, NEW y \in Nat
  PROVE  /\ SharesOf(SharePair(x, y), SharePair(y, x))
         /\ x >= y => SharePair(x, y)[1] >= SharePair(x, y)[2]
<1>1. CASE x + y = 0
  <2>1. SharePair(x, y) = <<1, 1, 2>> /\ SharePair(y, x) = <<1, 1, 2>>
    BY <1>1 DEF SharePair
  <2> QED BY <2>1 DEF SharesOf
<1>2. CASE x + y # 0
  <2>1. SharePair(x, y) = <<x, y, x + y>> /\ SharePair(y, x) = <<y, x, x + y>>
    BY <1>2 DEF SharePair
  <2> QED BY <2>1, <1>2 DEF SharesOf
<1> QED BY <1>1, <1>2

\* The sign of a product with a positive number.
LEMMA Product ==
  ASSUME NEW x \in Int, NEW y \in Nat \ {0}
  PROVE  /\ x * y \in Int
         /\ x >= 0 => x * y \in Nat
         /\ x < 0 => x * y < 0
BY SMT

\* The same for growth rates, which are compared on a common denominator.
LEMMA GrowthShares ==
  ASSUME NEW m \in Int \X (Nat \ {0}), NEW n \in Int \X (Nat \ {0})
  PROVE  /\ SharesOf(MomentumPair(m, n), MomentumPair(n, m))
         /\ m[1] * n[2] >= n[1] * m[2] => MomentumPair(m, n)[1] >= MomentumPair(m, n)[2]
<1>1. PICK m1 \in Int, m2 \in Nat \ {0}, n1 \in Int, n2 \in Nat \ {0} :
        m1 = m[1] /\ m2 = m[2] /\ n1 = n[1] /\ n2 = n[2]
  OBVIOUS
<1>2. /\ m1 * n2 \in Int /\ (m1 >= 0 => m1 * n2 \in Nat) /\ (m1 < 0 => m1 * n2 < 0)
      /\ n1 * m2 \in Int /\ (n1 >= 0 => n1 * m2 \in Nat) /\ (n1 < 0 => n1 * m2 < 0)
  BY Product
<1>3. 0 * n2 = 0 /\ 0 * m2 = 0
  OBVIOUS
<1>4. PICK x \in Nat : x = NonNegative(m1) * n2
  BY <1>2, <1>3 DEF NonNegative
<1>5. PICK y \in Nat : y = NonNegative(n1) * m2
  BY <1>2, <1>3 DEF NonNegative
<1>6. m1 * n2 >= n1 * m2 => x >= y
  <2>1. CASE n1 < 0
    BY <2>1, <1>3, <1>4, <1>5 DEF NonNegative
  <2>2. CASE n1 >= 0 /\ m1 >= 0
    BY <2>2, <1>4, <1>5 DEF NonNegative
  <2>3. CASE n1 >= 0 /\ m1 < 0
    BY <2>3, <1>2
  <2> QED BY <2>1, <2>2, <2>3
<1>7. MomentumPair(m, n) = SharePair(x, y) /\ MomentumPair(n, m) = SharePair(y, x)
  BY <1>1, <1>4, <1>5 DEF MomentumPair
<1>8. /\ SharesOf(SharePair(x, y), SharePair(y, x))
      /\ x >= y => SharePair(x, y)[1] >= SharePair(x, y)[2]
  BY Shares
<1> QED BY <1>1, <1>6, <1>7, <1>8

\* The nearest integer to n/d, or either of two.
LEMMA Nearest ==
  ASSUME NEW n \in Nat, NEW d \in Nat \ {0}, NEW r \in Rounded(n, d)
  PROVE  /\ r \in Nat
         /\ 2 * n - d <= 2 * (d * r) /\ 2 * (d * r) <= 2 * n + d
<1> DEFINE a == 2 * n + d
<1> DEFINE b == 2 * d
<1> DEFINE q == a \div b
<1>1. a \in Nat /\ b \in Nat \ {0}
  OBVIOUS
<1>2. q \in Nat /\ b * q <= a /\ a < b * (q + 1) /\ (a % b = 0 => a = b * q)
  BY <1>1, SMT
<1>3. r = q \/ (r = q - 1 /\ a % b = 0)
  BY DEF Rounded
<1> HIDE DEF q
<1>4. b * q = 2 * (d * q) /\ b * (q + 1) = 2 * (d * q) + 2 * d /\ d * q \in Nat
      /\ d * (q - 1) = d * q - d
  BY <1>2
<1>5. CASE r = q
  BY <1>2, <1>4, <1>5
<1>6. CASE r = q - 1 /\ a % b = 0
  <2>1. 2 * (d * q) = 2 * n + d
    BY <1>6, <1>2, <1>4
  <2>2. q # 0
    <3>1. SUFFICES ASSUME q = 0 PROVE FALSE
      OBVIOUS
    <3>2. d * q = 0
      BY <3>1
    <3> QED BY <3>2, <2>1
  <2> QED BY <2>1, <2>2, <1>6, <1>4, <1>2
<1> QED BY <1>3, <1>5, <1>6

\* A positive factor can be left out.
LEMMA Cancel ==
  ASSUME NEW d \in Nat \ {0}, NEW x \in Int, NEW y \in Int, d * x <= d * y
  PROVE  x <= y
<1> SUFFICES ASSUME y + 1 <= x PROVE FALSE
  OBVIOUS
<1>1. d * (y + 1) <= d * x
  BY SMT
<1>2. d * (y + 1) = d * y + d
  OBVIOUS
<1>3. d * x \in Int /\ d * y \in Int
  OBVIOUS
<1> QED BY <1>1, <1>2, <1>3

\* Two shares that are the whole, each rounded on its own, are the whole up to one, and the
\* greater is behind by one at most.
LEMMA RoundedShares ==
  ASSUME NEW n \in Nat, NEW k \in Nat, NEW d \in Nat \ {0}, n + k = 100 * d,
         NEW r \in Rounded(n, d), NEW q \in Rounded(k, d)
  PROVE  /\ r \in Nat /\ q \in Nat /\ r + q \in 99 .. 101
         /\ n >= k => r >= q - 1
<1>1. /\ r \in Nat /\ q \in Nat
      /\ 2 * n - d <= 2 * (d * r) /\ 2 * (d * r) <= 2 * n + d
      /\ 2 * k - d <= 2 * (d * q) /\ 2 * (d * q) <= 2 * k + d
  BY Nearest
<1>2. /\ d * r \in Int /\ d * q \in Int
      /\ d * (r + q) = d * r + d * q /\ d * (q - 1) = d * q - d
      /\ d * 99 = 99 * d /\ d * 101 = 101 * d
  BY <1>1
<1>3. d * 99 <= d * (r + q) /\ d * (r + q) <= d * 101
  BY <1>1, <1>2
<1>4. 99 <= r + q /\ r + q <= 101
  BY <1>3, <1>1, Cancel
<1>5. n >= k => d * (q - 1) <= d * r
  BY <1>1, <1>2
<1>6. n >= k => q - 1 <= r
  BY <1>5, <1>1, Cancel
<1> QED BY <1>1, <1>4, <1>6

\* Arithmetic of products of counts.
LEMMA Distribute ==
  ASSUME NEW x \in Nat, NEW y \in Nat, NEW z \in Nat
  PROVE  x * z \in Nat /\ y * z \in Nat /\ (x + y) * z = x * z + y * z
         /\ (x >= y => x * z >= y * z) /\ z * x = x * z
BY SMT

\* The weighted shares c, v and m make a whole, and the mirrored ones the same.
Whole(c, c2, v, v2, m, m2, i) ==
  \E d \in Nat \ {0}, x \in Nat, y \in Nat :
    /\ x + y = 100 * d
    /\ d = c[3] * v[3] * m[3] /\ d = c2[3] * v2[3] * m2[3]
    /\ x = Raw(Weights(i), c, v, m, 1) /\ y = Raw(Weights(i), c, v, m, 2)
    /\ y = Raw(Weights(i), c2, v2, m2, 1) /\ x = Raw(Weights(i), c2, v2, m2, 2)
    /\ c[1] >= c[2] /\ v[1] >= v[2] /\ m[1] >= m[2] => x >= y

\* Both sides share what the metrics weigh; who is ahead in all of them has more.
LEMMA RawShares ==
  ASSUME NEW c, NEW c2, NEW v, NEW v2, NEW m, NEW m2, NEW i \in {"7d", "30d", "total"},
         SharesOf(c, c2), SharesOf(v, v2), SharesOf(m, m2)
  PROVE  Whole(c, c2, v, v2, m, m2, i)
<1>1. PICK c_1 \in Nat, c_2 \in Nat, c_3 \in Nat \ {0} :
        /\ c = <<c_1, c_2, c_3>> /\ c2 = <<c_2, c_1, c_3>>
        /\ c_1 + c_2 = c_3
  BY DEF SharesOf
<1>2. PICK v_1 \in Nat, v_2 \in Nat, v_3 \in Nat \ {0} :
        /\ v = <<v_1, v_2, v_3>> /\ v2 = <<v_2, v_1, v_3>>
        /\ v_1 + v_2 = v_3
  BY DEF SharesOf
<1>3. PICK m_1 \in Nat, m_2 \in Nat, m_3 \in Nat \ {0} :
        /\ m = <<m_1, m_2, m_3>> /\ m2 = <<m_2, m_1, m_3>>
        /\ m_1 + m_2 = m_3
  BY DEF SharesOf
<1>4. PICK w1 \in Nat, w2 \in Nat, w3 \in Nat :
        /\ w1 = Weights(i).clones /\ w2 = Weights(i).views /\ w3 = Weights(i).momentum
        /\ w1 + w2 + w3 = 100
  <2>1. CASE i = "total"
    <3>1. Weights(i) = [clones |-> 50, views |-> 50, momentum |-> 0]
      BY <2>1 DEF Weights
    <3> QED BY <3>1
  <2>2. CASE i # "total"
    <3>1. Weights(i) = [clones |-> 50, views |-> 30, momentum |-> 20]
      BY <2>2 DEF Weights
    <3> QED BY <3>1
  <2> QED BY <2>1, <2>2
<1> DEFINE d == c_3 * v_3 * m_3
<1>5. d \in Nat \ {0}
  <2>1. c_3 * v_3 \in Nat \ {0}
    BY SMT
  <2> QED BY <2>1, SMT
<1>6. PICK A1 \in Nat, A2 \in Nat :
        /\ A1 = w1 * c_1 * v_3 * m_3 /\ A2 = w1 * c_2 * v_3 * m_3
        /\ A1 + A2 = w1 * d /\ (c_1 >= c_2 => A1 >= A2)
  <2>1. PICK e1 \in Nat, e2 \in Nat :
          e1 = w1 * c_1 /\ e2 = w1 * c_2 /\ e1 + e2 = w1 * c_3 /\ (c_1 >= c_2 => e1 >= e2)
    BY <1>1, Distribute
  <2>2. PICK f1 \in Nat, f2 \in Nat :
          f1 = e1 * v_3 /\ f2 = e2 * v_3 /\ f1 + f2 = (w1 * c_3) * v_3 /\ (c_1 >= c_2 => f1 >= f2)
    BY <2>1, Distribute
  <2>3. /\ f1 * m_3 \in Nat /\ f2 * m_3 \in Nat
        /\ f1 * m_3 + f2 * m_3 = ((w1 * c_3) * v_3) * m_3 /\ (c_1 >= c_2 => f1 * m_3 >= f2 * m_3)
    BY <2>2, Distribute
  <2>4. ((w1 * c_3) * v_3) * m_3 = w1 * d
    BY SMT
  <2> QED BY <2>1, <2>2, <2>3, <2>4
<1>7. PICK B1 \in Nat, B2 \in Nat :
        /\ B1 = w2 * c_3 * v_1 * m_3 /\ B2 = w2 * c_3 * v_2 * m_3
        /\ B1 + B2 = w2 * d /\ (v_1 >= v_2 => B1 >= B2)
  <2>1. w2 * c_3 \in Nat
    BY SMT
  <2>2. PICK f1 \in Nat, f2 \in Nat :
          f1 = (w2 * c_3) * v_1 /\ f2 = (w2 * c_3) * v_2 /\ f1 + f2 = (w2 * c_3) * v_3
          /\ (v_1 >= v_2 => f1 >= f2)
    BY <2>1, <1>2, Distribute
  <2>3. /\ f1 * m_3 \in Nat /\ f2 * m_3 \in Nat
        /\ f1 * m_3 + f2 * m_3 = ((w2 * c_3) * v_3) * m_3 /\ (v_1 >= v_2 => f1 * m_3 >= f2 * m_3)
    BY <2>2, Distribute
  <2>4. ((w2 * c_3) * v_3) * m_3 = w2 * d
    BY SMT
  <2> QED BY <2>1, <2>2, <2>3, <2>4
<1>8. PICK C1 \in Nat, C2 \in Nat :
        /\ C1 = w3 * c_3 * v_3 * m_1 /\ C2 = w3 * c_3 * v_3 * m_2
        /\ C1 + C2 = w3 * d /\ (m_1 >= m_2 => C1 >= C2)
  <2>1. w3 * c_3 \in Nat
    BY SMT
  <2>2. w3 * c_3 * v_3 \in Nat
    BY <2>1, SMT
  <2>3. PICK f1 \in Nat, f2 \in Nat :
          f1 = (w3 * c_3 * v_3) * m_1 /\ f2 = (w3 * c_3 * v_3) * m_2
          /\ f1 + f2 = (w3 * c_3 * v_3) * m_3 /\ (m_1 >= m_2 => f1 >= f2)
    BY <2>2, <1>3, Distribute
  <2>4. (w3 * c_3 * v_3) * m_3 = w3 * d
    BY SMT
  <2> QED BY <2>3, <2>4
<1>9. Raw(Weights(i), c, v, m, 1) = A1 + B1 + C1 /\ Raw(Weights(i), c, v, m, 2) = A2 + B2 + C2
  BY <1>1, <1>2, <1>3, <1>4, <1>6, <1>7, <1>8 DEF Raw
<1>10. /\ Raw(Weights(i), c2, v2, m2, 1) = A2 + B2 + C2
       /\ Raw(Weights(i), c2, v2, m2, 2) = A1 + B1 + C1
  BY <1>1, <1>2, <1>3, <1>4, <1>6, <1>7, <1>8 DEF Raw
<1>11. w1 * d + w2 * d + w3 * d = 100 * d
  <2> HIDE DEF d
  <2>1. (w1 + w2) * d = w1 * d + w2 * d /\ ((w1 + w2) + w3) * d = (w1 + w2) * d + w3 * d
    BY <1>5, Distribute
  <2> QED BY <2>1, <1>4
<1>12. c[3] * v[3] * m[3] = d /\ c2[3] * v2[3] * m2[3] = d
  BY <1>1, <1>2, <1>3
<1> HIDE DEF d
<1>13. PICK x \in Nat, y \in Nat : x = A1 + B1 + C1 /\ y = A2 + B2 + C2
  OBVIOUS
<1>14. x + y = 100 * d
  BY <1>5, <1>6, <1>7, <1>8, <1>11, <1>13
<1>15. c_1 >= c_2 /\ v_1 >= v_2 /\ m_1 >= m_2 => x >= y
  BY <1>6, <1>7, <1>8, <1>13
<1>16. /\ c[1] = c_1 /\ c[2] = c_2 /\ v[1] = v_1 /\ v[2] = v_2 /\ m[1] = m_1 /\ m[2] = m_2
  BY <1>1, <1>2, <1>3
<1> QED BY <1>5, <1>9, <1>10, <1>12, <1>13, <1>14, <1>15, <1>16 DEF Whole

\* The scores are those of a whole shared by the two, whichever of them comes first.
Mirrored(a, b, i) ==
  \E d \in Nat \ {0}, x \in Nat, y \in Nat :
    /\ x + y = 100 * d /\ (Ahead(a, b) => x >= y) /\ (Ahead(b, a) => y >= x)
    /\ Scores(a, b, i) = Rounded(x, d) \X Rounded(y, d)
    /\ Scores(b, a, i) = Rounded(y, d) \X Rounded(x, d)

\* Both scores of a pair with the same shares as its mirror image.
LEMMA ScoresOfPair ==
  ASSUME NEW a \in AnySide, NEW b \in AnySide, NEW i \in {"7d", "30d", "total"}
  PROVE  Mirrored(a, b, i)
<1> DEFINE c == SharePair(a.clones, b.clones)
<1> DEFINE v == SharePair(a.views, b.views)
<1> DEFINE m == MomentumPair(a.momentum, b.momentum)
<1> DEFINE c2 == SharePair(b.clones, a.clones)
<1> DEFINE v2 == SharePair(b.views, a.views)
<1> DEFINE m2 == MomentumPair(b.momentum, a.momentum)
<1>1. /\ a.clones \in Nat /\ a.views \in Nat /\ a.momentum \in Int \X (Nat \ {0})
      /\ b.clones \in Nat /\ b.views \in Nat /\ b.momentum \in Int \X (Nat \ {0})
  BY DEF AnySide
<1>2. SharesOf(c, c2) /\ SharesOf(v, v2) /\ SharesOf(m, m2)
  BY <1>1, Shares, GrowthShares
<1>3. SharesOf(c2, c) /\ SharesOf(v2, v) /\ SharesOf(m2, m)
  BY <1>1, Shares, GrowthShares
<1>4. /\ Scores(a, b, i) = Rounded(Raw(Weights(i), c, v, m, 1), c[3] * v[3] * m[3])
                           \X Rounded(Raw(Weights(i), c, v, m, 2), c[3] * v[3] * m[3])
      /\ Scores(b, a, i) = Rounded(Raw(Weights(i), c2, v2, m2, 1), c2[3] * v2[3] * m2[3])
                           \X Rounded(Raw(Weights(i), c2, v2, m2, 2), c2[3] * v2[3] * m2[3])
  BY Zenon DEF Scores
<1>5. Ahead(a, b) => c[1] >= c[2] /\ v[1] >= v[2] /\ m[1] >= m[2]
  BY <1>1, Shares, GrowthShares DEF Ahead
<1>6. Ahead(b, a) => c2[1] >= c2[2] /\ v2[1] >= v2[2] /\ m2[1] >= m2[2]
  BY <1>1, Shares, GrowthShares DEF Ahead
<1> HIDE DEF c, v, m, c2, v2, m2
<1>7. Whole(c, c2, v, v2, m, m2, i) /\ Whole(c2, c, v2, v, m2, m, i)
  BY <1>2, <1>3, RawShares, Zenon
<1>8. PICK d \in Nat \ {0}, x \in Nat, y \in Nat :
        /\ x + y = 100 * d
        /\ d = c[3] * v[3] * m[3] /\ d = c2[3] * v2[3] * m2[3]
        /\ x = Raw(Weights(i), c, v, m, 1) /\ y = Raw(Weights(i), c, v, m, 2)
        /\ y = Raw(Weights(i), c2, v2, m2, 1) /\ x = Raw(Weights(i), c2, v2, m2, 2)
        /\ c[1] >= c[2] /\ v[1] >= v[2] /\ m[1] >= m[2] => x >= y
  BY <1>7 DEF Whole
<1>9. c2[1] >= c2[2] /\ v2[1] >= v2[2] /\ m2[1] >= m2[2] => y >= x
  BY <1>7, <1>8 DEF Whole
<1>10. (Ahead(a, b) => x >= y) /\ (Ahead(b, a) => y >= x)
  BY <1>5, <1>6, <1>8, <1>9
<1>11. /\ Scores(a, b, i) = Rounded(x, d) \X Rounded(y, d)
       /\ Scores(b, a, i) = Rounded(y, d) \X Rounded(x, d)
  BY <1>4, <1>8, Zenon
<1> QED BY <1>8, <1>10, <1>11, Zenon DEF Mirrored

\* Scores that are not close are two points apart.
LEMMA Confident ==
  ASSUME NEW x \in Nat, NEW y \in Nat, x + y \in 99 .. 101, Confidence(x, y) # "low"
  PROVE  x >= y + 2 \/ y >= x + 2
<1>1. ~(Leader(x, y) < 1 \/ 100 * Gap(x, y) < 10 * Leader(x, y))
  BY DEF Confidence
<1> QED BY <1>1 DEF Leader, Gap

\* Who leads on the metric given as the reason is not behind on it.
LEMMA ReasonHolds ==
  ASSUME NEW a \in AnySide, NEW b \in AnySide, NEW x \in Nat, NEW y \in Nat
  PROVE  LET winner == IF LeadsA(x, y) THEN a ELSE b
             loser == IF LeadsA(x, y) THEN b ELSE a
         IN /\ Rationale(a, b, x, y) = "clones" => winner.clones >= loser.clones
            /\ Confidence(x, y) # "low" /\ Rationale(a, b, x, y) = "views"
                 => winner.views >= loser.views
<1>1. PICK low \in BOOLEAN : low = (Confidence(x, y) = "low")
  OBVIOUS
<1>2. PICK high \in BOOLEAN : high = (Confidence(x, y) = "high")
  OBVIOUS
<1>3. low => ~high
  BY <1>1, <1>2
<1>4. Rationale(a, b, x, y) =
        IF low THEN "close"
        ELSE IF high /\ LeadsA(a.clones, b.clones) = LeadsA(x, y) THEN "clones"
        ELSE IF LeadsA(a.views, b.views) = LeadsA(x, y) THEN "views" ELSE "overall"
  BY <1>1, <1>2, <1>3 DEF Rationale
<1>5. Rationale(a, b, x, y) = "clones" => LeadsA(a.clones, b.clones) = LeadsA(x, y)
  BY <1>4, Zenon
<1>6. Rationale(a, b, x, y) = "views" => LeadsA(a.views, b.views) = LeadsA(x, y)
  BY <1>4, Zenon
<1>7. a.clones \in Nat /\ a.views \in Nat /\ b.clones \in Nat /\ b.views \in Nat
  BY DEF AnySide
<1>8. PICK A \in BOOLEAN : A = LeadsA(x, y)
  <2>1. CASE LeadsA(x, y)
    <3>1. LeadsA(x, y) = TRUE
      BY <2>1 DEF LeadsA
    <3> QED BY <3>1
  <2>2. CASE ~LeadsA(x, y)
    <3>1. LeadsA(x, y) = FALSE
      BY <2>2 DEF LeadsA
    <3> QED BY <3>1
  <2> QED BY <2>1, <2>2
<1>9. LeadsA(a.clones, b.clones) = A =>
        (IF A THEN a ELSE b).clones >= (IF A THEN b ELSE a).clones
  BY <1>7 DEF LeadsA
<1>10. LeadsA(a.views, b.views) = A =>
         (IF A THEN a ELSE b).views >= (IF A THEN b ELSE a).views
  BY <1>7 DEF LeadsA
<1> QED BY <1>5, <1>6, <1>8, <1>9, <1>10

\* The score of weightedThreePair and weightedTwoPair (internal/h2h/score.go) is fair for any
\* counts and growth rates, in every interval.
THEOREM ScoreFair ==
  \A a, b \in AnySide, i \in {"7d", "30d", "total"} : FairTo(a, b, i)
<1> SUFFICES ASSUME NEW a \in AnySide, NEW b \in AnySide, NEW i \in {"7d", "30d", "total"}
             PROVE  FairTo(a, b, i)
  OBVIOUS
<1>1. PICK d \in Nat \ {0}, x \in Nat, y \in Nat :
        /\ x + y = 100 * d /\ (Ahead(a, b) => x >= y) /\ (Ahead(b, a) => y >= x)
        /\ Scores(a, b, i) = Rounded(x, d) \X Rounded(y, d)
        /\ Scores(b, a, i) = Rounded(y, d) \X Rounded(x, d)
  <2>1. Mirrored(a, b, i)
    BY ScoresOfPair
  <2> QED BY <2>1 DEF Mirrored
<1>2. {<<s[2], s[1]>> : s \in Scores(a, b, i)} = Scores(b, a, i)
  <2>1. PICK X, Y : Scores(a, b, i) = X \X Y /\ Scores(b, a, i) = Y \X X
    BY <1>1
  <2>2. {<<s[2], s[1]>> : s \in X \X Y} = Y \X X
    <3>1. ASSUME NEW z \in Y \X X
          PROVE  \E s \in X \X Y : z = <<s[2], s[1]>>
      <4>1. PICK v \in Y, u \in X : z = <<v, u>>
        OBVIOUS
      <4>2. <<u, v>> \in X \X Y /\ z = <<(<<u, v>>)[2], (<<u, v>>)[1]>>
        BY <4>1
      <4> QED BY <4>2, Zenon
    <3>2. ASSUME NEW s \in X \X Y
          PROVE  <<s[2], s[1]>> \in Y \X X
      OBVIOUS
    <3>3. \A z \in {<<s[2], s[1]>> : s \in X \X Y} : z \in Y \X X
      BY <3>2
    <3>4. \A z \in Y \X X : z \in {<<s[2], s[1]>> : s \in X \X Y}
      BY <3>1
    <3> QED BY <3>3, <3>4
  <2> QED BY <2>1, <2>2
<1>3. ASSUME NEW s \in Scores(a, b, i)
      PROVE  /\ s[1] + s[2] \in 99 .. 101
             /\ Ahead(a, b) => s[1] >= s[2] - 1
             /\ Confidence(s[1], s[2]) # "low" =>
                  LET winner == IF LeadsA(s[1], s[2]) THEN a ELSE b
                      loser == IF LeadsA(s[1], s[2]) THEN b ELSE a
                  IN /\ IF winner = a THEN s[1] >= s[2] ELSE s[2] >= s[1]
                     /\ Rationale(a, b, s[1], s[2]) = "clones" => winner.clones >= loser.clones
                     /\ Rationale(a, b, s[1], s[2]) = "views" => winner.views >= loser.views
  <2>1. PICK r \in Rounded(x, d), q \in Rounded(y, d) : s = <<r, q>>
    BY <1>1
  <2>2. r \in Nat /\ q \in Nat /\ r + q \in 99 .. 101 /\ (x >= y => r >= q - 1)
    BY <1>1, RoundedShares
  <2>3. y + x = 100 * d
    BY <1>1
  <2>4. y >= x => q >= r - 1
    BY <2>3, RoundedShares
  <2>5. s[1] = r /\ s[2] = q
    BY <2>1
  <2>6. a = b => Confidence(r, q) = "low"
    <3>1. SUFFICES ASSUME a = b PROVE Confidence(r, q) = "low"
      OBVIOUS
    <3>2. a.clones \in Nat /\ a.views \in Nat /\ a.momentum \in Int \X (Nat \ {0})
      BY DEF AnySide
    <3>3. a.momentum[1] * a.momentum[2] \in Int
      BY <3>2, SMT
    <3>4. Ahead(a, a)
      BY <3>2, <3>3 DEF Ahead
    <3>5. r >= q - 1 /\ q >= r - 1
      BY <3>1, <3>4, <1>1, <2>2, <2>4
    <3> QED BY <3>5, <2>2, Confident
  <2>7. Confidence(r, q) # "low" =>
          IF (IF LeadsA(r, q) THEN a ELSE b) = a THEN r >= q ELSE q >= r
    BY <2>2, <2>6 DEF LeadsA
  <2>8. Ahead(a, b) => r >= q - 1
    BY <1>1, <2>2
  <2> QED BY <2>2, <2>5, <2>7, <2>8, ReasonHolds
<1> QED BY <1>2, <1>3 DEF FairTo

\* A growth rate is a fraction.
LEMMA Ratios ==
  ASSUME NEW x \in Nat, NEW y \in Nat
  PROVE  Growth(x, y) \in Int \X (Nat \ {0})
BY DEF Growth

\* The sides a run is given are sides.
LEMMA SidesAreSides == MaxTraffic \in Nat => Side \subseteq AnySide
<1> SUFFICES ASSUME MaxTraffic \in Nat PROVE Side \subseteq AnySide
  OBVIOUS
<1>1. Counts \subseteq Nat
  BY DEF Counts
<1>2. {Growth(x, y) : x, y \in 0 .. 2} \subseteq Int \X (Nat \ {0})
  <2>1. SUFFICES ASSUME NEW x \in 0 .. 2, NEW y \in 0 .. 2
                 PROVE  Growth(x, y) \in Int \X (Nat \ {0})
    OBVIOUS
  <2>2. x \in Nat /\ y \in Nat
    OBVIOUS
  <2> QED BY <2>2, Ratios
<1>3. SUFFICES ASSUME NEW s \in Side PROVE s \in AnySide
  OBVIOUS
<1>4. /\ s = [clones |-> s.clones, views |-> s.views, momentum |-> s.momentum]
      /\ s.clones \in Counts /\ s.views \in Counts
      /\ s.momentum \in {Growth(x, y) : x, y \in 0 .. 2}
  BY DEF Side
<1> QED BY <1>1, <1>2, <1>4 DEF AnySide

\* The score is fair in every input of the run, whatever MaxTraffic.
THEOREM ScoresAlwaysFair == ReportSpec => []H2HFair
<1>1. ReportInit => H2HFair
  <2>1. SUFFICES ASSUME ReportInit, Is("pair")
                 PROVE  FairTo(input.a, input.b, input.interval)
    BY DEF H2HFair
  <2>2. PICK a \in Side, b \in Side, i \in {"7d", "total"} :
          input = [kind |-> "pair", a |-> a, b |-> b, interval |-> i]
    BY <2>1, Kinds DEF PairInput
  <2>3. a \in AnySide /\ b \in AnySide
    BY InputAssumption, SidesAreSides
  <2>4. FairTo(a, b, i)
    BY <2>3, ScoreFair
  <2> QED BY <2>2, <2>4
<1>2. H2HFair /\ [ReportNext]_input => H2HFair'
  BY DEF ReportNext, H2HFair, Is
<1> QED BY <1>1, <1>2, PTL DEF ReportSpec

-----------------------------------------------------------------------------
(* Rules, and the fleet freeze                                              *)

\* Rows of a metric with traffic on every day up to one of them.
Ones(last) == [d \in 1 .. last |-> 1]

\* With one clone a day, a window counts something if and only if it holds a day.
LEMMA TotalOfOnes ==
  ASSUME NEW last \in Nat, NEW days
  PROVE  /\ IsRows(Ones(last))
         /\ (\E d \in 1 .. last : d \in days) => Total(Ones(last), days) > 0
         /\ (\A d \in 1 .. last : d \notin days) => Total(Ones(last), days) = 0
<1>1. DOMAIN Ones(last) = 1 .. last /\ \A d \in 1 .. last : Ones(last)[d] = 1
  BY DEF Ones
<1>2. IsFiniteSet(1 .. last)
  BY FS_Interval
<1>3. IsRows(Ones(last))
  BY <1>1, <1>2 DEF IsRows, CountsOn
<1>4. ASSUME NEW d \in 1 .. last, d \in days
      PROVE  Total(Ones(last), days) > 0
  <2>1. Ones(last)[d] <= Total(Ones(last), days) /\ Total(Ones(last), days) \in Nat
    BY <1>1, <1>3, <1>4, TotalHolds, TotalIsNat
  <2> QED BY <1>1, <2>1
<1>5. (\A d \in 1 .. last : d \notin days) => Total(Ones(last), days) = 0
  BY <1>1, TotalOfNone
<1> QED BY <1>3, <1>4, <1>5

\* A busy repository is seen by every window that holds today.
LEMMA BusyDays ==
  ASSUME NEW days, LastDay \in days
  PROVE  IsRows(Busy) /\ Total(Busy, days) > 0 /\ TotalClones(Busy) > 0
<1>1. LastDay \in 1 .. LastDay /\ LastDay \in Nat
  BY InputAssumption
<1>2. Busy = Ones(LastDay) /\ DOMAIN Busy = 1 .. LastDay
  BY DEF Busy, Ones
<1> QED BY <1>1, <1>2, TotalOfOnes DEF TotalClones

\* The tables of RulesSeeTraffic.
BusyTables == [r \in Names |-> [m \in Metrics |-> Busy]]

\* A busy fleet is seen.
LEMMA BusyFleet ==
  ASSUME NEW m \in Metrics, NEW visible \in SUBSET Names, visible # {}
  PROVE  FleetTotal(BusyTables, m, visible) > 0
<1> DEFINE g == [r \in visible |-> TotalClones(BusyTables[r][m])]
<1>1. \A r \in visible : g[r] = TotalClones(Busy)
  BY DEF BusyTables
<1>2. LastDay \in {LastDay}
  OBVIOUS
<1>3. IsRows(Busy) /\ TotalClones(Busy) > 0
  BY <1>2, BusyDays
<1>4. TotalClones(Busy) \in Nat
  BY <1>3, TotalIsNat DEF TotalClones
<1>5. IsFiniteSet(Names)
  <2>1. IsFiniteSet({"mine"})
    BY FS_Singleton
  <2>2. IsFiniteSet({"mine"} \union {"fork"})
    BY <2>1, FS_AddElement
  <2>3. Names = {"mine"} \union {"fork"}
    BY DEF Names
  <2> QED BY <2>2, <2>3
<1>6. IsFiniteSet(visible)
  BY <1>5, FS_Subset
<1>7. DOMAIN g = visible
  OBVIOUS
<1> HIDE DEF g
<1>8. IsRows(g)
  BY <1>1, <1>4, <1>6, <1>7 DEF IsRows, CountsOn
<1>9. PICK r \in visible : TRUE
  OBVIOUS
<1>10. g[r] <= Total(g, visible) /\ Total(g, visible) \in Nat
  BY <1>7, <1>8, <1>9, TotalHolds, TotalIsNat
<1>11. Total(g, visible) > 0
  BY <1>1, <1>3, <1>4, <1>9, <1>10
<1> QED BY <1>11, Zenon DEF FleetTotal, g

\* A rule about one repository looks at a window that holds today.
LEMMA BusyRepo ==
  ASSUME NEW rule, rule.metric \in Metrics, rule.window \in RuleWindows, rule.window # "wow",
         rule.scope # "all_repos", NEW repo \in Names, NEW visible
  PROVE  RuleValue(BusyTables, rule, repo, visible, LastDay) > 0
<1>1. Rows(BusyTables, rule, repo) = Busy
  BY DEF Rows, BusyTables
<1>2. /\ LastDay \in {LastDay}
      /\ LastDay \in Window(LastDay, 0, Week) /\ LastDay \in Window(LastDay, 0, Month)
  BY ReportsAssumption, InputAssumption DEF Window
<1>3. /\ Total(Busy, {LastDay}) > 0 /\ Total(Busy, Window(LastDay, 0, Week)) > 0
      /\ Total(Busy, Window(LastDay, 0, Month)) > 0 /\ TotalClones(Busy) > 0
  BY <1>2, BusyDays
<1>4. ~(rule.scope = "all_repos" /\ rule.window = "lifetime")
  OBVIOUS
<1>5. RuleValue(BusyTables, rule, repo, visible, LastDay)
        = CASE rule.window = "1d" -> Total(Busy, {LastDay})
            [] rule.window = "7d" -> Total(Busy, Window(LastDay, 0, Week))
            [] rule.window = "30d" -> Total(Busy, Window(LastDay, 0, Month))
            [] rule.window = "lifetime" -> TotalClones(Busy)
  BY <1>1, <1>4, Zenon DEF RuleValue
<1>6. rule.window \in {"1d", "7d", "30d", "lifetime"}
  BY DEF RuleWindows
<1>7. RuleValue(BusyTables, rule, repo, visible, LastDay)
        \in {Total(Busy, {LastDay}), Total(Busy, Window(LastDay, 0, Week)),
             Total(Busy, Window(LastDay, 0, Month)), TotalClones(Busy)}
  BY <1>5, <1>6
<1> QED BY <1>3, <1>7

DropsAt(f, p, now) ==
  LET this == 100 * Total(f, Window(now, 0, Week))
      kept == (100 - p) * Total(f, Window(now, Week, Week))
      fires == DropFires(f, now, p)
  IN /\ this < kept => fires = {TRUE}
     /\ this > kept => fires = {FALSE}

\* The drop fires below its threshold and nowhere above it.
LEMMA DropsExact ==
  ASSUME NEW f, IsRows(f), NEW p \in {30, 50, 100}, NEW now
  PROVE  DropsAt(f, p, now)
<1>1. PICK t \in Nat : t = Total(f, Window(now, 0, Week))
  BY TotalIsNat
<1>2. PICK q \in Nat : q = Total(f, Window(now, Week, Week))
  BY TotalIsNat
<1>3. PICK last \in Nat : last = Growth(0, q)[2] /\ last = IF q < 1 THEN 1 ELSE q
  BY DEF Growth
<1>4. PICK spare \in Int : spare = (100 - p) * last - 100 * t
  BY SMT
<1>5. DropFires(f, now, p) =
        IF spare > 0 THEN {TRUE} ELSE IF spare = 0 THEN BOOLEAN ELSE {FALSE}
  BY <1>1, <1>2, <1>3, <1>4, Zenon DEF DropFires
<1>6. 100 * t < (100 - p) * q => spare > 0
  BY <1>3, <1>4
<1>7. 100 * t > (100 - p) * q => spare < 0
  BY <1>3, <1>4
<1>8. spare < 0 => ~(spare > 0) /\ spare # 0
  OBVIOUS
<1>9. 100 * t < (100 - p) * q => DropFires(f, now, p) = {TRUE}
  BY <1>5, <1>6, Zenon
<1>10. 100 * t > (100 - p) * q => DropFires(f, now, p) = {FALSE}
  BY <1>5, <1>7, <1>8, Zenon
<1> QED BY <1>1, <1>2, <1>9, <1>10, Zenon DEF DropsAt

\* An accepted rule sees traffic, and a drop fires exactly below its threshold
\* (normalizeRule, metricValueScoped, wowDropPct), whatever Week, Month and LastDay.
THEOREM RulesAlwaysSeeTraffic == ReportSpec => []RulesSeeTraffic
<1>1. ReportInit => RulesSeeTraffic
  <2> SUFFICES ASSUME ReportInit PROVE RulesSeeTraffic
    OBVIOUS
  <2>1. ASSUME Is("rule"), Accepted(input.rule), input.rule.window # "wow",
               NEW repo \in Subjects(input.rule, input.visible), input.visible # {}
        PROVE  RuleValue(BusyTables, input.rule, repo, input.visible, LastDay) > 0
    <3>1. PICK r \in [repo : Names \union {""}, scope : {"", "each_repo", "all_repos"},
                      metric : Metrics, window : RuleWindows], visible \in SUBSET Names :
            input = [kind |-> "rule", rule |-> r, visible |-> visible]
      BY <2>1, Kinds, Zenon DEF RuleInput
    <3>2. input.rule = r /\ input.visible = visible
      BY <3>1
    <3>3. r.metric \in Metrics /\ r.window \in RuleWindows
      OBVIOUS
    <3>4. CASE r.scope = "all_repos"
      <4>1. r.window = "lifetime"
        BY <2>1, <3>2, <3>4 DEF Accepted
      <4>2. RuleValue(BusyTables, r, repo, visible, LastDay)
              = FleetTotal(BusyTables, r.metric, visible)
        BY <3>4, <4>1, Zenon DEF RuleValue
      <4>3. FleetTotal(BusyTables, r.metric, visible) > 0
        BY <2>1, <3>2, <3>3, BusyFleet
      <4> QED BY <3>2, <4>2, <4>3
    <3>5. CASE r.scope # "all_repos"
      <4>1. Subjects(r, visible) \subseteq visible
        <5>1. CASE r.scope = "each_repo"
          BY <3>5, <5>1 DEF Subjects
        <5>2. CASE r.scope # "each_repo"
          BY <3>5, <5>2 DEF Subjects
        <5> QED BY <5>1, <5>2
      <4>2. repo \in Names
        BY <2>1, <3>2, <4>1
      <4> QED BY <2>1, <3>2, <3>3, <3>5, <4>2, BusyRepo
    <3> QED BY <3>4, <3>5
  <2>2. ASSUME Is("days")
        PROVE  DropsAt(input.rows, input.percent, LastDay)
    <3>1. IsRows(input.rows) /\ input.percent \in {30, 50, 100}
      BY <2>2, DaysInputs
    <3> QED BY <3>1, DropsExact
  <2> QED BY <2>1, <2>2, Zenon DEF RulesSeeTraffic, BusyTables, DropsAt
<1>2. RulesSeeTraffic /\ [ReportNext]_input => RulesSeeTraffic'
  BY DEF ReportNext, RulesSeeTraffic, Is
<1> QED BY <1>1, <1>2, PTL DEF ReportSpec

\* The traffic of a repository that was frozen on a day, or reports every day, as
\* the window before today sees it.
LEMMA OnesInWindow ==
  ASSUME NEW last \in 1 .. LastDay
  PROVE  LET window == (LastDay - 1 - (EligibleWindow - 1)) .. (LastDay - 1)
         IN Total(Ones(last), window) > 0 <=> LastDay - 1 - last < EligibleWindow
<1> DEFINE window == (LastDay - 1 - (EligibleWindow - 1)) .. (LastDay - 1)
<1>1. EligibleWindow \in Nat \ {0} /\ LastDay \in Nat \ {0, 1} /\ last \in Nat
  BY ReportsAssumption, InputAssumption
<1>2. CASE LastDay - 1 - last < EligibleWindow
  <2>1. PICK d \in 1 .. last : d \in window
    <3>1. CASE last = LastDay
      <4>1. LastDay - 1 \in 1 .. last /\ LastDay - 1 \in window
        BY <1>1, <3>1
      <4> QED BY <4>1
    <3>2. CASE last # LastDay
      <4>1. last \in 1 .. last /\ last \in window
        BY <1>1, <1>2, <3>2
      <4> QED BY <4>1
    <3> QED BY <3>1, <3>2
  <2>2. Total(Ones(last), window) > 0
    BY <1>1, <2>1, TotalOfOnes
  <2> QED BY <1>2, <2>2
<1>3. CASE ~(LastDay - 1 - last < EligibleWindow)
  <2>1. \A d \in 1 .. last : d \notin window
    BY <1>1, <1>3
  <2>2. Total(Ones(last), window) = 0
    BY <1>1, <2>1, TotalOfOnes
  <2> QED BY <1>3, <2>2
<1> QED BY <1>2, <1>3

\* The greatest of two numbers, and of none but 0.
LEMMA GreatestOfTwo ==
  ASSUME NEW n \in Nat
  PROVE  Max({0, n}) = n /\ Max({0}) = 0
<1>1. /\ n \in {0, n} /\ \A y \in {0, n} : n >= y
      /\ \A x \in {0, n} : (\A y \in {0, n} : x >= y) => x = n
  OBVIOUS
<1>2. \A x \in {0} : x = 0 /\ \A y \in {0} : x >= y
  OBVIOUS
<1> QED BY <1>1, <1>2, Zenon DEF Max

\* What a repository of the fleet is: stuck in one metric or both, or not stuck.
FleetInputs ==
  /\ input.n \in 0 .. MaxFleet /\ input.stuck \in 0 .. input.n /\ input.since \in 1 .. LastDay
  /\ input.both \in BOOLEAN /\ input.k \in 1 .. EligibleWindow + 1 /\ input.ok \in BOOLEAN

\* The fleet a run is given.
LEMMA FleetIs ==
  ASSUME ReportInit, Is("fleet")
  PROVE  FleetInputs
<1>1. PICK n \in 0 .. MaxFleet : \E stuck \in 0 .. n, since \in 1 .. LastDay, both \in BOOLEAN,
              k \in 1 .. EligibleWindow + 1, ok \in BOOLEAN :
        input = [kind |-> "fleet", n |-> n, stuck |-> stuck, since |-> since, both |-> both,
                 k |-> k, ok |-> ok]
  BY Kinds, Zenon DEF FleetInput
<1>2. PICK stuck \in 0 .. n, since \in 1 .. LastDay, both \in BOOLEAN,
           k \in 1 .. EligibleWindow + 1, ok \in BOOLEAN :
        input = [kind |-> "fleet", n |-> n, stuck |-> stuck, since |-> since, both |-> both,
                 k |-> k, ok |-> ok]
  BY <1>1
<1>3. /\ input.n = n /\ input.stuck = stuck /\ input.since = since
      /\ input.both = both /\ input.k = k /\ input.ok = ok
  BY <1>2
<1> QED BY <1>3, Zenon DEF FleetInputs

\* The metrics of a repository and what their rows and states are.
MetricIs(m, last) ==
  /\ m.rows = Ones(last)
  /\ m.state.status = "success" /\ m.state.latest = last

\* The last days of the metrics of a fleet.
LEMMA MetricsOfFleet ==
  ASSUME FleetInputs, NEW r \in 1 .. input.n
  PROVE  /\ DOMAIN Fleet = 1 .. input.n
         /\ MetricIs(Fleet[r].clones, IF r <= input.stuck THEN input.since ELSE LastDay)
         /\ MetricIs(Fleet[r].views,
                     IF r <= input.stuck /\ input.both THEN input.since ELSE LastDay)
<1>1. MetricIs(Frozen, input.since) /\ MetricIs(Daily, LastDay)
  BY Zenon DEF MetricIs, Frozen, Daily, Busy, Ones
<1>2. /\ Fleet[r].clones = IF r <= input.stuck THEN Frozen ELSE Daily
      /\ Fleet[r].views = IF r <= input.stuck /\ input.both THEN Frozen ELSE Daily
      /\ DOMAIN Fleet = 1 .. input.n
  BY DEF Fleet
<1> QED BY <1>1, <1>2, Zenon

\* A metric of the fleet is stale when its last day is.
LEMMA MetricStale ==
  ASSUME NEW last \in 1 .. LastDay, NEW m, MetricIs(m, last), NEW cutoff \in Int
  PROVE  Stale(m.state, cutoff) <=> last <= cutoff
<1>1. m.state.latest # 0 /\ m.state.latest = last
  BY InputAssumption DEF MetricIs
<1>2. m.state.status = "success"
  BY DEF MetricIs
<1>3. Stale(m.state, cutoff) <=> m.state.latest <= cutoff
  BY <1>1, <1>2, Zenon DEF Stale
<1> QED BY <1>1, <1>3

\* Whether a repository counts, and since when it is stuck.
LEMMA RepoOfFleet ==
  ASSUME FleetInputs, NEW r \in 1 .. input.n, NEW k \in Nat \ {0}
  PROVE  LET completed == LastDay - 1
             lasted == LastDay - 1 - input.since
             seen == ~input.both \/ lasted < EligibleWindow
         IN /\ Eligible(Fleet[r], completed) <=> (r > input.stuck \/ seen)
            /\ StuckSince(Fleet[r], completed - k)
                 = IF r <= input.stuck /\ lasted >= k THEN input.since ELSE 0
<1> DEFINE completed == LastDay - 1
<1> DEFINE lasted == LastDay - 1 - input.since
<1> DEFINE window == (completed - (EligibleWindow - 1)) .. completed
<1>0. /\ LastDay \in Nat \ {0, 1} /\ EligibleWindow \in Nat \ {0} /\ input.stuck \in Nat
      /\ input.since \in 1 .. LastDay /\ LastDay \in 1 .. LastDay /\ input.n \in Nat
  BY ReportsAssumption, InputAssumption DEF FleetInputs
<1>1. PICK c \in 1 .. LastDay : c = IF r <= input.stuck THEN input.since ELSE LastDay
  BY <1>0
<1>2. PICK v \in 1 .. LastDay :
        v = IF r <= input.stuck /\ input.both THEN input.since ELSE LastDay
  BY <1>0
<1>3. MetricIs(Fleet[r].clones, c) /\ MetricIs(Fleet[r].views, v)
  BY <1>1, <1>2, MetricsOfFleet
<1>4. /\ Total(Fleet[r]["clones"].rows, window) > 0 <=> completed - c < EligibleWindow
      /\ Total(Fleet[r]["views"].rows, window) > 0 <=> completed - v < EligibleWindow
  BY <1>3, OnesInWindow DEF MetricIs
<1>5. Eligible(Fleet[r], completed) <=>
        (completed - c < EligibleWindow \/ completed - v < EligibleWindow)
  <2>1. Eligible(Fleet[r], completed) <=>
          (Total(Fleet[r]["clones"].rows, window) > 0 \/ Total(Fleet[r]["views"].rows, window) > 0)
    BY Zenon DEF Eligible, Metrics
  <2> QED BY <1>4, <2>1, Zenon
<1>6. Eligible(Fleet[r], completed) <=>
        (r > input.stuck \/ ~input.both \/ lasted < EligibleWindow)
  <2>1. (completed - c < EligibleWindow \/ completed - v < EligibleWindow) <=>
          (r > input.stuck \/ ~input.both \/ lasted < EligibleWindow)
    BY <1>0, <1>1, <1>2
  <2> QED BY <1>5, <2>1, Zenon
<1> DEFINE cutoff == completed - k
<1> DEFINE S == {Fleet[r][m].state.latest : m \in {x \in Metrics : Stale(Fleet[r][x].state, cutoff)}}
<1>7. /\ Stale(Fleet[r]["clones"].state, cutoff) <=> c <= cutoff
      /\ Stale(Fleet[r]["views"].state, cutoff) <=> v <= cutoff
  BY <1>0, <1>3, MetricStale
<1>8. Fleet[r]["clones"].state.latest = c /\ Fleet[r]["views"].state.latest = v
  BY <1>3 DEF MetricIs
<1>9. S = {x \in {c, v} : x <= cutoff}
  BY <1>7, <1>8, Zenon DEF Metrics
<1>10. {x \in {c, v} : x <= cutoff}
         = IF r <= input.stuck /\ lasted >= k THEN {input.since} ELSE {}
  <2>1. ~(LastDay <= cutoff)
    BY <1>0
  <2>2. input.since <= cutoff <=> lasted >= k
    BY <1>0
  <2> HIDE DEF cutoff, lasted
  <2> QED BY <2>1, <2>2, <1>1, <1>2, Zenon
<1>11. StuckSince(Fleet[r], cutoff) = Max({0} \union S)
  BY Zenon DEF StuckSince
<1> HIDE DEF S, cutoff
<1>12. StuckSince(Fleet[r], cutoff)
         = IF r <= input.stuck /\ lasted >= k THEN input.since ELSE 0
  <2>1. input.since \in Nat /\ {0} \union {input.since} = {0, input.since} /\ {0} \union {} = {0}
    BY <1>0
  <2> HIDE DEF lasted
  <2> QED BY <1>9, <1>10, <1>11, <2>1, GreatestOfTwo
<1> QED BY <1>6, <1>12 DEF cutoff

\* Half of the fleet, and enough of it.
LEMMA FreezeFound ==
  ASSUME FleetInputs
  PROVE  LET lasted == (LastDay - 1) - input.since
             seen == ~input.both \/ lasted < EligibleWindow
             due == /\ input.ok /\ seen /\ lasted >= input.k
                    /\ input.stuck >= StuckMinimum /\ 2 * input.stuck >= input.n
             freeze == FleetFreeze(Fleet, input.k, LastDay, input.ok)
         IN /\ freeze.active = due
            /\ due => freeze.days = lasted /\ freeze.since = input.since
<1> DEFINE completed == LastDay - 1
<1> DEFINE lasted == (LastDay - 1) - input.since
<1> DEFINE seen == ~input.both \/ lasted < EligibleWindow
<1> DEFINE due == /\ input.ok /\ seen /\ lasted >= input.k
                  /\ input.stuck >= StuckMinimum /\ 2 * input.stuck >= input.n
<1> DEFINE freeze == FleetFreeze(Fleet, input.k, LastDay, input.ok)
<1> DEFINE E == {r \in DOMAIN Fleet : Eligible(Fleet[r], completed)}
<1> DEFINE S == {r \in E : StuckSince(Fleet[r], completed - input.k) # 0}
<1> DEFINE since == Max({0} \union {StuckSince(Fleet[r], completed - input.k) : r \in S})
<1> DEFINE counts == [Inactive EXCEPT !.stuck = Cardinality(S), !.eligible = Cardinality(E)]
<1>0. /\ LastDay \in Nat \ {0, 1} /\ StuckMinimum \in Nat \ {0}
      /\ input.n \in Nat /\ input.stuck \in 0 .. input.n /\ input.k \in Nat \ {0}
      /\ input.since \in 1 .. LastDay /\ lasted \in Int
  BY ReportsAssumption, InputAssumption DEF FleetInputs
<1>1. DOMAIN Fleet = 1 .. input.n
  BY DEF Fleet
<1>2. \A r \in 1 .. input.n :
        /\ Eligible(Fleet[r], completed) <=> (r > input.stuck \/ seen)
        /\ StuckSince(Fleet[r], completed - input.k)
             = IF r <= input.stuck /\ lasted >= input.k THEN input.since ELSE 0
  BY <1>0, RepoOfFleet
<1>3. freeze =
        IF input.k <= 0 \/ ~input.ok THEN Inactive
        ELSE IF Cardinality(S) < StuckMinimum \/ 2 * Cardinality(S) < Cardinality(E)
          THEN counts
          ELSE [counts EXCEPT !.active = TRUE, !.since = since, !.days = completed - since]
  BY Zenon DEF FleetFreeze
<1> HIDE DEF completed, seen, lasted, freeze
<1>4. seen => E = 1 .. input.n
  BY <1>1, <1>2
<1>5. seen /\ lasted >= input.k => S = 1 .. input.stuck
  <2>1. SUFFICES ASSUME seen, lasted >= input.k PROVE S = 1 .. input.stuck
    OBVIOUS
  <2>2. \A r \in 1 .. input.n :
          StuckSince(Fleet[r], completed - input.k) # 0 <=> r <= input.stuck
    BY <1>0, <1>2, <2>1
  <2>3. S = {r \in 1 .. input.n : r <= input.stuck}
    BY <1>4, <2>1, <2>2
  <2>4. {r \in 1 .. input.n : r <= input.stuck} = 1 .. input.stuck
    BY <1>0
  <2> QED BY <2>3, <2>4
<1>6. ~(seen /\ lasted >= input.k) => S = {}
  <2>1. SUFFICES ASSUME ~(seen /\ lasted >= input.k), NEW r \in S PROVE FALSE
    OBVIOUS
  <2>2. r \in 1 .. input.n /\ (r > input.stuck \/ seen)
    BY <1>1, <1>2
  <2>3. StuckSince(Fleet[r], completed - input.k) = 0
    BY <1>2, <1>0, <2>1, <2>2
  <2> QED BY <2>3
<1>7. counts.active = FALSE /\ DOMAIN counts = {"active", "since", "days", "stuck", "eligible"}
  BY DEF Inactive
<1>8. Inactive.active = FALSE
  BY DEF Inactive
<1> HIDE DEF counts, E, S
<1>9. CASE seen /\ lasted >= input.k
  <2>1. Cardinality(E) = input.n /\ Cardinality(S) = input.stuck
    <3>1. Cardinality(1 .. input.n) = input.n /\ Cardinality(1 .. input.stuck) = input.stuck
      <4>1. \A m \in Nat : Cardinality(1 .. m) = m
        <5>1. SUFFICES ASSUME NEW m \in Nat PROVE Cardinality(1 .. m) = m
          OBVIOUS
        <5>2. Cardinality(1 .. m) = IF 1 > m THEN 0 ELSE m - 1 + 1
          BY FS_Interval
        <5> QED BY <5>2
      <4>2. input.n \in Nat /\ input.stuck \in Nat
        BY <1>0
      <4> QED BY <4>1, <4>2
    <3> QED BY <1>4, <1>5, <1>9, <3>1
  <2>2. PICK few \in BOOLEAN :
          few <=> (input.stuck < StuckMinimum \/ 2 * input.stuck < input.n)
    <3>1. CASE input.stuck < StuckMinimum \/ 2 * input.stuck < input.n
      BY <3>1
    <3>2. CASE ~(input.stuck < StuckMinimum \/ 2 * input.stuck < input.n)
      BY <3>2
    <3> QED BY <3>1, <3>2
  <2>3. freeze = IF ~input.ok THEN Inactive
                 ELSE IF few THEN counts
                   ELSE [counts EXCEPT !.active = TRUE, !.since = since,
                                       !.days = completed - since]
    <3>1. ~(input.k <= 0)
      BY <1>0
    <3> QED BY <1>3, <2>1, <2>2, <3>1
  <2>4. due <=> (input.ok /\ ~few)
    BY <1>0, <1>9, <2>2
  <2>5. ASSUME ~few PROVE since = input.since
    <3>1. 1 \in S
      BY <1>0, <1>5, <1>9, <2>2, <2>5
    <3>2. \A r \in S : StuckSince(Fleet[r], completed - input.k) = input.since
      BY <1>0, <1>2, <1>5, <1>9
    <3>3. {StuckSince(Fleet[r], completed - input.k) : r \in S} = {input.since}
      BY <3>1, <3>2
    <3>4. {0} \union {input.since} = {0, input.since} /\ input.since \in Nat
      BY <1>0
    <3> QED BY <3>3, <3>4, GreatestOfTwo
  <2> HIDE DEF since, due
  <2>6. CASE input.ok /\ ~few
    <3>1. freeze = [counts EXCEPT !.active = TRUE, !.since = since, !.days = completed - since]
      BY <2>3, <2>6
    <3>2. /\ freeze.active = TRUE /\ freeze.since = since
          /\ freeze.days = completed - since
      BY <1>7, <3>1
    <3>3. freeze.since = input.since /\ freeze.days = lasted
      BY <2>5, <2>6, <3>2 DEF completed, lasted
    <3> QED BY <2>4, <2>6, <3>2, <3>3 DEF freeze, due, seen, lasted
  <2>7. CASE ~(input.ok /\ ~few)
    <3>1. freeze.active = FALSE /\ ~due
      BY <1>7, <1>8, <2>3, <2>4, <2>7
    <3> QED BY <3>1 DEF freeze, due, seen, lasted
  <2> QED BY <2>6, <2>7
<1>10. CASE ~(seen /\ lasted >= input.k)
  <2>1. Cardinality(S) = 0
    BY <1>6, <1>10, FS_EmptySet
  <2>2. freeze = Inactive \/ freeze = counts
    BY <1>0, <1>3, <2>1
  <2>3. freeze.active = FALSE /\ ~due
    BY <1>7, <1>8, <1>10, <2>2
  <2> QED BY <2>3 DEF freeze, due, seen, lasted
<1> QED BY <1>9, <1>10

\* A freeze of half the fleet is reported from its K-th completed day on, with the days it has
\* lasted (DetectFleetUpstreamStale), whatever the size of the fleet, K, the window that makes a
\* repository count and the least number of repositories.
THEOREM FreezeAlwaysReported == ReportSpec => []FreezeReported
<1>1. ReportInit => FreezeReported
  BY FleetIs, FreezeFound DEF FreezeReported
<1>2. FreezeReported /\ [ReportNext]_input => FreezeReported'
  BY DEF ReportNext, FreezeReported, Is, Fleet, Frozen, Daily
<1> QED BY <1>1, <1>2, PTL DEF ReportSpec

-----------------------------------------------------------------------------
(* Pages                                                                    *)

\* What integer division says.
LEMMA Quotient ==
  ASSUME NEW a \in Nat, NEW b \in Nat \ {0}
  PROVE  /\ a \div b \in Nat
         /\ b * (a \div b) <= a
         /\ a < b * ((a \div b) + 1)
BY SMT

\* A multiple of a greater number is greater.
LEMMA Multiples ==
  ASSUME NEW a \in Nat, NEW b \in Nat, NEW c \in Nat, a <= b
  PROVE  a * c <= b * c /\ a * c \in Nat
BY SMT

\* A number that fits an int is itself.
LEMMA NoOverflow ==
  ASSUME NEW n \in Nat, n <= IntMax
  PROVE  Wrap(n) = n
BY ReportsAssumption, SMT DEF Wrap

\* The pages hold the list, and the last one is not empty.
LEMMA PageCount ==
  ASSUME NEW n \in Nat, NEW size \in Nat \ {0}
  PROVE  /\ TotalPages(n, size) \in Nat \ {0}
         /\ (TotalPages(n, size) - 1) * size <= n
         /\ n <= TotalPages(n, size) * size
         /\ n # 0 => (TotalPages(n, size) - 1) * size < n
<1> DEFINE q == (n + size - 1) \div size
<1>1. CASE n = 0
  <2>1. TotalPages(n, size) = 1
    BY <1>1 DEF TotalPages
  <2> QED BY <2>1, <1>1
<1>2. CASE n # 0
  <2>1. TotalPages(n, size) = q
    BY <1>2 DEF TotalPages
  <2>2. n + size - 1 \in Nat
    OBVIOUS
  <2>3. q \in Nat /\ size * q <= n + size - 1 /\ n + size - 1 < size * (q + 1)
    BY <2>2, Quotient
  <2> HIDE DEF q
  <2>4. size * (q + 1) = size * q + size /\ (q - 1) * size = size * q - size /\ q * size = size * q
    BY <2>3
  <2>5. size * q \in Nat
    BY <2>3
  <2>6. n <= size * q /\ size * q - size < n
    BY <2>3, <2>4, <2>5
  <2>7. q # 0
    BY <2>6, <1>2
  <2> QED BY <2>1, <2>3, <2>4, <2>6, <2>7
<1> QED BY <1>1, <1>2

\* Without overflow, a page starts where the pages before it end.
LEMMA PageBounds ==
  ASSUME NEW n \in Nat, NEW size \in 1 .. MaxPerPage, n + MaxPerPage <= IntMax,
         NEW p \in 1 .. TotalPages(n, size)
  PROVE  /\ Start(n, p, size) = (p - 1) * size
         /\ End(n, p, size) = AtMost(p * size, n)
         /\ (p - 1) * size \in Nat /\ (p - 1) * size <= n
         /\ n # 0 => (p - 1) * size < n
<1> DEFINE pages == TotalPages(n, size)
<1> DEFINE s == (p - 1) * size
<1>0. MaxPerPage \in Nat /\ IntMax \in Nat /\ size \in Nat \ {0}
  BY ReportsAssumption
<1>1. /\ pages \in Nat \ {0} /\ (pages - 1) * size <= n
      /\ n # 0 => (pages - 1) * size < n
  BY PageCount, <1>0
<1> HIDE DEF pages
<1>2. p \in Nat \ {0} /\ p <= pages
  BY <1>1 DEF pages
<1>3. p - 1 \in Nat /\ pages - 1 \in Nat /\ p - 1 <= pages - 1
  BY <1>1, <1>2
<1>4. s <= (pages - 1) * size /\ s \in Nat
  BY <1>3, <1>0, Multiples
<1>5. p * size = s + size
  BY <1>2, <1>0
<1>6. (pages - 1) * size \in Nat
  BY <1>3, <1>0, Multiples
<1> HIDE DEF s
<1>7. s <= n /\ (n # 0 => s < n)
  BY <1>1, <1>4, <1>6
<1>8. s <= IntMax /\ s + size \in Nat /\ s + size <= IntMax
  BY <1>7, <1>4, <1>0
<1>9. Wrap(s) = s /\ Wrap(s + size) = s + size
  BY <1>8, <1>4, NoOverflow
<1>10. Start(n, p, size) = s
  BY <1>9, <1>7, <1>4 DEF Start, s, AtMost
<1>11. End(n, p, size) = AtMost(s + size, n)
  BY <1>10, <1>9 DEF End
<1> QED BY <1>4, <1>5, <1>7, <1>10, <1>11 DEF s

\* The page size is capped, whatever is asked for.
LEMMA SizeAsked ==
  ASSUME NEW size \in Int
  PROVE  PerPageParam(size) \in 1 .. MaxPerPage
BY ReportsAssumption DEF PerPageParam, PositiveOr

\* Any page of any size that is asked for is inside the list (parseAPIReposQuery,
\* clampIndexPage, indexReposPageSlice): the slice expression does not panic.
THEOREM PagesAreInside ==
  \A n \in Nat, size, asked \in Int :
    n + MaxPerPage <= IntMax =>
      Sliceable(n, APIPage(n, PageParam(asked), PerPageParam(size)), PerPageParam(size))
<1> SUFFICES ASSUME NEW n \in Nat, NEW size \in Int, NEW asked \in Int, n + MaxPerPage <= IntMax
             PROVE  Sliceable(n, APIPage(n, PageParam(asked), PerPageParam(size)),
                              PerPageParam(size))
  OBVIOUS
<1>1. PICK z \in 1 .. MaxPerPage : z = PerPageParam(size)
  BY SizeAsked
<1>2. z \in Nat \ {0} /\ TotalPages(n, z) \in Nat \ {0}
  BY PageCount, ReportsAssumption
<1>3. PageParam(asked) \in Nat \ {0}
  BY DEF PageParam, PositiveOr
<1>4. PICK p \in 1 .. TotalPages(n, z) : p = APIPage(n, PageParam(asked), z)
  BY <1>2, <1>3 DEF APIPage, ClampPage, AtMost
<1>5. /\ Start(n, p, z) = (p - 1) * z /\ End(n, p, z) = AtMost(p * z, n)
      /\ (p - 1) * z \in Nat /\ (p - 1) * z <= n
  BY PageBounds
<1>6. p \in Nat /\ p * z = (p - 1) * z + z
  BY <1>2
<1>7. Sliceable(n, p, z)
  BY <1>5, <1>6, <1>2 DEF Sliceable, AtMost
<1> QED BY <1>1, <1>4, <1>7

\* The pages of the API are not empty, not longer than their size, side by side, and reach from
\* the first repository to the last (indexTotalPages, handleAPIRepos).
THEOREM PagesAdjoin ==
  \A n \in Nat, size \in 1 .. MaxPerPage :
    n + MaxPerPage <= IntMax =>
      LET pages == TotalPages(n, size)
      IN /\ Start(n, 1, size) = 0
         /\ End(n, pages, size) = n
         /\ \A p \in 1 .. pages - 1 : Start(n, p + 1, size) = End(n, p, size)
         /\ \A p \in 1 .. pages : /\ APIPage(n, p, size) = p
                                  /\ n # 0 => Start(n, p, size) < End(n, p, size)
                                  /\ End(n, p, size) - Start(n, p, size) <= size
<1> SUFFICES ASSUME NEW n \in Nat, NEW size \in 1 .. MaxPerPage, n + MaxPerPage <= IntMax
             PROVE  LET pages == TotalPages(n, size)
                    IN /\ Start(n, 1, size) = 0
                       /\ End(n, pages, size) = n
                       /\ \A p \in 1 .. pages - 1 : Start(n, p + 1, size) = End(n, p, size)
                       /\ \A p \in 1 .. pages :
                            /\ APIPage(n, p, size) = p
                            /\ n # 0 => Start(n, p, size) < End(n, p, size)
                            /\ End(n, p, size) - Start(n, p, size) <= size
  OBVIOUS
<1>0. size \in Nat \ {0}
  BY ReportsAssumption
<1>1. PICK pages \in Nat \ {0} : pages = TotalPages(n, size)
  BY <1>0, PageCount
<1>2. n <= pages * size
  BY <1>0, <1>1, PageCount
<1>3. \A p \in 1 .. pages :
        /\ Start(n, p, size) = (p - 1) * size /\ End(n, p, size) = AtMost(p * size, n)
        /\ (p - 1) * size \in Nat /\ (p - 1) * size <= n
        /\ n # 0 => (p - 1) * size < n
  BY <1>1, PageBounds
<1>4. \A p \in Nat : p * size \in Nat /\ p * size = (p - 1) * size + size
  BY <1>0
<1>5. Start(n, 1, size) = 0
  <2>1. (1 - 1) * size = 0
    BY <1>0
  <2> QED BY <2>1, <1>3
<1>6. End(n, pages, size) = n
  <2>1. End(n, pages, size) = AtMost(pages * size, n) /\ pages * size \in Nat
    BY <1>3, <1>4
  <2> QED BY <2>1, <1>2 DEF AtMost
<1>7. ASSUME NEW p \in 1 .. pages - 1
      PROVE  Start(n, p + 1, size) = End(n, p, size)
  <2>1. p \in 1 .. pages /\ p + 1 \in 1 .. pages /\ (p + 1) - 1 = p
    OBVIOUS
  <2>2. Start(n, p + 1, size) = p * size /\ p * size <= n /\ p * size \in Nat
    BY <1>3, <2>1
  <2>3. End(n, p, size) = AtMost(p * size, n)
    BY <1>3, <2>1
  <2> QED BY <2>2, <2>3 DEF AtMost
<1>8. ASSUME NEW p \in 1 .. pages
      PROVE  /\ APIPage(n, p, size) = p
             /\ n # 0 => Start(n, p, size) < End(n, p, size)
             /\ End(n, p, size) - Start(n, p, size) <= size
  <2>1. APIPage(n, p, size) = p
    BY <1>1 DEF APIPage, ClampPage, AtMost
  <2>2. PICK s \in Nat : s = (p - 1) * size
    BY <1>3
  <2>3. /\ Start(n, p, size) = s /\ End(n, p, size) = AtMost(s + size, n)
        /\ s <= n /\ (n # 0 => s < n)
    BY <2>2, <1>3, <1>4
  <2>4. /\ n # 0 => Start(n, p, size) < End(n, p, size)
        /\ End(n, p, size) - Start(n, p, size) <= size
    BY <2>3, <1>0 DEF AtMost
  <2> QED BY <2>1, <2>4
<1> QED BY <1>1, <1>5, <1>6, <1>7, <1>8

\* Those that come before r in a strict order that is given as a set of pairs.
Earlier(S, R, r) == {q \in S : <<q, r>> \in R}

StrictOrder(S, R) ==
  /\ \A x \in S : <<x, x>> \notin R
  /\ \A x, y \in S : x # y => <<x, y>> \in R \/ <<y, x>> \in R
  /\ \A x, y, z \in S : <<x, y>> \in R /\ <<y, z>> \in R => <<x, z>> \in R

\* s is S in the order R.
SortedBy(S, R, s) ==
  /\ s \in [1 .. Cardinality(S) -> S]
  /\ \A i, j \in 1 .. Cardinality(S) : i < j => <<s[i], s[j]>> \in R

-----------------------------------------------------------------------------
(* Ranks                                                                    *)

\* The numbers up to n are n numbers.
LEMMA Upto ==
  ASSUME NEW n \in Nat
  PROVE  IsFiniteSet(1 .. n) /\ Cardinality(1 .. n) = n
<1>1. Cardinality(1 .. n) = IF 1 > n THEN 0 ELSE n - 1 + 1
  BY FS_Interval
<1> QED BY <1>1, FS_Interval

\* A sorted sequence holds everything once.
LEMMA SortedIsOnto ==
  ASSUME NEW S, IsFiniteSet(S), NEW R, StrictOrder(S, R), NEW s, SortedBy(S, R, s)
  PROVE  /\ \A i, j \in 1 .. Cardinality(S) : s[i] = s[j] => i = j
         /\ \A x \in S : \E i \in 1 .. Cardinality(S) : s[i] = x
<1> DEFINE n == Cardinality(S)
<1>0. n \in Nat
  BY FS_CardinalityType
<1>1. ASSUME NEW i \in 1 .. n, NEW j \in 1 .. n, s[i] = s[j]
      PROVE  i = j
  <2>1. s[i] \in S /\ s[j] \in S
    BY DEF SortedBy
  <2>2. ~(i < j) /\ ~(j < i)
    BY <1>1, <2>1, Zenon DEF SortedBy, StrictOrder
  <2> QED BY <1>0, <2>2
<1>2. s \in Injection(1 .. n, S)
  BY <1>1, Zenon DEF SortedBy, Injection, IsInjective
<1>3. Cardinality(1 .. n) = Cardinality(S)
  BY <1>0, Upto
<1>4. s \in Surjection(1 .. n, S)
  BY <1>2, <1>3, FS_Injection
<1> QED BY <1>1, <1>4, Zenon DEF Surjection

\* The place of an element is the number of those before it, and one.
LEMMA PlaceIsRank ==
  ASSUME NEW S, IsFiniteSet(S), NEW R, StrictOrder(S, R), NEW s, SortedBy(S, R, s),
         NEW i \in 1 .. Cardinality(S)
  PROVE  i = 1 + Cardinality(Earlier(S, R, s[i]))
<1> DEFINE n == Cardinality(S)
<1> DEFINE A == Earlier(S, R, s[i])
<1> DEFINE f == [j \in 1 .. i - 1 |-> s[j]]
<1>0. n \in Nat /\ i \in Nat \ {0} /\ i - 1 \in Nat
  BY FS_CardinalityType
<1>1. \A j \in 1 .. i - 1 : j \in 1 .. n /\ j < i
  BY <1>0
<1>2. s \in [1 .. n -> S] /\ \A j, k \in 1 .. n : j < k => <<s[j], s[k]>> \in R
  BY DEF SortedBy
<1>3. f \in [1 .. i - 1 -> A]
  <2>1. \A j \in 1 .. i - 1 : s[j] \in A
    BY <1>1, <1>2, Zenon DEF Earlier
  <2> QED BY <2>1
<1>4. \A j, k \in 1 .. i - 1 : f[j] = f[k] => j = k
  BY <1>1, SortedIsOnto
<1>5. ASSUME NEW q \in A
      PROVE  \E j \in 1 .. i - 1 : f[j] = q
  <2>1. q \in S /\ <<q, s[i]>> \in R /\ s[i] \in S
    BY <1>2 DEF Earlier
  <2>2. PICK j \in 1 .. n : s[j] = q
    BY <2>1, SortedIsOnto
  <2>3. j # i
    BY <2>1, <2>2, Zenon DEF StrictOrder
  <2>4. ~(i < j)
    <3>1. SUFFICES ASSUME i < j PROVE FALSE
      OBVIOUS
    <3>2. <<s[i], s[j]>> \in R
      BY <1>2, <3>1
    <3> QED BY <2>1, <2>2, <3>2, Zenon DEF StrictOrder
  <2>5. j \in 1 .. i - 1
    BY <1>0, <2>3, <2>4
  <2> QED BY <2>2, <2>5
<1>6. f \in Bijection(1 .. i - 1, A)
  BY <1>3, <1>4, <1>5, Zenon DEF Bijection, Injection, Surjection, IsInjective
<1>7. IsFiniteSet(1 .. i - 1) /\ Cardinality(1 .. i - 1) = i - 1
  BY <1>0, Upto
<1> HIDE DEF f, A
<1>8. ExistsBijection(1 .. i - 1, A)
  BY <1>6, Zenon DEF ExistsBijection
<1>9. Cardinality(A) = i - 1
  BY <1>7, <1>8, FS_Bijection
<1> QED BY <1>0, <1>9 DEF A

\* A finite set can be sorted.
LEMMA SortExists ==
  ASSUME NEW S, IsFiniteSet(S), NEW R, StrictOrder(S, R)
  PROVE  \E s : SortedBy(S, R, s)
<1> DEFINE n == Cardinality(S)
<1> DEFINE place == [x \in S |-> 1 + Cardinality(Earlier(S, R, x))]
<1>0. n \in Nat
  BY FS_CardinalityType
<1>1. ASSUME NEW x \in S
      PROVE  /\ IsFiniteSet(Earlier(S, R, x)) /\ Cardinality(Earlier(S, R, x)) \in Nat
             /\ Cardinality(Earlier(S, R, x)) < n
  <2>1. Earlier(S, R, x) \subseteq S /\ x \notin Earlier(S, R, x)
    BY DEF Earlier, StrictOrder
  <2>2. Cardinality(Earlier(S, R, x)) <= n /\ IsFiniteSet(Earlier(S, R, x))
        /\ (n = Cardinality(Earlier(S, R, x)) => S = Earlier(S, R, x))
    BY <2>1, FS_Subset
  <2>3. Cardinality(Earlier(S, R, x)) \in Nat
    BY <2>2, FS_CardinalityType
  <2>4. n # Cardinality(Earlier(S, R, x))
    BY <2>1, <2>2
  <2> HIDE DEF n
  <2> QED BY <1>0, <2>2, <2>3, <2>4
<1>2. place \in [S -> 1 .. n]
  <2> HIDE DEF n
  <2>1. \A x \in S : 1 + Cardinality(Earlier(S, R, x)) \in 1 .. n
    BY <1>0, <1>1
  <2> QED BY <2>1
<1>3. ASSUME NEW x \in S, NEW y \in S, <<x, y>> \in R
      PROVE  place[x] < place[y]
  <2>1. Earlier(S, R, x) \subseteq Earlier(S, R, y) /\ Earlier(S, R, x) # Earlier(S, R, y)
    <3>1. x \in Earlier(S, R, y) /\ x \notin Earlier(S, R, x)
      BY <1>3, Zenon DEF Earlier, StrictOrder
    <3>2. \A q \in Earlier(S, R, x) : q \in Earlier(S, R, y)
      BY <1>3, Zenon DEF Earlier, StrictOrder
    <3> QED BY <3>1, <3>2, Zenon
  <2>2. /\ Cardinality(Earlier(S, R, x)) <= Cardinality(Earlier(S, R, y))
        /\ Cardinality(Earlier(S, R, x)) # Cardinality(Earlier(S, R, y))
    BY <1>1, <2>1, FS_Subset
  <2> HIDE DEF n
  <2>3. Cardinality(Earlier(S, R, x)) \in Nat /\ Cardinality(Earlier(S, R, y)) \in Nat
    BY <1>1
  <2> QED BY <2>2, <2>3
<1> HIDE DEF place
<1>4. ASSUME NEW x \in S, NEW y \in S, place[x] = place[y]
      PROVE  x = y
  <2>1. SUFFICES ASSUME x # y PROVE FALSE
    OBVIOUS
  <2>2. <<x, y>> \in R \/ <<y, x>> \in R
    BY <2>1 DEF StrictOrder
  <2>3. place[x] < place[y] \/ place[y] < place[x]
    BY <1>3, <2>2
  <2>4. place[x] \in Int /\ place[y] \in Int
    BY <1>2
  <2> QED BY <1>4, <2>3, <2>4
<1>5. place \in Injection(S, 1 .. n)
  BY <1>2, <1>4, Zenon DEF Injection, IsInjective
<1>6. IsFiniteSet(1 .. n) /\ Cardinality(S) = Cardinality(1 .. n)
  BY <1>0, Upto
<1>7. place \in Surjection(S, 1 .. n)
  BY <1>5, <1>6, FS_Injection
<1>8. \A i \in 1 .. n : \E x \in S : place[x] = i
  BY <1>7, Zenon DEF Surjection
<1> DEFINE s == [i \in 1 .. n |-> CHOOSE x \in S : place[x] = i]
<1>9. \A i \in 1 .. n : s[i] \in S /\ place[s[i]] = i
  BY <1>8, Zenon
<1>10. s \in [1 .. n -> S]
  BY <1>9, Zenon
<1> HIDE DEF s
<1>11. ASSUME NEW i \in 1 .. n, NEW j \in 1 .. n, i < j
       PROVE  <<s[i], s[j]>> \in R
  <2>1. s[i] \in S /\ s[j] \in S /\ place[s[i]] = i /\ place[s[j]] = j
    BY <1>9
  <2>2. s[i] # s[j]
    BY <1>11, <2>1
  <2>3. ~(<<s[j], s[i]>> \in R)
    <3>1. SUFFICES ASSUME <<s[j], s[i]>> \in R PROVE FALSE
      OBVIOUS
    <3>2. j < i
      BY <1>3, <2>1, <3>1
    <3> QED BY <1>0, <1>11, <3>2
  <2> QED BY <2>1, <2>2, <2>3, Zenon DEF StrictOrder
<1> QED BY <1>10, <1>11 DEF SortedBy

\* The order of the ranking as a set of pairs.
ByClones(clones, n) == {t \in (1 .. n) \X (1 .. n) : ClonesFirst(clones, t[1], t[2])}

\* Clones and, for equal clones, names order the repositories strictly.
LEMMA ClonesOrder ==
  ASSUME NEW n \in Nat, NEW clones \in [1 .. n -> Nat]
  PROVE  /\ \A x, y \in 1 .. n : <<x, y>> \in ByClones(clones, n) <=> ClonesFirst(clones, x, y)
         /\ StrictOrder(1 .. n, ByClones(clones, n))
<1>1. \A x, y \in 1 .. n : <<x, y>> \in ByClones(clones, n) <=> ClonesFirst(clones, x, y)
  BY DEF ByClones
<1>2. \A x \in 1 .. n : ~ClonesFirst(clones, x, x)
  BY DEF ClonesFirst
<1>3. \A x, y \in 1 .. n : x # y => ClonesFirst(clones, x, y) \/ ClonesFirst(clones, y, x)
  BY DEF ClonesFirst
<1>4. \A x, y, z \in 1 .. n :
        ClonesFirst(clones, x, y) /\ ClonesFirst(clones, y, z) => ClonesFirst(clones, x, z)
  BY DEF ClonesFirst
<1>5. StrictOrder(1 .. n, ByClones(clones, n))
  BY <1>1, <1>2, <1>3, <1>4, Zenon DEF StrictOrder
<1> QED BY <1>1, <1>5

\* A list of the repositories holds each of them once.
LEMMA Lists ==
  ASSUME NEW n \in Nat, NEW list \in SetToSeqs(1 .. n)
  PROVE  /\ list \in [1 .. n -> 1 .. n] /\ list \in Seq(1 .. n) /\ Len(list) = n
         /\ DOMAIN list = 1 .. n /\ ToSet(list) = 1 .. n
         /\ \A i, j \in 1 .. n : i # j => list[i] # list[j]
<1>1. IsFiniteSet(1 .. n) /\ Cardinality(1 .. n) = n
  BY Upto
<1>2. list \in [1 .. n -> 1 .. n] /\ \A i, j \in 1 .. n : i # j => list[i] # list[j]
  BY <1>1 DEF SetToSeqs
<1>3. list \in Injection(1 .. n, 1 .. n)
  BY <1>2, Zenon DEF Injection, IsInjective
<1>4. list \in Surjection(1 .. n, 1 .. n)
  BY <1>1, <1>3, FS_Injection
<1>5. \A x \in 1 .. n : \E i \in 1 .. n : list[i] = x
  BY <1>4, Zenon DEF Surjection
<1>6. DOMAIN list = 1 .. n
  BY <1>2
<1>7. ToSet(list) = 1 .. n
  <2>1. ToSet(list) = {list[i] : i \in 1 .. n}
    BY <1>6, Zenon DEF ToSet
  <2> QED BY <1>2, <1>5, <2>1
<1>8. list \in Seq(1 .. n) /\ Len(list) = n
  BY <1>2
<1> QED BY <1>2, <1>6, <1>7, <1>8

\* The ranking is the repositories in that order.
LEMMA RankingSorts ==
  ASSUME NEW n \in Nat, NEW clones \in [1 .. n -> Nat], NEW list \in SetToSeqs(1 .. n)
  PROVE  SortedBy(1 .. n, ByClones(clones, n), Ranking(list, clones))
<1> DEFINE R == ByClones(clones, n)
<1> DEFINE Ordered(sorted) ==
      \A i, j \in DOMAIN sorted : i < j => ClonesFirst(clones, sorted[i], sorted[j])
<1>1. IsFiniteSet(1 .. n) /\ Cardinality(1 .. n) = n
  BY Upto
<1>2. StrictOrder(1 .. n, R) /\
      \A x, y \in 1 .. n : <<x, y>> \in R <=> ClonesFirst(clones, x, y)
  BY ClonesOrder
<1> HIDE DEF R
<1>3. PICK s : SortedBy(1 .. n, R, s)
  BY <1>1, <1>2, SortExists
<1>4. s \in [1 .. n -> 1 .. n] /\ \A i, j \in 1 .. n : i < j => <<s[i], s[j]>> \in R
  BY <1>1, <1>3 DEF SortedBy
<1>5. \A i, j \in 1 .. n : s[i] = s[j] => i = j
  BY <1>1, <1>2, <1>3, SortedIsOnto
<1>6. s \in SetToSeqs(1 .. n)
  BY <1>1, <1>4, <1>5 DEF SetToSeqs
<1>7. DOMAIN s = 1 .. n
  BY <1>4
<1>8. Ordered(s)
  BY <1>2, <1>4, <1>7
<1>9. Ranking(list, clones) = CHOOSE sorted \in SetToSeqs(1 .. n) : Ordered(sorted)
  BY Lists DEF Ranking
<1> HIDE DEF Ordered
<1>10. PICK t : t = Ranking(list, clones)
  OBVIOUS
<1>11. t \in SetToSeqs(1 .. n) /\ Ordered(t)
  BY <1>6, <1>8, <1>9, <1>10, Zenon
<1>12. t \in [1 .. n -> 1 .. n]
  BY <1>1, <1>11 DEF SetToSeqs
<1>13. DOMAIN t = 1 .. n
  BY <1>12
<1>14. \A i, j \in 1 .. n : i < j => ClonesFirst(clones, t[i], t[j])
  BY <1>11, <1>13 DEF Ordered
<1>15. \A i, j \in 1 .. n : i < j => <<t[i], t[j]>> \in R
  BY <1>2, <1>12, <1>14
<1> QED BY <1>1, <1>10, <1>12, <1>15 DEF SortedBy, R

\* The rank of a repository is its place by clones, whatever the list is sorted by.
THEOREM RanksFollowClones ==
  \A n \in Nat : \A clones \in [1 .. n -> Nat], list \in SetToSeqs(1 .. n) :
    \A r \in 1 .. n : Rank(list, clones, r) = RankOf(clones, r)
<1> SUFFICES ASSUME NEW n \in Nat, NEW clones \in [1 .. n -> Nat],
                    NEW list \in SetToSeqs(1 .. n), NEW r \in 1 .. n
             PROVE  Rank(list, clones, r) = RankOf(clones, r)
  OBVIOUS
<1> DEFINE R == ByClones(clones, n)
<1>1. IsFiniteSet(1 .. n) /\ Cardinality(1 .. n) = n
  BY Upto
<1>2. StrictOrder(1 .. n, R) /\
      \A x, y \in 1 .. n : <<x, y>> \in R <=> ClonesFirst(clones, x, y)
  BY ClonesOrder
<1>3. PICK t : t = Ranking(list, clones)
  OBVIOUS
<1>4. SortedBy(1 .. n, R, t)
  BY <1>3, RankingSorts
<1> HIDE DEF R
<1>5. \E i \in 1 .. n : t[i] = r
  <2>1. \A x \in 1 .. n : \E i \in 1 .. Cardinality(1 .. n) : t[i] = x
    <3>1. PICK S : S = 1 .. n
      OBVIOUS
    <3>2. IsFiniteSet(S) /\ StrictOrder(S, R) /\ SortedBy(S, R, t)
      BY <1>1, <1>2, <1>4, <3>1, Zenon
    <3>3. \A x \in S : \E i \in 1 .. Cardinality(S) : t[i] = x
      BY <3>2, SortedIsOnto
    <3> QED BY <3>1, <3>3, Zenon
  <2> QED BY <1>1, <2>1
<1>6. Rank(list, clones, r) = CHOOSE i \in 1 .. n : t[i] = r
  BY <1>3, Lists DEF Rank
<1>7. PICK i : i = Rank(list, clones, r)
  OBVIOUS
<1>8. i \in 1 .. n /\ t[i] = r
  BY <1>5, <1>6, <1>7, Zenon
<1>9. i = 1 + Cardinality(Earlier(1 .. n, R, r))
  <2>1. i \in 1 .. Cardinality(1 .. n)
    BY <1>1, <1>8
  <2> QED BY <1>1, <1>2, <1>4, <1>8, <2>1, PlaceIsRank
<1>10. DOMAIN clones = 1 .. n
  OBVIOUS
<1>11. Earlier(1 .. n, R, r) = {s \in DOMAIN clones : ClonesFirst(clones, s, r)}
  BY <1>2, <1>10 DEF Earlier
<1> QED BY <1>7, <1>9, <1>11 DEF RankOf

-----------------------------------------------------------------------------
(* The pages are the list                                                   *)

\* What the recursion of FlattenSeq has to satisfy.
Flattens(seqs, g) ==
  g = [i \in 1 .. Len(seqs) |-> IF i = 1 THEN seqs[i] ELSE g[i - 1] \o seqs[i]]

\* A page is what the list holds between its bounds.
PageOf(list, size, p) == SubSeq(list, Start(Len(list), p, size) + 1, End(Len(list), p, size))

\* Two prefixes of a list that are one after the other.
LEMMA Appended ==
  ASSUME NEW S, NEW list \in Seq(S), NEW a \in 0 .. Len(list), NEW b \in a .. Len(list)
  PROVE  SubSeq(list, 1, a) \o SubSeq(list, a + 1, b) = SubSeq(list, 1, b)
<1> DEFINE left == SubSeq(list, 1, a)
<1> DEFINE right == SubSeq(list, a + 1, b)
<1> DEFINE both == SubSeq(list, 1, b)
<1>0. a \in Nat /\ b \in Nat /\ a <= b /\ Len(list) \in Nat /\ b <= Len(list)
  OBVIOUS
<1>1. \A i \in 1 .. Len(list) : list[i] \in S
  OBVIOUS
<1>2. left \in Seq(S) /\ Len(left) = a /\ \A i \in 1 .. a : left[i] = list[i]
  <2>1. \A i \in 1 .. a : list[i] \in S
    BY <1>0, <1>1
  <2>2. /\ left \in Seq(S) /\ Len(left) = IF 1 <= a THEN a - 1 + 1 ELSE 0
        /\ \A i \in 1 .. a - 1 + 1 : left[i] = list[1 + i - 1]
    BY <1>0, <2>1, SubSeqProperties
  <2> HIDE DEF left
  <2>3. \A i \in 1 .. a : i \in 1 .. a - 1 + 1 /\ 1 + i - 1 = i
    BY <1>0
  <2> QED BY <1>0, <2>2, <2>3
<1>3. both \in Seq(S) /\ Len(both) = b /\ \A i \in 1 .. b : both[i] = list[i]
  <2>1. \A i \in 1 .. b : list[i] \in S
    BY <1>0, <1>1
  <2>2. /\ both \in Seq(S) /\ Len(both) = IF 1 <= b THEN b - 1 + 1 ELSE 0
        /\ \A i \in 1 .. b - 1 + 1 : both[i] = list[1 + i - 1]
    BY <1>0, <2>1, SubSeqProperties
  <2> HIDE DEF both
  <2>3. \A i \in 1 .. b : i \in 1 .. b - 1 + 1 /\ 1 + i - 1 = i
    BY <1>0
  <2> QED BY <1>0, <2>2, <2>3
<1>4. right \in Seq(S) /\ Len(right) = b - a /\ \A i \in 1 .. b - a : right[i] = list[a + i]
  <2>1. \A i \in a + 1 .. b : list[i] \in S
    BY <1>0, <1>1
  <2>2. /\ right \in Seq(S) /\ Len(right) = IF a + 1 <= b THEN b - (a + 1) + 1 ELSE 0
        /\ \A i \in 1 .. b - (a + 1) + 1 : right[i] = list[(a + 1) + i - 1]
    BY <1>0, <2>1, SubSeqProperties
  <2> HIDE DEF right
  <2>3. \A i \in 1 .. b - a : i \in 1 .. b - (a + 1) + 1 /\ (a + 1) + i - 1 = a + i
    BY <1>0
  <2> QED BY <1>0, <2>2, <2>3
<1> HIDE DEF left, right, both
<1>5. /\ left \o right \in Seq(S) /\ Len(left \o right) = a + (b - a)
      /\ \A i \in 1 .. a + (b - a) :
           (left \o right)[i] = IF i <= a THEN left[i] ELSE right[i - a]
  <2>1. /\ left \o right \in Seq(S) /\ Len(left \o right) = Len(left) + Len(right)
        /\ \A i \in 1 .. Len(left) + Len(right) :
             (left \o right)[i] = IF i <= Len(left) THEN left[i] ELSE right[i - Len(left)]
    BY <1>2, <1>4, ConcatProperties, Zenon
  <2>2. Len(left) = a /\ Len(right) = b - a
    BY <1>2, <1>4
  <2> QED BY <2>1, <2>2, Zenon
<1>6. PICK whole \in Seq(S) : whole = left \o right
  BY <1>5
<1>7. Len(whole) = b
  BY <1>0, <1>5, <1>6
<1>8. ASSUME NEW i \in 1 .. b
      PROVE  whole[i] = both[i]
  <2>1. i \in 1 .. a + (b - a)
    BY <1>0
  <2>2. whole[i] = IF i <= a THEN left[i] ELSE right[i - a]
    BY <1>5, <1>6, <2>1
  <2>3. CASE i <= a
    <3>1. i \in 1 .. a
      BY <2>3
    <3> QED BY <2>2, <2>3, <3>1, <1>2, <1>3
  <2>4. CASE ~(i <= a)
    <3>1. i - a \in 1 .. b - a /\ a + (i - a) = i
      BY <1>0, <2>4
    <3>2. right[i - a] = list[a + (i - a)]
      BY <1>4, <3>1
    <3>3. both[i] = list[i]
      BY <1>3
    <3> QED BY <2>2, <2>4, <3>1, <3>2, <3>3
  <2> QED BY <2>3, <2>4
<1>9. whole = both
  <2>1. DOMAIN whole = 1 .. b /\ DOMAIN both = 1 .. b
    BY <1>3, <1>6, <1>7
  <2> QED BY <1>3, <1>6, <1>8, <2>1
<1> QED BY <1>6, <1>9 DEF left, right, both

\* What FlattenSeq computes, whoever gives it.
LEMMA FlattenIs ==
  ASSUME NEW m \in Nat \ {0}, NEW seqs, Len(seqs) = m, NEW h,
         Flattens(seqs, h)
  PROVE  FlattenSeq(seqs) = h[m]
<1> DEFINE g == CHOOSE f : Flattens(seqs, f)
<1>1. Flattens(seqs, g)
  BY Zenon
<1>2. FlattenSeq(seqs) = g[Len(seqs)]
  BY DEF FlattenSeq, Flattens
<1> HIDE DEF g
<1>3. \A i \in 1 .. m : g[i] = IF i = 1 THEN seqs[i] ELSE g[i - 1] \o seqs[i]
  BY <1>1, Zenon DEF Flattens
<1>4. \A i \in 1 .. m : h[i] = IF i = 1 THEN seqs[i] ELSE h[i - 1] \o seqs[i]
  BY Zenon DEF Flattens
<1> DEFINE D == {i \in 1 .. m : g[i] # h[i]}
<1>5. D = {}
  <2>1. SUFFICES ASSUME D # {} PROVE FALSE
    OBVIOUS
  <2>2. D \subseteq Nat
    OBVIOUS
  <2>3. PICK i \in D : \A j \in D : i <= j
    BY <2>1, <2>2, HasMin
  <2>4. i \in 1 .. m /\ g[i] # h[i]
    OBVIOUS
  <2>5. CASE i = 1
    BY <2>4, <2>5, <1>3, <1>4
  <2>6. CASE i # 1
    <3>1. i - 1 \in 1 .. m /\ ~(i <= i - 1)
      BY <2>4, <2>6
    <3>2. g[i - 1] = h[i - 1]
      BY <2>3, <3>1
    <3> QED BY <2>4, <2>6, <3>2, <1>3, <1>4, Zenon
  <2> QED BY <2>5, <2>6
<1>6. g[m] = h[m]
  <2>1. m \in 1 .. m
    OBVIOUS
  <2> QED BY <1>5, <2>1
<1> QED BY <1>2, <1>6

\* The pages are where PagesAdjoin says.
LEMMA PageIs ==
  ASSUME NEW list, NEW size \in 1 .. MaxPerPage, Len(list) \in Nat,
         Len(list) + MaxPerPage <= IntMax
  PROVE  /\ Len(Pages(list, size)) = TotalPages(Len(list), size)
         /\ \A p \in 1 .. TotalPages(Len(list), size) : Pages(list, size)[p] = PageOf(list, size, p)
<1>0. size \in Nat \ {0}
  BY ReportsAssumption
<1>1. PICK n \in Nat : n = Len(list)
  OBVIOUS
<1>2. PICK m \in Nat \ {0} : m = TotalPages(n, size)
  BY <1>0, <1>1, PageCount
<1>3. \A p \in 1 .. m : APIPage(n, p, size) = p
  BY <1>1, <1>2, PagesAdjoin
<1>4. Pages(list, size) = [p \in 1 .. m |-> Slice(list, APIPage(n, p, size), size)]
  BY <1>1, <1>2 DEF Pages
<1>5. Len(Pages(list, size)) = m
  BY <1>4
<1>6. \A p \in 1 .. m : Pages(list, size)[p] = PageOf(list, size, p)
  BY <1>3, <1>4, Zenon DEF Slice, PageOf
<1> QED BY <1>1, <1>2, <1>5, <1>6

\* The pages of a list, one after the other, are the list.
THEOREM PagesAreTheList ==
  \A list \in Seq(Nat), size \in 1 .. MaxPerPage :
    Len(list) + MaxPerPage <= IntMax => FlattenSeq(Pages(list, size)) = list
<1> SUFFICES ASSUME NEW list \in Seq(Nat), NEW size \in 1 .. MaxPerPage,
                    Len(list) + MaxPerPage <= IntMax
             PROVE  FlattenSeq(Pages(list, size)) = list
  OBVIOUS
<1>0. size \in Nat \ {0}
  BY ReportsAssumption
<1>1. PICK n \in Nat : n = Len(list)
  OBVIOUS
<1>2. PICK m \in Nat \ {0} : m = TotalPages(n, size)
  BY <1>0, <1>1, PageCount
<1>3. /\ Start(n, 1, size) = 0 /\ End(n, m, size) = n
      /\ \A p \in 1 .. m - 1 : Start(n, p + 1, size) = End(n, p, size)
  BY <1>1, <1>2, PagesAdjoin
<1>4. PICK seqs : seqs = Pages(list, size)
  OBVIOUS
<1>5. Len(seqs) = m /\ \A p \in 1 .. m : seqs[p] = PageOf(list, size, p)
  BY <1>1, <1>2, <1>4, PageIs
<1>6. \A p \in 1 .. m : seqs[p] = SubSeq(list, Start(n, p, size) + 1, End(n, p, size))
  BY <1>1, <1>5 DEF PageOf
<1>7. ASSUME NEW p \in 1 .. m
      PROVE  /\ Start(n, p, size) \in 0 .. n
             /\ End(n, p, size) \in Start(n, p, size) .. n
  <2>1. PICK s \in Nat : s = (p - 1) * size
    BY <1>1, <1>2, PageBounds
  <2>2. p * size = s + size
    BY <1>0, <1>2, <2>1
  <2>3. Start(n, p, size) = s /\ End(n, p, size) = AtMost(s + size, n) /\ s <= n
    BY <1>1, <1>2, <2>1, <2>2, PageBounds
  <2> QED BY <1>0, <2>3 DEF AtMost
<1> DEFINE h == [p \in 1 .. m |-> SubSeq(list, 1, End(n, p, size))]
<1>8. ASSUME NEW p \in 1 .. m
      PROVE  h[p] = IF p = 1 THEN seqs[p] ELSE h[p - 1] \o seqs[p]
  <2>1. h[p] = SubSeq(list, 1, End(n, p, size))
    OBVIOUS
  <2>2. CASE p = 1
    <3>1. Start(n, p, size) + 1 = 1
      BY <1>3, <2>2
    <3> QED BY <2>1, <2>2, <3>1, <1>6
  <2>3. CASE p # 1
    <3>1. p - 1 \in 1 .. m - 1 /\ p - 1 \in 1 .. m /\ (p - 1) + 1 = p
      BY <2>3
    <3>2. Start(n, p, size) = End(n, p - 1, size)
      BY <1>3, <3>1
    <3>3. h[p - 1] = SubSeq(list, 1, End(n, p - 1, size))
      BY <3>1
    <3>4. seqs[p] = SubSeq(list, Start(n, p, size) + 1, End(n, p, size))
      BY <1>6
    <3>5. PICK a \in 0 .. n : a = Start(n, p, size)
      BY <1>7
    <3>6. PICK b \in a .. n : b = End(n, p, size)
      BY <1>7, <3>5
    <3>7. SubSeq(list, 1, a) \o SubSeq(list, a + 1, b) = SubSeq(list, 1, b)
      BY <1>1, Appended
    <3> HIDE DEF h
    <3> QED BY <2>1, <2>3, <3>2, <3>3, <3>4, <3>5, <3>6, <3>7, Zenon
  <2> QED BY <2>2, <2>3
<1>9. Flattens(seqs, h)
  <2>1. \A p \in 1 .. m : h[p] = IF p = 1 THEN seqs[p] ELSE h[p - 1] \o seqs[p]
    BY <1>8
  <2>2. h = [p \in 1 .. m |-> h[p]]
    OBVIOUS
  <2> HIDE DEF h
  <2>3. h = [p \in 1 .. m |-> IF p = 1 THEN seqs[p] ELSE h[p - 1] \o seqs[p]]
    BY <2>1, <2>2, Zenon
  <2> QED BY <1>5, <2>3, Zenon DEF Flattens
<1>10. FlattenSeq(seqs) = h[m]
  <2> HIDE DEF h
  <2> QED BY <1>5, <1>9, FlattenIs
<1>11. h[m] = SubSeq(list, 1, n)
  <2>1. m \in 1 .. m
    OBVIOUS
  <2> QED BY <1>3, <2>1
<1>12. SubSeq(list, 1, n) = list
  BY <1>1, SubSeqFull
<1> QED BY <1>4, <1>10, <1>11, <1>12

\* The index is shown whole and ranked by clones.
THEOREM PagesAlwaysPartition == ReportSpec => []PagesPartition
<1>1. ReportInit => PagesPartition
  <2>1. SUFFICES ASSUME ReportInit, Is("index") PROVE PagesPartition
    BY DEF PagesPartition
  <2>2. IndexInput
    BY <2>1, Kinds
  <2>3. PICK n \in 0 .. MaxRepos : \E clones \in [1 .. n -> Counts], list \in SetToSeqs(1 .. n) :
          input = [kind |-> "index", clones |-> clones, list |-> list]
    BY <2>2 DEF IndexInput
  <2>4. PICK clones \in [1 .. n -> Counts], list \in SetToSeqs(1 .. n) :
          input = [kind |-> "index", clones |-> clones, list |-> list]
    BY <2>3
  <2>5. input.clones = clones /\ input.list = list
    BY <2>4
  <2>6. n \in Nat /\ n + MaxPerPage <= IntMax
    BY InputAssumption, ReportsAssumption
  <2>7. list \in Seq(1 .. n) /\ Len(list) = n
    BY <2>6, Lists
  <2>8. list \in Seq(Nat)
    BY <2>6, <2>7
  <2>9. clones \in [1 .. n -> Nat] /\ DOMAIN clones = 1 .. n
    BY InputAssumption DEF Counts
  <2>10. PagesInside(n)
    <3>1. MaxPerPage \in Nat /\ IntMax \in Nat
      BY ReportsAssumption
    <3>2. \A s \in -1 .. MaxPerPage + 1 : s \in Int
      BY <3>1
    <3>3. \A p \in -IntMax .. IntMax : p \in Int
      BY <3>1
    <3> QED BY <2>6, <3>2, <3>3, PagesAreInside, Zenon DEF PagesInside
  <2>11. \A size \in 1 .. MaxPerPage : FlattenSeq(Pages(list, size)) = list
    BY <2>6, <2>7, <2>8, PagesAreTheList
  <2>12. \A r \in 1 .. n : Rank(list, clones, r) = RankOf(clones, r)
    BY <2>6, <2>9, RanksFollowClones
  <2> QED BY <2>5, <2>7, <2>9, <2>10, <2>11, <2>12, Zenon DEF PagesPartition
<1>2. PagesPartition /\ [ReportNext]_input => PagesPartition'
  <2>1. SUFFICES ASSUME PagesPartition, input' = input PROVE PagesPartition'
    BY DEF ReportNext
  <2> QED BY <2>1 DEF PagesPartition, Is
<1> QED BY <1>1, <1>2, PTL DEF ReportSpec
=============================================================================
