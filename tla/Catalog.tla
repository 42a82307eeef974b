------------------------------- MODULE Catalog -------------------------------
(***************************************************************************)
(* Which repositories are collected, shown and showcased: the filter and   *)
(* the pins (internal/sync/sync.go, internal/sync/catalog.go), the report  *)
(* boundary (internal/store/report_visibility.go), the Featured showcase   *)
(* (internal/store/catalog.go) and the commands that steer them            *)
(* (cmd/gghstats/catalog.go).                                              *)
(*                                                                         *)
(* A sync, the operator's commands (processes of their own on the same     *)
(* file) and the pages interleave at the granularity of SQL statements and *)
(* GitHub requests; meanwhile repositories change on GitHub.               *)
(***************************************************************************)
EXTENDS Naturals, Sequences, FiniteSets, FiniteSetsExt, SequencesExt

CONSTANTS
  Repos,
  Forks,           \* the repositories that are forks
  Filter,          \* GGHSTATS_FILTER: [include, exclude, noForks]
  CollectPrivate,  \* GGHSTATS_INCLUDE_PRIVATE
  ReportPrivate,   \* GGHSTATS_REPORT_PRIVATE
  Unfetched,       \* the metadata of a repository known by name only
  NoRow,
  FeaturedBefore,  \* the showcase as the operator left it, a sequence
  MaxCommands,     \* bound: operator commands
  MaxMoves,        \* bound: changes on GitHub
  MaxRuns          \* bound: sync runs

Visibilities == {"public", "private", "unknown"}
Policies == {"inherit", "include", "exclude"}

ASSUME CatalogAssumption ==
  /\ Forks \subseteq Repos
  /\ FeaturedBefore \in Seq(Repos) /\ IsInjective(FeaturedBefore)
  /\ CollectPrivate \in BOOLEAN /\ ReportPrivate \in BOOLEAN
  /\ Unfetched \notin {"public", "private", "internal", "gone"}
  /\ NoRow \notin [visibility : Visibilities, policy : Policies]
  /\ MaxCommands \in Nat /\ MaxMoves \in Nat /\ MaxRuns \in Nat

VARIABLES
  github,    \* what each repository is on GitHub: public, private, internal, gone
  rows,      \* repos table: [visibility, policy] or NoRow
  pins,      \* pins table, in order of insertion
  featured,  \* featured table: [name, sort, upstream]
  sync,      \* the sync run: what is left to do
  page,      \* a page being built
  commands, moves, runs,
  wasPublic, \* history: the repositories that ever were public on GitHub
  showcase,  \* history: when the operator featured each repository, 0 if it is not
  settled    \* history: private on GitHub through a whole successful run and since

store == <<rows, pins, featured>>
bounds == <<commands, moves, runs>>
history == <<wasPublic, showcase, settled>>
vars == <<github, store, sync, page, bounds, history>>

NoSync == [at |-> "idle", full |-> FALSE, left |-> {}, list |-> {}, private |-> {}, ok |-> TRUE]
NoPage == [at |-> "idle", left |-> {}, shown |-> {}, banned |-> {}]

-----------------------------------------------------------------------------
(* Decisions                                                                *)

\* Mutant of NormalizeVisibility: what is not private is public.
NormalizeVisibility_Open(v) == IF v = "private" THEN "private" ELSE "public"

\* NormalizeGitHubVisibility: an unmodelled class is unknown.
NormalizeVisibility(v) == IF v \in {"public", "private"} THEN v ELSE "unknown"

\* reportVisible: exclude hides, include shows, inherit follows the visibility;
\* unknown is never inherited.
Reportable(r) ==
  /\ rows[r] # NoRow
  /\ rows[r].policy # "exclude"
  /\ \/ rows[r].policy = "include"
     \/ rows[r].visibility = "public"
     \/ rows[r].visibility = "private" /\ ReportPrivate

\* applyFilter, shouldIncludeRepo: include is the set of the names its patterns
\* match, all of them when there is none but "*".
Selected(r) ==
  /\ ~(Filter.noForks /\ r \in Forks)
  /\ r \notin Filter.exclude
  /\ r \in Filter.include

\* ListRepos of the GitHub client asks for visibility=public or all.
Listed == {r \in Repos : \/ github[r] = "public"
                         \/ github[r] \in {"private", "internal"} /\ CollectPrivate}

Known(r) == [name |-> r, visibility |-> github[r]]
ByName(r) == [name |-> r, visibility |-> Unfetched]

-----------------------------------------------------------------------------
(* A sync run                                                               *)

\* resolveRepos of a full run: the filtered list, with its metadata.
ResolveFilter ==
  /\ sync.at = "idle" /\ runs < MaxRuns
  /\ runs' = runs + 1
  /\ sync' = [NoSync EXCEPT !.at = "pins", !.full = TRUE,
                            !.left = {Known(r) : r \in {q \in Listed : Selected(q)}},
                            !.private = {r \in Repos : github[r] = "private"}]
  /\ UNCHANGED <<github, store, page, commands, moves, history>>

\* Mutant of MergePins: a pinned repository is tracked twice.
MergePins_Twice ==
  /\ sync.at = "pins"
  /\ sync' = [sync EXCEPT !.at = "repos", !.left = @ \union {ByName(p) : p \in ToSet(pins)}]
  /\ UNCHANGED <<github, store, page, bounds, history>>

\* resolveTracked: the pins that the filter did not bring, by name.
MergePins ==
  /\ sync.at = "pins"
  /\ sync' = [sync EXCEPT !.at = "repos",
       !.left = @ \union {ByName(p) : p \in ToSet(pins) \ {x.name : x \in sync.left}}]
  /\ UNCHANGED <<github, store, page, bounds, history>>

\* resolveTracked of a run for one repository: pins are not merged.
ResolveOne(r) ==
  /\ sync.at = "idle" /\ runs < MaxRuns
  /\ runs' = runs + 1
  /\ sync' = [NoSync EXCEPT !.at = "repos", !.left = {ByName(r)}]
  /\ UNCHANGED <<github, store, page, commands, moves, history>>

\* Mutant of Upserted: a refresh resets the operator's decision.
Upserted_Policy(r, v) == [visibility |-> NormalizeVisibility(v), policy |-> "inherit"]

\* UpsertRepoWithVisibility: one statement; the policy of a row is left alone.
Upserted(r, v) ==
  [visibility |-> NormalizeVisibility(v),
   policy |-> IF rows[r] = NoRow THEN "inherit" ELSE rows[r].policy]

\* syncRepo: ensureRepoMetadata fetches what is known by name only; then the row
\* is written, with the visibility of the list when it came from the list.
SyncRepo(x) ==
  /\ sync.at = "repos" /\ x \in sync.left
  /\ LET v == IF x.visibility = Unfetched THEN github[x.name] ELSE x.visibility
     IN /\ v # "gone"
        /\ rows' = [rows EXCEPT ![x.name] = Upserted(x.name, v)]
  /\ sync' = [sync EXCEPT !.left = @ \ {x}]
  /\ UNCHANGED <<github, pins, featured, page, bounds, history>>

\* A request or a write of the repository fails, or GitHub does not know it.
SyncRepoFails(x) ==
  /\ sync.at = "repos" /\ x \in sync.left
  /\ sync' = [sync EXCEPT !.left = @ \ {x}, !.ok = FALSE]
  /\ UNCHANGED <<github, store, page, bounds, history>>

\* syncFeaturedMeta: ListFeatured.
ListShowcase ==
  /\ sync.at = "repos" /\ sync.left = {}
  /\ sync' = [sync EXCEPT !.at = "featured", !.list = {f.name : f \in featured}]
  /\ UNCHANGED <<github, store, page, bounds, history>>

\* UpsertFeaturedMeta: an UPDATE of the row if it is still there; the upstream is
\* the parent of a fork unless its request fails.
RefreshShowcase(r) ==
  /\ sync.at = "featured" /\ r \in sync.list
  /\ \E up \in {"itself"} \union (IF r \in Forks THEN {"parent"} ELSE {}) :
       featured' = {IF f.name = r /\ github[r] # "gone" THEN [f EXCEPT !.upstream = up] ELSE f :
                    f \in featured}
  /\ sync' = [sync EXCEPT !.list = @ \ {r}]
  /\ UNCHANGED <<github, rows, pins, page, bounds, history>>

EndSync ==
  /\ sync.at = "featured" /\ sync.list = {}
  /\ sync' = NoSync
  /\ settled' = IF sync.full /\ sync.ok THEN settled \union sync.private ELSE settled
  /\ UNCHANGED <<github, store, page, bounds, wasPublic, showcase>>

-----------------------------------------------------------------------------
(* The operator's commands: one statement each                              *)

Command ==
  /\ commands < MaxCommands
  /\ commands' = commands + 1
  /\ UNCHANGED <<github, sync, moves, runs, wasPublic, settled>>

\* AddPin, idempotent; RemovePin.
Pin(r) ==
  /\ Command
  /\ pins' = IF r \in ToSet(pins) THEN pins ELSE Append(pins, r)
  /\ UNCHANGED <<rows, featured, page, showcase>>
Unpin(r) ==
  /\ Command
  /\ pins' = SelectSeq(pins, LAMBDA p : p # r)
  /\ UNCHANGED <<rows, featured, page, showcase>>

\* Mutant of NextSort: the number of rows.
NextSort_Count == Cardinality(featured)

\* COALESCE(MAX(sort)+1, 0)
NextSort == Max({f.sort + 1 : f \in featured} \union {0})

\* AddFeatured, ON CONFLICT DO NOTHING; RemoveFeatured.
Feature(r) ==
  /\ Command
  /\ LET new == \A f \in featured : f.name # r
     IN /\ featured' = IF new
             THEN featured \union {[name |-> r, sort |-> NextSort, upstream |-> "none"]}
             ELSE featured
        /\ showcase' = IF new THEN [showcase EXCEPT ![r] = Len(FeaturedBefore) + commands']
                       ELSE showcase
  /\ UNCHANGED <<rows, pins, page>>
Unfeature(r) ==
  /\ Command
  /\ featured' = {f \in featured : f.name # r}
  /\ showcase' = [showcase EXCEPT ![r] = 0]
  /\ UNCHANGED <<rows, pins, page>>

\* SetRepoReportPolicy: only for a repository that has a row.
SetPolicy(r, p) ==
  /\ Command
  /\ rows[r] # NoRow
  /\ rows' = [rows EXCEPT ![r].policy = p]
  /\ page' = [page EXCEPT !.banned = @ \ {r}]
  /\ UNCHANGED <<pins, featured, showcase>>

-----------------------------------------------------------------------------
(* A page                                                                   *)

\* ListReportRepos lists the rows; ReportRepoByName has a single name.
OpenPage(names) ==
  /\ page.at = "idle"
  /\ page' = [NoPage EXCEPT !.at = "rows", !.left = {r \in names : rows[r] # NoRow},
       !.banned = {r \in Repos : rows[r] # NoRow /\ rows[r].policy = "exclude"}]
  /\ UNCHANGED <<github, store, sync, bounds, history>>

\* reportVisible: a query of its own for every row of the list.
CheckRow(r) ==
  /\ page.at = "rows" /\ r \in page.left
  /\ page' = [page EXCEPT !.left = @ \ {r},
                          !.shown = IF Reportable(r) THEN @ \union {r} ELSE @]
  /\ UNCHANGED <<github, store, sync, bounds, history>>

SendPage ==
  /\ page.at = "rows" /\ page.left = {}
  /\ page' = NoPage
  /\ UNCHANGED <<github, store, sync, bounds, history>>

\* A repository changes on GitHub.
Move(r, v) ==
  /\ moves < MaxMoves /\ github[r] # v
  /\ moves' = moves + 1
  /\ github' = [github EXCEPT ![r] = v]
  /\ wasPublic' = IF v = "public" THEN wasPublic \union {r} ELSE wasPublic
  /\ settled' = settled \ {r}
  /\ sync' = [sync EXCEPT !.private = @ \ {r}]
  /\ UNCHANGED <<store, page, commands, runs, showcase>>

\* Earlier runs have synced some of the repositories.
Init ==
  /\ github \in [Repos -> {"public", "private"}]
  /\ \E synced \in SUBSET Repos :
       rows = [r \in Repos |-> IF r \in synced THEN [visibility |-> github[r], policy |-> "inherit"]
                               ELSE NoRow]
  /\ pins = <<>>
  /\ featured = {[name |-> FeaturedBefore[i], sort |-> i - 1, upstream |-> "none"] :
                 i \in DOMAIN FeaturedBefore}
  /\ sync = NoSync /\ page = NoPage
  /\ commands = 0 /\ moves = 0 /\ runs = 0
  /\ wasPublic = {r \in Repos : github[r] = "public"}
  /\ showcase = [r \in Repos |-> IF r \in ToSet(FeaturedBefore)
                                   THEN CHOOSE i \in DOMAIN FeaturedBefore : FeaturedBefore[i] = r
                                 ELSE 0]
  /\ settled = {}

SyncStep ==
  \/ ResolveFilter \/ MergePins \/ ListShowcase \/ EndSync
  \/ \E r \in Repos : ResolveOne(r) \/ RefreshShowcase(r)
  \/ \E x \in sync.left : SyncRepo(x) \/ SyncRepoFails(x)

Operator ==
  \E r \in Repos :
    \/ Pin(r) \/ Unpin(r) \/ Feature(r) \/ Unfeature(r)
    \/ \E p \in Policies : SetPolicy(r, p)

Page ==
  \/ OpenPage(Repos) \/ SendPage
  \/ \E r \in Repos : OpenPage({r}) \/ CheckRow(r)

Next ==
  \/ SyncStep \/ Operator \/ Page
  \/ \E r \in Repos, v \in {"public", "private", "internal", "gone"} : Move(r, v)

Spec == Init /\ [][Next]_vars

-----------------------------------------------------------------------------
(* Properties                                                               *)

TypeOK ==
  /\ rows \in [Repos -> [visibility : Visibilities, policy : Policies] \union {NoRow}]
  /\ IsInjective(pins) /\ ToSet(pins) \subseteq Repos
  /\ \A f, g \in featured : f.name = g.name => f = g
  /\ page.shown \subseteq Repos /\ settled \subseteq Repos

\* "exclude always hides": a page begun after the operator excluded a repository
\* does not show it, whatever syncs refresh its row meanwhile.
ExcludedHidden == page.shown \intersect page.banned = {}

\* "Avoiding a window where a private repository could be reportable": what was
\* never public on GitHub and not included by the operator is on no page, not even
\* while its row is written for the first time or GitHub calls it internal.
NeverPublicHidden ==
  ~ReportPrivate =>
    \A r \in Repos : Reportable(r) => r \in wasPublic \/ rows[r].policy = "include"

\* "Union of empty pins = no-op": a run has every repository once, whether the
\* filter or a pin brought it, so that two workers never sync the same one.
TrackedOnce == \A x, y \in sync.left : x.name = y.name => x = y

\* The showcase is the operator's list in the operator's order: the refresh of a
\* run never brings a removed entry back, and after any removals a new entry is
\* the last one (ORDER BY sort, name).
ShowcaseOrdered ==
  /\ {f.name : f \in featured} = {r \in Repos : showcase[r] > 0}
  /\ \A f, g \in featured : showcase[f.name] < showcase[g.name] => f.sort < g.sort

\* "Private repositories need GGHSTATS_REPORT_PRIVATE=true or an explicit include"
\* (README): a repository that was private throughout a successful full run, and
\* since, is not shown.
PrivateHiddenAfterSync ==
  ~ReportPrivate =>
    \A r \in settled : Reportable(r) => rows[r].policy = "include"
=============================================================================
