----------------------------- MODULE RequestPath -----------------------------
(***************************************************************************)
(* The way of an HTTP request through internal/server: the rate limiter    *)
(* with its cleanup goroutine (ratelimit.go), the IP whitelist             *)
(* (whitelist.go, trusted.go, middleware_skip.go), the guards of the       *)
(* routes (server.go, token.go) and the one handler that changes stored    *)
(* state, the settings editor with its sessions and its file               *)
(* (settings.go).                                                          *)
(*                                                                         *)
(* Every handler runs in a goroutine of its own.  The limiter map is a     *)
(* sync.Map: a lookup, the refresh of lastSeen, the check of the cleanup   *)
(* and its Delete are separate atomic steps.  A token bucket is            *)
(* golang.org/x/time/rate.  The process may die at any step and starts     *)
(* again with the file it left.                                            *)
(***************************************************************************)
EXTENDS Naturals, FiniteSets, FiniteSetsExt

CONSTANTS
  Handlers,    \* goroutines of net/http
  IPs,         \* addresses of clients and proxies
  Loopback,    \* the loopback addresses
  Configs,     \* configurations: [token, localOnly, trusted, whitelist, scope, limited],
               \* and in clients the requests they get: [path, peer, xff, realIP, token, update]
  Locales,     \* enabled locales; the first start uses DefaultLocale
  DefaultLocale,
  NoOne, NoIP, NoHeader,
  Garbage,     \* a header that holds no address
  Burst, Rate, \* bucket size, tokens per tick
  MaxIdle,     \* ticks a bucket may stay unused
  Patience,    \* ticks a request may take from the lookup of its bucket to its token
  SessionTTL,  \* ticks a settings session lasts
  MaxTime,     \* bound: ticks
  MaxFailures  \* bound: crashes and failed writes

ASSUME RequestAssumption ==
  /\ Burst \in Nat /\ Rate \in Nat /\ MaxIdle \in Nat /\ Patience \in Nat
  /\ SessionTTL \in Nat /\ MaxTime \in Nat /\ MaxFailures \in Nat
  /\ IsFiniteSet(Handlers) /\ IsFiniteSet(IPs)
  /\ \A c \in Configs : \A r \in c.clients : r.peer \in IPs
  /\ Loopback \subseteq IPs /\ DefaultLocale \in Locales
  /\ NoOne \notin Handlers /\ NoIP \notin IPs

\* An idle bucket fills up before it is removed.
RefillsWhileIdle == Burst + Rate * Patience <= Rate * MaxIdle

VARIABLES
  conf,     \* the configuration the process was started with
  now,
  up,       \* the process serves
  buckets,  \* RateLimiter.limiters: IP -> bucket or NoBucket
  pool,     \* the entries: bucket -> [tokens, filled, seen]
  cleaner,  \* the cleanup goroutine: the time it read, the addresses left, a doomed one
  handler,  \* what each goroutine is doing
  mu,       \* SettingsManager.mu: its writer, or NoOne
  values,   \* SettingsManager.values
  file,     \* <db>.settings.json
  issued,   \* expiry times of the session cookies handed out
  failures,
  granted,  \* history: requests of an address let through
  slack,    \* history: what cleanups racing with an address's requests have added
  saved,    \* history: the settings last written in full
  login     \* history: when the API token last opened a session, plus one

limiter == <<buckets, pool, cleaner>>
settings == <<mu, values, file>>
history == <<granted, slack, saved, login>>
vars == <<conf, now, up, limiter, handler, settings, issued, failures, history>>

Ids == 1 .. Cardinality(IPs) + Cardinality(Handlers)
NoBucket == 0
Unused == [tokens |-> 0, filled |-> 0, seen |-> 0]
Full == [tokens |-> Burst, filled |-> now, seen |-> now]
Absent == [default_locale |-> "absent"]
Partial == [default_locale |-> "partial"]\* truncated by os.WriteFile and not written yet
Fields == {"default_locale", "compact_numbers"}
Defaults == [default_locale |-> DefaultLocale, compact_numbers |-> "exact"]

Idle == [at |-> "idle", req |-> NoHeader, ip |-> NoIP,
         bucket |-> NoBucket, next |-> Defaults]
Resting == [now |-> 0, left |-> {}, doomed |-> NoIP]
At(h, p) == handler[h].at = p
Move(h, p) == handler' = [handler EXCEPT ![h].at = p]
Leave(h) == handler' = [handler EXCEPT ![h] = Idle]

-----------------------------------------------------------------------------
(* Who the client is, and what the middlewares let through                  *)

\* clientIP: a trusted peer may name the client, X-Forwarded-For first; an
\* X-Forwarded-For without an address falls back to the peer.
ClientIP(r) ==
  IF r.peer \notin conf.trusted THEN r.peer
  ELSE IF r.xff \in IPs THEN r.xff
  ELSE IF r.xff = NoHeader /\ r.realIP \in IPs THEN r.realIP
  ELSE r.peer

\* PublicMiddlewareSkip: metrics, probes, badges, assets and proxied paths.
Exempt(r) == r.path \in {"/metrics", "/healthz", "/api/v1/badge/", "/static/", "/proxied/"}

\* RateLimiter.Middleware: skipped, or no limiter is configured.
Unlimited(r) == Exempt(r) \/ ~conf.limited

TokenMatches(r) == conf.token /\ r.token

\* Whitelist.Middleware; a list without a valid entry is no whitelist, and scope
\* is the set of the paths below GGHSTATS_WHITELIST_PATHS (all without it).
WhitelistAdmits(r) ==
  \/ conf.whitelist = {}
  \/ Exempt(r) \/ r.path \notin conf.scope
  \/ TokenMatches(r)
  \/ ClientIP(r) \in conf.whitelist

\* requestIsLoopback: the connected peer, and no sign of a proxy.
LocalRequest(r) == r.peer \in Loopback /\ r.xff = NoHeader

\* Mutant of ValidSession: the cookie is good for one tick more.
ValidSession_OffByOne(c) == c \in issued /\ now <= c

\* validSettingsSession: the MAC is right (we issued it) and it has not expired.
ValidSession(c) == c \in issued /\ now < c

\* settingsRequestAuthorized
SettingsAuthorized(r, c) ==
  IF conf.token THEN TokenMatches(r) \/ ValidSession(c)
  ELSE conf.localOnly /\ LocalRequest(r)

\* The status of a request that reached the mux, with the cookie c.
Answer(r, c) ==
  CASE r.path = "/api/repos" ->                         \* apiMiddleware
         IF ~conf.token THEN 404 ELSE IF TokenMatches(r) THEN 200 ELSE 401
    [] r.path = "/traffic.json" ->                      \* optionalAPITokenMiddleware
         IF conf.token /\ ~TokenMatches(r) THEN 401 ELSE 200
    [] r.path = "/api/v1/settings/session" ->           \* mounted with a token only
         IF ~conf.token THEN 405 ELSE IF TokenMatches(r) THEN 200 ELSE 401
    [] r.path = "/api/v1/settings" /\ ~conf.token /\ ~conf.localOnly -> 405
    [] r.path \in {"/api/v1/settings", "/settings"} ->  \* settingsMiddleware, handleSettingsRoute
         IF SettingsAuthorized(r, c) THEN 200 ELSE IF conf.token THEN 401 ELSE 404
    [] OTHER -> 200                                     \* pages, badges, probes

-----------------------------------------------------------------------------
(* The rate limiter                                                         *)

Stored == {buckets[ip] : ip \in IPs}
Held == {handler[h].bucket : h \in Handlers}
NewId == Min(Ids \ (Stored \union Held))

Arrive(h, r) ==
  /\ up /\ At(h, "idle")
  /\ handler' = [handler EXCEPT ![h] =
       IF Unlimited(r) THEN [Idle EXCEPT !.at = "serve", !.req = r]
       ELSE [Idle EXCEPT !.at = "load", !.req = r, !.ip = ClientIP(r)]]
  /\ UNCHANGED <<conf, now, up, limiter, settings, issued, failures, history>>

\* getOrCreate: Load.
LoadBucket(h) ==
  /\ At(h, "load")
  /\ handler' = [handler EXCEPT ![h].bucket = buckets[handler[h].ip],
       ![h].at = IF buckets[handler[h].ip] = NoBucket THEN "store" ELSE "touch"]
  /\ UNCHANGED <<conf, now, up, limiter, settings, issued, failures, history>>

\* getOrCreate: lastSeen.Store on the entry that was loaded.
TouchBucket(h) ==
  /\ At(h, "touch")
  /\ pool' = [pool EXCEPT ![handler[h].bucket].seen = now]
  /\ Move(h, "allow")
  /\ UNCHANGED <<conf, now, up, buckets, cleaner, settings, issued, failures, history>>

\* Mutant of StoreBucket: Store instead of LoadOrStore.
StoreBucket_Overwrite(h) ==
  /\ At(h, "store")
  /\ LET ip == handler[h].ip
     IN /\ buckets' = [buckets EXCEPT ![ip] = NewId]
        /\ pool' = [pool EXCEPT ![NewId] = Full]
        /\ handler' = [handler EXCEPT ![h].bucket = buckets'[ip], ![h].at = "allow"]
  /\ UNCHANGED <<conf, now, up, cleaner, settings, issued, failures, history>>

\* getOrCreate: LoadOrStore; the loser of a race uses the winner's entry.
StoreBucket(h) ==
  /\ At(h, "store")
  /\ LET ip == handler[h].ip
         fresh == buckets[ip] = NoBucket
     IN /\ buckets' = [buckets EXCEPT ![ip] = IF fresh THEN NewId ELSE @]
        /\ pool' = IF fresh THEN [pool EXCEPT ![NewId] = Full] ELSE pool
        /\ handler' = [handler EXCEPT ![h].bucket = buckets'[ip], ![h].at = "allow"]
  /\ UNCHANGED <<conf, now, up, cleaner, settings, issued, failures, history>>

\* The tokens of a bucket at this time.
Level(b) ==
  LET t == pool[b].tokens + Rate * (now - pool[b].filled)
  IN IF t < Burst THEN t ELSE Burst

\* Whom a request counts for: its peer, unless the peer may name the client.
Counted(r) == IF r.peer \in conf.trusted THEN ClientIP(r) ELSE r.peer

\* limiter.Allow(): a token is taken, or the answer is 429.
Allow(h) ==
  /\ At(h, "allow")
  /\ LET b == handler[h].bucket
         who == Counted(handler[h].req)
     IN IF Level(b) > 0
          THEN /\ pool' = [pool EXCEPT ![b].tokens = Level(b) - 1, ![b].filled = now]
               /\ granted' = [granted EXCEPT ![who] = @ + 1]
               /\ handler' = [handler EXCEPT ![h] =
                    [Idle EXCEPT !.at = "serve", !.req = handler[h].req]]
          ELSE /\ Leave(h)
               /\ UNCHANGED <<pool, granted>>
  /\ UNCHANGED <<conf, now, up, buckets, cleaner, settings, issued, failures, slack, saved, login>>

\* cleanup: the clock is read once for the whole Range.
CleanupBegins ==
  /\ up /\ cleaner.left = {} /\ cleaner.doomed = NoIP
  /\ \E ip \in IPs : buckets[ip] # NoBucket
  /\ cleaner' = [now |-> now, left |-> {ip \in IPs : buckets[ip] # NoBucket}, doomed |-> NoIP]
  /\ UNCHANGED <<conf, now, up, buckets, pool, handler, settings, issued, failures, history>>

\* cleanup: one entry is checked against maxIdle.
CleanupChecks(ip) ==
  /\ up /\ ip \in cleaner.left /\ cleaner.doomed = NoIP
  /\ cleaner' = [cleaner EXCEPT !.left = @ \ {ip},
       !.doomed = IF /\ buckets[ip] # NoBucket
                     /\ cleaner.now > pool[buckets[ip]].seen + MaxIdle THEN ip ELSE NoIP]
  /\ UNCHANGED <<conf, now, up, buckets, pool, handler, settings, issued, failures, history>>

\* The bucket is in a handler's hands, or was refreshed after the check, or its last
\* token was taken long after the lookup that refreshed it.
HeldBy(b) == {h \in Handlers : handler[h].bucket = b}
InUse(b) ==
  \/ HeldBy(b) # {}
  \/ pool[b].seen + MaxIdle >= cleaner.now
  \/ pool[b].filled > pool[b].seen + Patience

\* cleanup: Delete, whatever happened to the entry since it was checked.
CleanupDeletes ==
  /\ up /\ cleaner.doomed # NoIP
  /\ LET ip == cleaner.doomed
     IN /\ buckets' = [buckets EXCEPT ![ip] = NoBucket]
        /\ slack' = [slack EXCEPT ![ip] = @ +
             (IF InUse(buckets[ip]) THEN Burst + Cardinality(HeldBy(buckets[ip])) ELSE 0)]
        /\ pool' = IF buckets[ip] \in Held THEN pool ELSE [pool EXCEPT ![buckets[ip]] = Unused]
  /\ cleaner' = [cleaner EXCEPT !.doomed = NoIP]
  /\ UNCHANGED <<conf, now, up, handler, settings, issued, failures, granted, saved, login>>

-----------------------------------------------------------------------------
(* Behind the limiter                                                       *)

\* The whitelist, the mux and the guards of the route; what is left after them
\* is a settings update (which goes on), a new session, or an answer.
Serve(h, c) ==
  /\ At(h, "serve")
  /\ LET r == handler[h].req
         ok == WhitelistAdmits(r) /\ Answer(r, c) = 200
     IN /\ IF ok /\ r.path = "/api/v1/settings" THEN Move(h, "lock") ELSE Leave(h)
        /\ issued' = IF ok /\ r.path = "/api/v1/settings/session"
                       THEN issued \union {now + SessionTTL} ELSE issued
        /\ login' = IF ok /\ r.path = "/api/v1/settings/session" /\ r.token
                      THEN now + 1 ELSE login
  /\ UNCHANGED <<conf, now, up, limiter, settings, failures, granted, slack, saved>>

\* Update: the fields that are supplied replace the current ones.
Merged(old, update) == [f \in Fields |-> IF f \in DOMAIN update THEN update[f] ELSE old[f]]
Acceptable(update) ==
  /\ DOMAIN update # {}
  /\ "default_locale" \in DOMAIN update => update.default_locale \in Locales

\* Mutant of MayWrite: the manager has no lock.
MayWrite_NoLock(h) == TRUE

MayWrite(h) == mu = NoOne

\* Update: lock, validate; os.WriteFile truncates the file first.
BeginUpdate(h) ==
  /\ At(h, "lock") /\ MayWrite(h)
  /\ LET update == handler[h].req.update
     IN IF Acceptable(update)
          THEN /\ mu' = h
               /\ file' = Partial
               /\ handler' = [handler EXCEPT ![h].at = "write", ![h].next = Merged(values, update)]
          ELSE /\ Leave(h)
               /\ UNCHANGED <<mu, file>>
  /\ UNCHANGED <<conf, now, up, limiter, values, issued, failures, history>>

WriteFile(h) ==
  /\ At(h, "write")
  /\ file' = handler[h].next
  /\ saved' = file'
  /\ Move(h, "publish")
  /\ UNCHANGED <<conf, now, up, limiter, mu, values, issued, failures, granted, slack, login>>

\* saveLocked returns an error: 400, and the values in memory stay.
WriteFails(h) ==
  /\ At(h, "write") /\ failures < MaxFailures
  /\ failures' = failures + 1
  /\ mu' = NoOne
  /\ Leave(h)
  /\ UNCHANGED <<conf, now, up, limiter, values, file, issued, history>>

Publish(h) ==
  /\ At(h, "publish")
  /\ values' = handler[h].next
  /\ mu' = NoOne
  /\ Leave(h)
  /\ UNCHANGED <<conf, now, up, limiter, file, issued, failures, history>>

-----------------------------------------------------------------------------
(* The process and the clock                                                *)

Tick ==
  /\ now < MaxTime
  /\ now' = now + 1
  /\ UNCHANGED <<conf, up, limiter, handler, settings, issued, failures, history>>

NoBuckets == [ip \in IPs |-> NoBucket]
EmptyPool == [b \in Ids |-> Unused]

\* Everything in memory is gone; the cookies and the file are not.
Crash ==
  /\ up /\ failures < MaxFailures
  /\ failures' = failures + 1
  /\ up' = FALSE
  /\ handler' = [h \in Handlers |-> Idle]
  /\ buckets' = NoBuckets /\ pool' = EmptyPool /\ cleaner' = Resting
  /\ granted' = [ip \in IPs |-> 0] /\ slack' = [ip \in IPs |-> 0]
  /\ mu' = NoOne
  /\ UNCHANGED <<conf, now, values, file, issued, saved, login>>

\* NewSettingsManager: the file overlays the defaults of the environment.
Loaded == IF file = Absent THEN Defaults ELSE file

Start ==
  /\ ~up /\ file # Partial
  /\ up' = TRUE
  /\ values' = Loaded
  /\ UNCHANGED <<conf, now, limiter, handler, mu, file, issued, failures, history>>

\* NewSettingsManager returns an error and runServe gives up.
StartFails ==
  /\ ~up /\ file = Partial
  /\ UNCHANGED vars

Init ==
  /\ conf \in Configs
  /\ now = 0 /\ up = TRUE /\ failures = 0
  /\ buckets = NoBuckets /\ pool = EmptyPool /\ cleaner = Resting
  /\ handler = [h \in Handlers |-> Idle]
  /\ mu = NoOne /\ values = Defaults /\ file = Absent /\ issued = {}
  /\ granted = [ip \in IPs |-> 0] /\ slack = [ip \in IPs |-> 0]
  /\ saved = Defaults /\ login = 0

\* A cookie is any expiry time, issued or made up.
Cookies == 0 .. MaxTime + SessionTTL

Handle(h) ==
  \/ \E r \in conf.clients : Arrive(h, r)
  \/ LoadBucket(h) \/ TouchBucket(h) \/ StoreBucket(h) \/ Allow(h)
  \/ \E c \in Cookies : Serve(h, c)
  \/ BeginUpdate(h) \/ WriteFile(h) \/ WriteFails(h) \/ Publish(h)

Next ==
  \/ \E h \in Handlers : Handle(h)
  \/ CleanupBegins \/ CleanupDeletes
  \/ \E ip \in IPs : CleanupChecks(ip)
  \/ Tick \/ Crash \/ Start \/ StartFails

Spec == Init /\ [][Next]_vars

-----------------------------------------------------------------------------
(* Properties                                                               *)

TypeOK ==
  /\ conf \in Configs /\ now \in 0 .. MaxTime /\ up \in BOOLEAN
  /\ buckets \in [IPs -> {NoBucket} \union Ids]
  /\ pool \in [Ids -> [tokens : 0 .. Burst, filled : 0 .. MaxTime, seen : 0 .. MaxTime]]
  /\ mu \in Handlers \union {NoOne}
  /\ values \in [Fields -> Locales \union {"exact", "compact"}]
  /\ file \in {Absent, Partial} \union [Fields -> Locales \union {"exact", "compact"}]
  /\ \A h \in Handlers : handler[h].bucket # NoBucket => At(h, "touch") \/ At(h, "allow")

\* "Per-IP token-bucket rate limiter": no client gets more than the burst and
\* the refill since the process started, however its requests interleave.  A
\* cleanup that removes a bucket in use adds one burst and the requests that hold
\* the bucket; nothing else adds any.
LimitHolds ==
  RefillsWhileIdle =>
    \A ip \in IPs : granted[ip] <= Burst + Rate * now + slack[ip]

\* settingsSessionTTL: with an API token configured, the settings change only
\* for a request that carries the token or within the TTL of a login with it,
\* across restarts (the cookie's MAC is keyed by the token, not by the process).
SessionWindow ==
  [][\A h \in Handlers :
       /\ handler'[h].at = "lock" /\ ~At(h, "lock")
       /\ conf.token /\ ~handler[h].req.token
       => login > 0 /\ now < login - 1 + SessionTTL]_vars

\* "Validates and persists an allow-listed update before publishing it", one
\* field "without resetting the other one": whenever nobody is writing, the
\* settings being served are the last ones written in full, after failed writes,
\* concurrent updates of different fields and restarts alike.
ServedIsSaved == up /\ mu = NoOne => values = saved
=============================================================================
