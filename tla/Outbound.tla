------------------------------- MODULE Outbound -------------------------------
(***************************************************************************)
(* The HTTP calls the program makes: requests to GitHub with their retries *)
(* and pages (internal/github/client.go, retry.go, metrics.go), and the    *)
(* delivery of an alert to its sinks (internal/alert/http.go, sender.go,   *)
(* smtp.go, loki.go).  One goroutine makes one call at a time; meanwhile   *)
(* the list it pages through changes and the server may shut down, which   *)
(* cancels the context of the alerts but not that of the GitHub calls.     *)
(***************************************************************************)
EXTENDS Naturals, Sequences, FiniteSets, SequencesExt

CONSTANTS
  Users,        \* who may star the repository
  PageSize,     \* stars per page
  MaxAttempts,  \* DefaultRetry.MaxAttempts
  PostAttempts, \* DefaultRetryConfig.MaxAttempts of the alerts
  SinkTypes,    \* the sinks in order, each "http" (Slack, webhook, Loki) or "smtp"
  MaxChanges,   \* bound: stars that come or go
  MaxCalls      \* bound: calls made

ASSUME OutboundAssumption ==
  /\ PageSize \in Nat \ {0} /\ MaxAttempts \in Nat \ {0} /\ PostAttempts \in Nat \ {0}
  /\ SinkTypes \in Seq({"http", "smtp"})
  /\ MaxChanges \in Nat /\ MaxCalls \in Nat

VARIABLES
  list,       \* the stargazers, newest first: [user, at]
  changes,    \* stars that came or went, which is also the time
  call,       \* the call being made
  calls,
  cancelled,  \* the context given to the alert callbacks is done
  quota,      \* Client.lastRateLimit
  received,   \* copies of the alert each sink has
  history     \* what happened during the call: [before, came, went, lost, tried]

vars == <<list, changes, call, calls, cancelled, quota, received, history>>

Sinks == DOMAIN SinkTypes
NoCall == [kind |-> "none", at |-> "idle", attempt |-> 0, page |-> 1, out |-> <<>>,
           maxNew |-> 0, stopAt |-> 0, sink |-> 0, failed |-> FALSE]
Quiet == [before |-> {}, came |-> FALSE, went |-> FALSE, tried |-> {},
          lost |-> [s \in Sinks |-> 0]]
Is(kinds, at) == call.kind \in kinds /\ call.at = at
End(failed) == call' = [call EXCEPT !.at = "done", !.failed = failed]

-----------------------------------------------------------------------------
(* Requests to GitHub                                                       *)

\* What a request comes back with: a transport error, or a status and the
\* X-RateLimit-Remaining header.
Failures == [status : {"error"}, remaining : {"absent"}]
            \union [status : {"403"}, remaining : {"absent", "0", "some"}]
            \union [status : {"404", "429", "5xx"}, remaining : {"some"}]
OK == [status |-> "200", remaining |-> "some"]

\* shouldRetry
Retryable(resp) ==
  \/ resp.status \in {"error", "429", "5xx"}
  \/ resp.status = "403" /\ resp.remaining \in {"absent", "0"}

\* recordResponse
Observe(resp) == quota' = IF resp.remaining = "absent" THEN quota ELSE resp.remaining

\* Stargazers and the other paginated lists; StargazersRecent; a single object.
\* Their context is the background: a shutdown does not end them.
BeginRequest(kind, maxNew, stopAt) ==
  /\ call.at = "idle" /\ calls < MaxCalls
  /\ calls' = calls + 1
  /\ call' = [NoCall EXCEPT !.kind = kind, !.at = "send", !.maxNew = maxNew, !.stopAt = stopAt]
  /\ history' = [Quiet EXCEPT !.before = ToSet(list)]
  /\ UNCHANGED <<list, changes, cancelled, quota, received>>

UpTo(s, n) == SubSeq(s, 1, IF n < Len(s) THEN n ELSE Len(s))
PageAt(p) == LET rest == Len(UpTo(list, (p - 1) * PageSize))
             IN UpTo(SubSeq(list, rest + 1, Len(list)), PageSize)
HasNext(p) == Len(list) > p * PageSize        \* the Link header

\* The stars StargazersRecent takes from a page: up to the first one that is not
\* after stopAt, maxNew in all (0: no limit).
Taken(page, out, maxNew, stopAt) ==
  LET old == SelectInSeq(page, LAMBDA g : g.at <= stopAt)
      fresh == IF old = 0 THEN page ELSE UpTo(page, old - 1)
  IN IF maxNew > 0 THEN UpTo(fresh, maxNew - Len(out)) ELSE fresh

\* A page arrives: it is appended, and the next one asked for with new attempts.
PageArrives ==
  /\ Is({"full", "recent"}, "send")
  /\ LET page == PageAt(call.page)
         taken == IF call.kind = "full" THEN page
                  ELSE Taken(page, call.out, call.maxNew, call.stopAt)
         out == call.out \o taken
         stop == /\ call.kind = "recent"
                 /\ Len(taken) < Len(page) \/ (call.maxNew > 0 /\ Len(out) >= call.maxNew)
     IN call' = [call EXCEPT !.out = out, !.attempt = 0, !.page = @ + 1,
                             !.at = IF HasNext(call.page) /\ ~stop THEN "send" ELSE "done"]
  /\ Observe(OK)
  /\ UNCHANGED <<list, changes, calls, cancelled, received, history>>

ObjectArrives ==
  /\ Is({"get"}, "send")
  /\ End(FALSE)
  /\ Observe(OK)
  /\ UNCHANGED <<list, changes, calls, cancelled, received, history>>

GivesUp == call.attempt + 1 = MaxAttempts

\* doGetWithRetry: a failure waits for another attempt (backoffDelay), or ends
\* the whole call: pages that came are dropped.
RequestFails(resp) ==
  /\ Is({"full", "recent", "get"}, "send")
  /\ Observe(resp)
  /\ IF Retryable(resp) /\ ~GivesUp
       THEN call' = [call EXCEPT !.at = "wait"]
       ELSE End(TRUE)
  /\ UNCHANGED <<list, changes, calls, cancelled, received, history>>

\* Mutant of Resend: the retry starts over and keeps what it has.
Resend_FirstPage ==
  /\ Is({"full", "recent", "get"}, "wait")
  /\ call' = [call EXCEPT !.at = "send", !.attempt = @ + 1, !.page = 1]
  /\ UNCHANGED <<list, changes, calls, cancelled, quota, received, history>>

\* Mutant of Resend: the attempts of a page are not counted.
Resend_Uncounted ==
  /\ Is({"full", "recent", "get"}, "wait")
  /\ call' = [call EXCEPT !.at = "send"]
  /\ UNCHANGED <<list, changes, calls, cancelled, quota, received, history>>

\* The same page is asked for again, after the wait.
Resend ==
  /\ Is({"full", "recent", "get"}, "wait")
  /\ call' = [call EXCEPT !.at = "send", !.attempt = @ + 1]
  /\ UNCHANGED <<list, changes, calls, cancelled, quota, received, history>>

-----------------------------------------------------------------------------
(* The delivery of an alert                                                 *)

BeginFanOut ==
  /\ call.at = "idle" /\ calls < MaxCalls
  /\ calls' = calls + 1
  /\ received' = [s \in Sinks |-> 0]
  /\ call' = IF Sinks = {} THEN [NoCall EXCEPT !.kind = "alert", !.at = "done", !.failed = TRUE]
             ELSE [NoCall EXCEPT !.kind = "alert", !.at = "send", !.sink = 1]
  /\ history' = Quiet
  /\ UNCHANGED <<list, changes, cancelled, quota>>

Http == SinkTypes[call.sink] = "http"

\* Mutant of SinkReturns: the first sink that fails ends the fan-out.
SinkReturns_StopsAtError(error) ==
  call' = [call EXCEPT !.failed = @ \/ error, !.attempt = 0, !.sink = @ + 1,
                       !.at = IF call.sink < Len(SinkTypes) /\ ~error THEN "send" ELSE "done"]

\* FanOut: an error is noted and the next sink gets its turn.
SinkReturns(error) ==
  call' = [call EXCEPT !.failed = @ \/ error, !.attempt = 0, !.sink = @ + 1,
                       !.at = IF call.sink < Len(SinkTypes) THEN "send" ELSE "done"]

\* An answer below 300; SMTP ignores the context.
SinkAccepts ==
  /\ Is({"alert"}, "send")
  /\ Http => ~cancelled
  /\ received' = [received EXCEPT ![call.sink] = @ + 1]
  /\ SinkReturns(FALSE)
  /\ history' = [history EXCEPT !.tried = @ \union {call.sink}]
  /\ UNCHANGED <<list, changes, calls, cancelled, quota>>

\* Below 500: no second attempt; SMTP makes no second attempt at all.
SinkRefuses ==
  /\ Is({"alert"}, "send")
  /\ Http => ~cancelled
  /\ SinkReturns(TRUE)
  /\ history' = [history EXCEPT !.tried = @ \union {call.sink}]
  /\ UNCHANGED <<list, changes, calls, cancelled, quota, received>>

\* Mutant of AfterFailure: the context does not end the attempts.
AfterFailure_Uncancelled ==
  IF call.attempt + 1 = PostAttempts THEN SinkReturns(TRUE)
  ELSE call' = [call EXCEPT !.attempt = @ + 1]

\* postJSONWithRetryClient: another attempt, unless there were enough or the
\* sleep before it finds the context done.
AfterFailure ==
  IF cancelled \/ call.attempt + 1 = PostAttempts THEN SinkReturns(TRUE)
  ELSE call' = [call EXCEPT !.attempt = @ + 1]

\* 5xx, no connection, a context that is done, or a timeout: in which case the
\* sink may have taken the alert all the same.
SinkFails(taken) ==
  /\ Is({"alert"}, "send") /\ Http
  /\ taken => ~cancelled
  /\ received' = [received EXCEPT ![call.sink] = IF taken THEN @ + 1 ELSE @]
  /\ AfterFailure
  /\ history' = [history EXCEPT !.tried = @ \union {call.sink},
                                !.lost[call.sink] = IF taken THEN @ + 1 ELSE @]
  /\ UNCHANGED <<list, changes, calls, cancelled, quota>>

-----------------------------------------------------------------------------

Return ==
  /\ call.at = "done"
  /\ call' = NoCall
  /\ UNCHANGED <<list, changes, calls, cancelled, quota, received, history>>

\* SIGTERM
Shutdown ==
  /\ ~cancelled
  /\ cancelled' = TRUE
  /\ UNCHANGED <<list, changes, call, calls, quota, received, history>>

Star(u) ==
  /\ changes < MaxChanges /\ \A g \in ToSet(list) : g.user # u
  /\ changes' = changes + 1
  /\ list' = <<[user |-> u, at |-> changes']>> \o list
  /\ history' = [history EXCEPT !.came = TRUE]
  /\ UNCHANGED <<call, calls, cancelled, quota, received>>

Unstar(u) ==
  /\ changes < MaxChanges
  /\ changes' = changes + 1
  /\ \E i \in DOMAIN list : list[i].user = u /\ list' = RemoveAt(list, i)
  /\ history' = [history EXCEPT !.went = TRUE]
  /\ UNCHANGED <<call, calls, cancelled, quota, received>>

Init ==
  /\ list = <<>> /\ changes = 0
  /\ call = NoCall /\ calls = 0
  /\ cancelled = FALSE /\ quota = "unknown"
  /\ received = [s \in Sinks |-> 0] /\ history = Quiet

\* syncStarsIncremental asks for at least one star, after any known time.
Cursors == 0 .. MaxChanges

GitHubStep ==
  \/ PageArrives \/ ObjectArrives \/ Resend
  \/ \E resp \in Failures : RequestFails(resp)

SinkStep == SinkAccepts \/ SinkRefuses \/ \E taken \in BOOLEAN : SinkFails(taken)

Next ==
  \/ BeginRequest("get", 0, 0) \/ BeginRequest("full", 0, 0)
  \/ \E n \in 1 .. Cardinality(Users), t \in Cursors : BeginRequest("recent", n, t)
  \/ BeginFanOut
  \/ GitHubStep \/ SinkStep \/ Return
  \/ Shutdown
  \/ \E u \in Users : Star(u) \/ Unstar(u)

\* The HTTP clients have timeouts, so every attempt comes back.  The connection to
\* a mail server has no deadline: nothing is assumed of its answers.
Spec == Init /\ [][Next]_vars /\ WF_vars(GitHubStep \/ (SinkStep /\ Http) \/ Return)

-----------------------------------------------------------------------------
(* Properties                                                               *)

TypeOK ==
  /\ changes \in 0 .. MaxChanges /\ calls \in 0 .. MaxCalls
  /\ call.attempt < IF call.kind = "alert" THEN PostAttempts ELSE MaxAttempts
  /\ quota \in {"unknown", "0", "some"}
  /\ call.at = "send" /\ call.kind = "alert" => call.sink \in Sinks

\* "Fetches the full list", "newest first": when no star goes during the call,
\* nobody who was listed before it is missing, and when none comes, nobody is
\* listed twice, whichever requests were retried; in a quiet list the recent
\* stars are the newest ones after stopAt, maxNew of them.
PagesAreWhole ==
  call.kind \in {"full", "recent"} /\ call.at = "done" /\ ~call.failed =>
    /\ call.kind = "full" /\ ~history.went => history.before \subseteq ToSet(call.out)
    /\ ~history.came => IsInjective(call.out)
    /\ call.kind = "recent" /\ ~history.came /\ ~history.went =>
         call.out = Restrict(list, {i \in DOMAIN list : /\ list[i].at > call.stopAt
                                                        /\ call.maxNew > 0 => i <= call.maxNew})

\* "Continues on error ... nil if all succeeded": FanOut returns nil only when
\* every sink has the alert, has tried every sink otherwise too, and a sink has a
\* second copy only if an answer was lost.
FanOutTruthful ==
  call.kind = "alert" =>
    /\ call.at = "done" =>
         /\ history.tried = Sinks
         /\ ~call.failed => \A s \in Sinks : received[s] > 0
    /\ \A s \in Sinks : received[s] <= 1 + history.lost[s]

\* After the shutdown a sink is tried once more at most: the context ends the
\* retries, so that a sink that is down cannot hold the process.
NoRetryAfterShutdown ==
  [][cancelled /\ call.kind = "alert" => call'.attempt <= call.attempt]_vars

\* Every call returns (attempts are counted, pages end with the list), unless it
\* waits for a mail server.
CallsReturn ==
  call.at # "idle" ~> call.at = "idle" \/ (Is({"alert"}, "send") /\ ~Http)

\* "Must not block forever" (SetAfterSync, of the callback that sends the alerts).
EveryCallReturns == call.at # "idle" ~> call.at = "idle"
=============================================================================
