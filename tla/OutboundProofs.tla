--------------------------- MODULE OutboundProofs ---------------------------
(***************************************************************************)
(* What the fan-out of an alert says is true, for any list of sinks, any   *)
(* number of attempts and any interleaving with the shutdown; the shutdown *)
(* ends the retries; and the lists fetched page by page are whole, for any *)
(* users, page size and stars that come and go.                            *)
(*                                                                         *)
(* FanOutTruthful speaks of the end of the fan-out.  The invariant follows *)
(* it from sink to sink: those before the current one were tried, and have *)
(* the alert unless a failure was noted; those after it have nothing; the  *)
(* current one has exactly the copies whose answer was lost.               *)
(*                                                                         *)
(* PagesAreWhole speaks of the end of the call.  The invariant follows the *)
(* border between the pages passed and those ahead (Passed): a star that   *)
(* comes moves the others back over it, where they are fetched twice; one  *)
(* that goes moves them up over it, where they are missed; nothing else    *)
(* moves them, because the list is newest first (ListOK) and a retry asks  *)
(* for the same page.                                                      *)
(***************************************************************************)
EXTENDS Outbound, SequenceTheorems, FiniteSetTheorems, TLAPS

IsCall(x) ==
  \E k, a, t, p, o, m, u, s, f :
    /\ t \in Nat /\ f \in BOOLEAN
    /\ x = [kind |-> k, at |-> a, attempt |-> t, page |-> p, out |-> o,
            maxNew |-> m, stopAt |-> u, sink |-> s, failed |-> f]
IsHistory(x) ==
  \E b, c, w, t, l :
    /\ l \in [Sinks -> Nat]
    /\ x = [before |-> b, came |-> c, went |-> w, tried |-> t, lost |-> l]
RecordsOK == IsCall(call) /\ IsHistory(history) /\ received \in [Sinks -> Nat]

\* How far the fan-out has come.
Sending ==
  /\ call.sink \in Sinks
  /\ received[call.sink] <= history.lost[call.sink]
  /\ \A s \in Sinks : s > call.sink => received[s] = 0
  /\ \A s \in Sinks : s < call.sink => /\ s \in history.tried
                                       /\ received[s] <= 1 + history.lost[s]
                                       /\ ~call.failed => received[s] > 0
Sent ==
  /\ history.tried = Sinks
  /\ \A s \in Sinks : /\ received[s] <= 1 + history.lost[s]
                      /\ ~call.failed => received[s] > 0

FanOutInv ==
  /\ RecordsOK
  /\ call.kind = "alert" =>
       /\ history.tried \subseteq Sinks
       /\ (call.at = "send" /\ Sending) \/ (call.at = "done" /\ Sent)

-----------------------------------------------------------------------------

\* The sinks are numbered from one.
LEMMA SinksNumbered == Sinks = 1 .. Len(SinkTypes) /\ Len(SinkTypes) \in Nat /\ Sinks \subseteq Nat
BY OutboundAssumption DEF Sinks

\* The fields of a call, one replaced at a time.
LEMMA CallFields ==
  ASSUME NEW x, IsCall(x)
  PROVE  /\ x.attempt \in Nat /\ x.failed \in BOOLEAN
         /\ \A a : LET y == [x EXCEPT !.at = a]
                   IN IsCall(y) /\ y.kind = x.kind /\ y.at = a /\ y.attempt = x.attempt
                      /\ y.sink = x.sink /\ y.failed = x.failed
         /\ \A t \in Nat : LET y == [x EXCEPT !.attempt = t]
                   IN IsCall(y) /\ y.kind = x.kind /\ y.at = x.at /\ y.attempt = t
                      /\ y.sink = x.sink /\ y.failed = x.failed
         /\ \A s : LET y == [x EXCEPT !.sink = s]
                   IN IsCall(y) /\ y.kind = x.kind /\ y.at = x.at /\ y.attempt = x.attempt
                      /\ y.sink = s /\ y.failed = x.failed
         /\ \A f \in BOOLEAN : LET y == [x EXCEPT !.failed = f]
                   IN IsCall(y) /\ y.kind = x.kind /\ y.at = x.at /\ y.attempt = x.attempt
                      /\ y.sink = x.sink /\ y.failed = f
         /\ \A v : LET y == [x EXCEPT !.page = v] IN IsCall(y) /\ y.kind = x.kind
         /\ \A v : LET y == [x EXCEPT !.out = v] IN IsCall(y) /\ y.kind = x.kind
         /\ \A v : LET y == [x EXCEPT !.maxNew = v] IN IsCall(y) /\ y.kind = x.kind
         /\ \A v : LET y == [x EXCEPT !.stopAt = v] IN IsCall(y) /\ y.kind = x.kind
         /\ \A k : LET y == [x EXCEPT !.kind = k]
                   IN IsCall(y) /\ y.kind = k /\ y.attempt = x.attempt /\ y.sink = x.sink
                      /\ y.failed = x.failed
<1> PICK k0, a0, t0, p0, o0, m0, u0, s0, f0 :
      /\ t0 \in Nat /\ f0 \in BOOLEAN
      /\ x = [kind |-> k0, at |-> a0, attempt |-> t0, page |-> p0, out |-> o0,
              maxNew |-> m0, stopAt |-> u0, sink |-> s0, failed |-> f0]
  BY Zenon DEF IsCall
<1>0. ASSUME NEW k, NEW a, NEW t \in Nat, NEW p, NEW o, NEW m, NEW u, NEW s, NEW f \in BOOLEAN
      PROVE  IsCall([kind |-> k, at |-> a, attempt |-> t, page |-> p, out |-> o,
                     maxNew |-> m, stopAt |-> u, sink |-> s, failed |-> f])
  BY Zenon DEF IsCall
<1>1. ASSUME NEW a
      PROVE  [x EXCEPT !.at = a] = [kind |-> k0, at |-> a, attempt |-> t0, page |-> p0, out |-> o0,
               maxNew |-> m0, stopAt |-> u0, sink |-> s0, failed |-> f0]
  OBVIOUS
<1>2. ASSUME NEW t \in Nat
      PROVE  [x EXCEPT !.attempt = t] = [kind |-> k0, at |-> a0, attempt |-> t, page |-> p0,
               out |-> o0, maxNew |-> m0, stopAt |-> u0, sink |-> s0, failed |-> f0]
  OBVIOUS
<1>3. ASSUME NEW s
      PROVE  [x EXCEPT !.sink = s] = [kind |-> k0, at |-> a0, attempt |-> t0, page |-> p0, out |-> o0,
               maxNew |-> m0, stopAt |-> u0, sink |-> s, failed |-> f0]
  OBVIOUS
<1>4. ASSUME NEW f \in BOOLEAN
      PROVE  [x EXCEPT !.failed = f] = [kind |-> k0, at |-> a0, attempt |-> t0, page |-> p0,
               out |-> o0, maxNew |-> m0, stopAt |-> u0, sink |-> s0, failed |-> f]
  OBVIOUS
<1>5. ASSUME NEW v
      PROVE  [x EXCEPT !.page = v] = [kind |-> k0, at |-> a0, attempt |-> t0, page |-> v, out |-> o0,
               maxNew |-> m0, stopAt |-> u0, sink |-> s0, failed |-> f0]
  OBVIOUS
<1>6. ASSUME NEW v
      PROVE  [x EXCEPT !.out = v] = [kind |-> k0, at |-> a0, attempt |-> t0, page |-> p0, out |-> v,
               maxNew |-> m0, stopAt |-> u0, sink |-> s0, failed |-> f0]
  OBVIOUS
<1>7. ASSUME NEW v
      PROVE  [x EXCEPT !.maxNew = v] = [kind |-> k0, at |-> a0, attempt |-> t0, page |-> p0,
               out |-> o0, maxNew |-> v, stopAt |-> u0, sink |-> s0, failed |-> f0]
  OBVIOUS
<1>8. ASSUME NEW v
      PROVE  [x EXCEPT !.stopAt = v] = [kind |-> k0, at |-> a0, attempt |-> t0, page |-> p0,
               out |-> o0, maxNew |-> m0, stopAt |-> v, sink |-> s0, failed |-> f0]
  OBVIOUS
<1>9. ASSUME NEW k
      PROVE  [x EXCEPT !.kind = k] = [kind |-> k, at |-> a0, attempt |-> t0, page |-> p0,
               out |-> o0, maxNew |-> m0, stopAt |-> u0, sink |-> s0, failed |-> f0]
  OBVIOUS
<1> QED BY <1>0, <1>1, <1>2, <1>3, <1>4, <1>5, <1>6, <1>7, <1>8, <1>9

\* No call, and the quiet history every call begins with.
LEMMA BeginningOK ==
  /\ IsCall(NoCall) /\ NoCall.kind = "none" /\ NoCall.attempt = 0
  /\ \A k, n, u :
       LET x == [NoCall EXCEPT !.kind = k, !.at = "send", !.maxNew = n, !.stopAt = u]
       IN IsCall(x) /\ x.kind = k
<1>1. NoCall = [kind |-> "none", at |-> "idle", attempt |-> 0, page |-> 1, out |-> <<>>,
                maxNew |-> 0, stopAt |-> 0, sink |-> 0, failed |-> FALSE]
  BY DEF NoCall
<1>2. 0 \in Nat /\ FALSE \in BOOLEAN
  OBVIOUS
<1>3. IsCall(NoCall)
  BY <1>1, <1>2, Zenon DEF IsCall
<1>4. ASSUME NEW k, NEW n, NEW u
      PROVE  LET x == [NoCall EXCEPT !.kind = k, !.at = "send", !.maxNew = n, !.stopAt = u]
             IN IsCall(x) /\ x.kind = k
  <2> DEFINE y1 == [NoCall EXCEPT !.kind = k]
             y2 == [y1 EXCEPT !.at = "send"]
             y3 == [y2 EXCEPT !.maxNew = n]
             y4 == [y3 EXCEPT !.stopAt = u]
  <2>1. [NoCall EXCEPT !.kind = k, !.at = "send", !.maxNew = n, !.stopAt = u] = y4
    OBVIOUS
  <2>2. IsCall(y1) /\ y1.kind = k
    BY <1>3, CallFields
  <2> HIDE DEF y1
  <2>3. IsCall(y2) /\ y2.kind = k
    BY <2>2, CallFields
  <2> HIDE DEF y2
  <2>4. IsCall(y3) /\ y3.kind = k
    BY <2>3, CallFields
  <2> HIDE DEF y3
  <2>5. IsCall(y4) /\ y4.kind = k
    BY <2>4, CallFields
  <2> HIDE DEF y4
  <2> QED BY <2>1, <2>5
<1> QED BY <1>1, <1>3, <1>4

\* Any values of the fields are those of a history.
LEMMA AnyHistory ==
  ASSUME NEW b, NEW c, NEW w, NEW t, NEW m \in [Sinks -> Nat]
  PROVE  IsHistory([before |-> b, came |-> c, went |-> w, tried |-> t, lost |-> m])
BY Zenon DEF IsHistory

\* A history in which the list of stars changed.
LEMMA ListMoved ==
  ASSUME NEW x, IsHistory(x), NEW y, NEW v, y = [x EXCEPT !.came = v] \/ y = [x EXCEPT !.went = v]
  PROVE  IsHistory(y) /\ y.tried = x.tried /\ y.lost = x.lost
<1> PICK b0, c0, w0, t0, m0 :
      /\ m0 \in [Sinks -> Nat]
      /\ x = [before |-> b0, came |-> c0, went |-> w0, tried |-> t0, lost |-> m0]
  BY Zenon DEF IsHistory
<1>1. \E c, w : y = [before |-> b0, came |-> c, went |-> w, tried |-> t0, lost |-> m0]
  <2>1. CASE y = [x EXCEPT !.came = v]
    <3>1. y = [before |-> b0, came |-> v, went |-> w0, tried |-> t0, lost |-> m0]
      BY <2>1
    <3> QED BY <3>1
  <2>2. CASE y = [x EXCEPT !.went = v]
    <3>1. y = [before |-> b0, came |-> c0, went |-> v, tried |-> t0, lost |-> m0]
      BY <2>2
    <3> QED BY <3>1
  <2> QED BY <2>1, <2>2
<1> QED BY <1>1, AnyHistory

\* y is x with the turn of sink k recorded, in which l answers were lost.
Turned(y, x, k, l) == y = [x EXCEPT !.tried = @ \union {k}, !.lost[k] = @ + l]

\* The current sink takes r more copies.
Took(r) == received' = [received EXCEPT ![call.sink] = @ + r]

\* A history in which the turn of a sink is recorded.
LEMMA TurnHistory ==
  ASSUME NEW x, IsHistory(x), NEW k \in Sinks, NEW l \in Nat, NEW y, Turned(y, x, k, l)
  PROVE  /\ IsHistory(y) /\ x.lost \in [Sinks -> Nat]
         /\ y.tried = x.tried \union {k}
         /\ y.lost[k] = x.lost[k] + l
         /\ \A s \in Sinks \ {k} : y.lost[s] = x.lost[s]
<1> PICK b0, c0, w0, t0, m0 :
      /\ m0 \in [Sinks -> Nat]
      /\ x = [before |-> b0, came |-> c0, went |-> w0, tried |-> t0, lost |-> m0]
  BY Zenon DEF IsHistory
<1> DEFINE t == x.tried \union {k}
           m == [m0 EXCEPT ![k] = m0[k] + l]
           h == [x EXCEPT !.tried = t]
<1>1. m \in [Sinks -> Nat] /\ m[k] = m0[k] + l /\ \A s \in Sinks \ {k} : m[s] = m0[s]
  OBVIOUS
<1>2. x.lost = m0
  OBVIOUS
<1>3. y = [h EXCEPT !.lost = [h.lost EXCEPT ![k] = h.lost[k] + l]]
  BY DEF Turned
<1> HIDE DEF t
<1>4. h = [before |-> b0, came |-> c0, went |-> w0, tried |-> t, lost |-> m0]
  OBVIOUS
<1> HIDE DEF h
<1>5. h.lost = m0
  BY <1>4
<1>6. y = [h EXCEPT !.lost = m]
  BY <1>3, <1>5
<1> HIDE DEF m
<1> DEFINE z == [before |-> b0, came |-> c0, went |-> w0, tried |-> t, lost |-> m]
<1>7. y = z
  BY <1>4, <1>6
<1>8. IsHistory(z)
  BY <1>1, AnyHistory
<1>9. z.tried = t /\ z.lost = m
  OBVIOUS
<1> HIDE DEF z
<1> QED BY <1>1, <1>2, <1>7, <1>8, <1>9 DEF t

\* The history of a new call.
LEMMA Begin ==
  ASSUME NEW b, history' = [Quiet EXCEPT !.before = b] \/ history' = Quiet
  PROVE  /\ IsHistory(history') /\ history'.tried = {}
         /\ \A s \in Sinks : history'.lost[s] = 0
<1> DEFINE l == [s \in Sinks |-> 0]
<1>1. PICK c, d, w : history' = [before |-> c, came |-> d, went |-> w, tried |-> {}, lost |-> l]
  <2>1. \E d, w : Quiet = [before |-> {}, came |-> d, went |-> w, tried |-> {}, lost |-> l]
    BY DEF Quiet
  <2> HIDE DEF l
  <2>2. PICK d, w : Quiet = [before |-> {}, came |-> d, went |-> w, tried |-> {}, lost |-> l]
    BY <2>1
  <2>3. [Quiet EXCEPT !.before = b] = [before |-> b, came |-> d, went |-> w, tried |-> {}, lost |-> l]
    BY <2>2
  <2> QED BY <2>2, <2>3
<1>2. l \in [Sinks -> Nat]
  OBVIOUS
<1>3. \A s \in Sinks : l[s] = 0
  OBVIOUS
<1> HIDE DEF l
<1>4. IsHistory(history')
  BY <1>1, <1>2, Zenon DEF IsHistory
<1> QED BY <1>1, <1>3, <1>4

\* The end of a call to GitHub.
LEMMA EndOK ==
  ASSUME IsCall(call), NEW f \in BOOLEAN, End(f)
  PROVE  IsCall(call') /\ call'.kind = call.kind
<1> DEFINE y == [call EXCEPT !.at = "done"]
<1>1. IsCall(y) /\ y.kind = call.kind
  BY CallFields
<1>2. call' = [y EXCEPT !.failed = f]
  BY DEF End
<1> HIDE DEF y
<1> QED BY <1>1, <1>2, CallFields

\* The calls to GitHub keep their kind, and are no business of the sinks.
LEMMA RequestSteps ==
  ASSUME FanOutInv,
         \/ \E kind \in {"get", "full", "recent"} : \E n, t : BeginRequest(kind, n, t)
         \/ GitHubStep
  PROVE  FanOutInv' /\ call.kind # "alert"
<1>0. IsCall(call)
  BY DEF FanOutInv, RecordsOK
<1>1. ASSUME NEW kind \in {"get", "full", "recent"}, NEW n, NEW t, BeginRequest(kind, n, t)
      PROVE  /\ IsCall(call') /\ IsHistory(history') /\ call'.kind # "alert" /\ call.kind # "alert"
             /\ received' = received
  <2>1. IsCall(call') /\ call'.kind = kind
    <3> DEFINE x == [NoCall EXCEPT !.kind = kind, !.at = "send", !.maxNew = n, !.stopAt = t]
    <3>1. IsCall(x) /\ x.kind = kind
      BY BeginningOK
    <3>2. call' = x
      BY <1>1 DEF BeginRequest
    <3> HIDE DEF x
    <3> QED BY <3>1, <3>2
  <2>2. IsHistory(history')
    BY <1>1, Begin DEF BeginRequest
  <2>3. call.kind # "alert"
    BY <1>1 DEF BeginRequest, FanOutInv
  <2> QED BY <1>1, <2>1, <2>2, <2>3 DEF BeginRequest
<1>2. ASSUME GitHubStep
      PROVE  /\ IsCall(call') /\ IsHistory(history') /\ call'.kind # "alert" /\ call.kind # "alert"
             /\ received' = received
  <2>1. call.kind \in {"full", "recent", "get"} /\ UNCHANGED <<received, history>>
    BY <1>2 DEF GitHubStep, PageArrives, ObjectArrives, Resend, RequestFails, Is
  <2>2. IsHistory(history')
    BY <2>1 DEF FanOutInv, RecordsOK, IsHistory
  <2>3. IsCall(call') /\ call'.kind = call.kind
    <3>1. CASE PageArrives
      <4>1. PICK o1, p1, a1 : call' = [call EXCEPT !.out = o1, !.attempt = 0, !.page = p1, !.at = a1]
        BY <3>1 DEF PageArrives
      <4> DEFINE y1 == [call EXCEPT !.out = o1]
                 y2 == [y1 EXCEPT !.attempt = 0]
                 y3 == [y2 EXCEPT !.page = p1]
                 y4 == [y3 EXCEPT !.at = a1]
      <4>2. call' = y4
        BY <4>1
      <4>3. IsCall(y1) /\ y1.kind = call.kind
        BY <1>0, CallFields
      <4> HIDE DEF y1
      <4>4. IsCall(y2) /\ y2.kind = call.kind
        BY <4>3, CallFields
      <4> HIDE DEF y2
      <4>5. IsCall(y3) /\ y3.kind = call.kind
        BY <4>4, CallFields
      <4> HIDE DEF y3
      <4>6. IsCall(y4) /\ y4.kind = call.kind
        BY <4>5, CallFields
      <4> HIDE DEF y4
      <4> QED BY <4>2, <4>6
    <3>2. CASE ObjectArrives
      BY <1>0, <3>2, EndOK DEF ObjectArrives
    <3>3. CASE Resend
      <4> DEFINE y == [call EXCEPT !.at = "send"]
      <4>1. IsCall(y) /\ y.kind = call.kind /\ y.attempt = call.attempt
        BY <1>0, CallFields
      <4>2. call' = [y EXCEPT !.attempt = y.attempt + 1]
        BY <3>3, <4>1 DEF Resend
      <4> HIDE DEF y
      <4>3. y.attempt + 1 \in Nat
        BY <4>1, CallFields
      <4> QED BY <4>1, <4>2, <4>3, CallFields
    <3>4. ASSUME NEW resp \in Failures, RequestFails(resp)
          PROVE  IsCall(call') /\ call'.kind = call.kind
      <4>1. CASE End(TRUE)
        BY <1>0, <4>1, EndOK
      <4>2. CASE call' = [call EXCEPT !.at = "wait"]
        BY <1>0, <4>2, CallFields
      <4> QED BY <3>4, <4>1, <4>2 DEF RequestFails
    <3> QED BY <1>2, <3>1, <3>2, <3>3, <3>4 DEF GitHubStep
  <2> QED BY <2>1, <2>2, <2>3
<1>3. IsCall(call') /\ IsHistory(history') /\ call'.kind # "alert" /\ call.kind # "alert"
      /\ received' = received
  BY <1>1, <1>2
<1> QED BY <1>3 DEF FanOutInv, RecordsOK

\* The current sink has had its turn.
Served ==
  /\ IsHistory(history') /\ received' \in [Sinks -> Nat]
  /\ history'.tried = history.tried \union {call.sink}
  /\ received'[call.sink] <= 1 + history'.lost[call.sink]
  /\ \A s \in Sinks \ {call.sink} :
       received'[s] = received[s] /\ history'.lost[s] = history.lost[s]

\* SinkReturns goes on to the next sink, or ends the fan-out.
LEMMA SinkReturned ==
  ASSUME FanOutInv, call.kind = "alert", call.at = "send", NEW error \in BOOLEAN,
         SinkReturns(error), Served, ~error => received'[call.sink] > 0
  PROVE  FanOutInv' /\ call'.attempt = 0
<1> DEFINE k == call.sink
           more == k < Len(SinkTypes)
<1>1. IsCall(call) /\ Sending /\ history.tried \subseteq Sinks /\ k \in Sinks /\ k \in Nat
  BY SinksNumbered DEF FanOutInv, Sending, RecordsOK
<1>2. /\ IsCall(call') /\ call'.kind = "alert" /\ call'.attempt = 0 /\ call'.sink = k + 1
      /\ call'.failed = (call.failed \/ error) /\ call'.at = IF more THEN "send" ELSE "done"
  <2> DEFINE f == call.failed \/ error
             a == IF more THEN "send" ELSE "done"
             y1 == [call EXCEPT !.failed = f]
             y2 == [y1 EXCEPT !.attempt = 0]
             y3 == [y2 EXCEPT !.sink = y2.sink + 1]
             y4 == [y3 EXCEPT !.at = a]
  <2>1. call' = y4
    BY DEF SinkReturns
  <2>2. f \in BOOLEAN
    BY <1>1, CallFields
  <2> HIDE DEF f, a
  <2>3. IsCall(y1) /\ y1.kind = "alert" /\ y1.sink = k /\ y1.failed = f
    BY <1>1, <2>2, CallFields
  <2> HIDE DEF y1
  <2>4. IsCall(y2) /\ y2.kind = "alert" /\ y2.sink = k /\ y2.failed = f /\ y2.attempt = 0
    BY <2>3, CallFields
  <2> HIDE DEF y2
  <2>5. IsCall(y3) /\ y3.kind = "alert" /\ y3.sink = k + 1 /\ y3.failed = f /\ y3.attempt = 0
    BY <2>4, CallFields
  <2> HIDE DEF y3
  <2>6. IsCall(y4) /\ y4.kind = "alert" /\ y4.sink = k + 1 /\ y4.failed = f /\ y4.attempt = 0
        /\ y4.at = a
    BY <2>5, CallFields
  <2> HIDE DEF y4
  <2> QED BY <2>1, <2>6 DEF a, f
<1>3. \A s \in Sinks : s <= k => /\ s \in history'.tried
                                 /\ received'[s] <= 1 + history'.lost[s]
                                 /\ ~call'.failed => received'[s] > 0
  <2> SUFFICES ASSUME NEW s \in Sinks, s <= k
               PROVE  /\ s \in history'.tried
                      /\ received'[s] <= 1 + history'.lost[s]
                      /\ ~call'.failed => received'[s] > 0
    OBVIOUS
  <2>1. CASE s = k
    BY <1>2, <2>1 DEF Served
  <2>2. CASE s # k
    <3>1. s < k
      BY <1>1, <2>2, SinksNumbered
    <3> QED BY <1>1, <1>2, <2>2, <3>1 DEF Served, Sending
  <2> QED BY <2>1, <2>2
<1>4. history'.tried \subseteq Sinks
  BY <1>1 DEF Served
<1>5. CASE more
  <2>1. k + 1 \in Sinks
    BY <1>1, <1>5, SinksNumbered
  <2>2. received'[k + 1] = 0 /\ history'.lost[k + 1] \in Nat
    <3>1. received'[k + 1] = 0
      BY <1>1, <2>1 DEF Served, Sending
    <3>2. history'.lost \in [Sinks -> Nat]
      BY DEF Served, IsHistory
    <3> QED BY <2>1, <3>1, <3>2
  <2>3. \A s \in Sinks : s > k + 1 => received'[s] = 0
    BY <1>1, SinksNumbered DEF Served, Sending
  <2>4. \A s \in Sinks : s < k + 1 => s <= k
    BY <1>1, SinksNumbered
  <2>5. Sending'
    BY <1>2, <1>3, <2>1, <2>2, <2>3, <2>4 DEF Sending
  <2>6. call'.at = "send"
    BY <1>2, <1>5
  <2>7. RecordsOK'
    BY <1>2 DEF RecordsOK, Served
  <2>8. FanOutInv'
    BY <1>4, <2>5, <2>6, <2>7, Zenon DEF FanOutInv
  <2> QED BY <1>2, <2>8
<1>6. CASE ~more
  <2>1. \A s \in Sinks : s <= k
    BY <1>1, <1>6, SinksNumbered
  <2>2. Sent'
    BY <1>3, <1>4, <2>1 DEF Sent
  <2> QED BY <1>2, <1>4, <1>6, <2>2 DEF FanOutInv, RecordsOK, Served
<1> QED BY <1>5, <1>6, <1>2

\* What the turn of a sink leaves in the history and with the sink.
LEMMA TurnRecorded ==
  ASSUME FanOutInv, call.kind = "alert", call.at = "send", NEW r \in {0, 1}, NEW l \in {0, 1},
         r <= 1 + l,
         Took(r), Turned(history', history, call.sink, l)
  PROVE  /\ Served
         /\ received'[call.sink] = received[call.sink] + r
         /\ history'.lost[call.sink] = history.lost[call.sink] + l
<1>1. Sending /\ call.sink \in Sinks /\ received \in [Sinks -> Nat] /\ IsHistory(history)
  BY DEF FanOutInv, Sending, RecordsOK
<1>2. l \in Nat
  OBVIOUS
<1>3. /\ IsHistory(history') /\ history'.tried = history.tried \union {call.sink}
      /\ history'.lost[call.sink] = history.lost[call.sink] + l
      /\ \A s \in Sinks \ {call.sink} : history'.lost[s] = history.lost[s]
      /\ history.lost \in [Sinks -> Nat]
  BY <1>1, <1>2, TurnHistory
<1>4. /\ received' \in [Sinks -> Nat] /\ received'[call.sink] = received[call.sink] + r
      /\ \A s \in Sinks \ {call.sink} : received'[s] = received[s]
  BY <1>1 DEF Took
<1>5. received[call.sink] <= history.lost[call.sink] /\ received[call.sink] \in Nat
      /\ history.lost[call.sink] \in Nat
  BY <1>1, <1>3 DEF Sending
<1>6. received'[call.sink] <= 1 + history'.lost[call.sink]
  BY <1>3, <1>4, <1>5
<1> QED BY <1>3, <1>4, <1>6 DEF Served

\* A turn in which no answer was lost.
LEMMA SameLost ==
  ASSUME IsHistory(history), NEW k \in Sinks, NEW t
  PROVE  /\ [history EXCEPT !.tried = t, !.lost[k] = @] = [history EXCEPT !.tried = t]
         /\ [history EXCEPT !.tried = t, !.lost[k] = @ + 0] = [history EXCEPT !.tried = t]
<1> PICK b, c, w, u, m :
      /\ m \in [Sinks -> Nat]
      /\ history = [before |-> b, came |-> c, went |-> w, tried |-> u, lost |-> m]
  BY Zenon DEF IsHistory
<1> DEFINE g == [history EXCEPT !.tried = t]
<1>1. g = [before |-> b, came |-> c, went |-> w, tried |-> t, lost |-> m]
  OBVIOUS
<1>2. history.lost = m /\ m = [m EXCEPT ![k] = m[k] + 0] /\ m = [m EXCEPT ![k] = m[k]]
  OBVIOUS
<1>3. /\ [history EXCEPT !.tried = t, !.lost[k] = @] = [g EXCEPT !.lost = [g.lost EXCEPT ![k] = g.lost[k]]]
      /\ [history EXCEPT !.tried = t, !.lost[k] = @ + 0] =
           [g EXCEPT !.lost = [g.lost EXCEPT ![k] = g.lost[k] + 0]]
  OBVIOUS
<1> HIDE DEF g
<1>4. g.lost = m /\ g = [g EXCEPT !.lost = m]
  BY <1>1
<1>5. /\ [g EXCEPT !.lost = [g.lost EXCEPT ![k] = g.lost[k]]] = g
      /\ [g EXCEPT !.lost = [g.lost EXCEPT ![k] = g.lost[k] + 0]] = g
  BY <1>2, <1>4
<1> QED BY <1>3, <1>5 DEF g

\* The turn of a sink: it takes the alert, refuses it, or is tried again.
LEMMA SinkSteps ==
  ASSUME FanOutInv, SinkStep
  PROVE  /\ FanOutInv' /\ call.kind = "alert"
         /\ cancelled => call'.attempt <= call.attempt
<1>1. call.kind = "alert" /\ call.at = "send" /\ IsCall(call) /\ Sending
  BY DEF SinkStep, SinkAccepts, SinkRefuses, SinkFails, Is, FanOutInv, RecordsOK
<1>2. /\ call.attempt \in Nat /\ received \in [Sinks -> Nat] /\ call.sink \in Sinks
      /\ IsHistory(history)
  BY <1>1, CallFields DEF FanOutInv, RecordsOK, Sending
<1>3. ASSUME Took(1), NEW l \in {0, 1}, Turned(history', history, call.sink, l), SinkReturns(FALSE)
      PROVE  FanOutInv' /\ call'.attempt = 0
  <2>0. 1 \in {0, 1} /\ 1 <= 1 + l
    OBVIOUS
  <2>1. Served /\ received'[call.sink] = received[call.sink] + 1
    BY <1>1, <1>3, <2>0, TurnRecorded
  <2>2. received'[call.sink] > 0
    BY <1>2, <2>1
  <2> QED BY <1>1, <1>3, <2>1, <2>2, SinkReturned
<1>7. ASSUME NEW r \in {0, 1}, NEW l \in {0, 1}, r <= 1 + l, Took(r),
             Turned(history', history, call.sink, l), SinkReturns(TRUE)
      PROVE  FanOutInv' /\ call'.attempt = 0
  <2>1. Served
    BY <1>1, <1>7, TurnRecorded
  <2> QED BY <1>1, <1>7, <2>1, SinkReturned
<1>0. /\ \A h : h = [history EXCEPT !.tried = @ \union {call.sink}] => Turned(h, history, call.sink, 0)
      /\ received = [received EXCEPT ![call.sink] = @ + 0]
  <2>1. received = [received EXCEPT ![call.sink] = @ + 0]
    BY <1>2
  <2>2. Turned([history EXCEPT !.tried = @ \union {call.sink}], history, call.sink, 0)
    BY <1>2, SameLost DEF Turned
  <2> QED BY <2>1, <2>2
<1>4. CASE SinkAccepts
  <2>1. Turned(history', history, call.sink, 0) /\ SinkReturns(FALSE)
        /\ Took(1)
    BY <1>0, <1>4 DEF SinkAccepts, Took
  <2>2. FanOutInv' /\ call'.attempt = 0
    BY <1>3, <2>1
  <2> QED BY <1>1, <1>2, <2>2
<1>5. CASE SinkRefuses
  <2>1. Turned(history', history, call.sink, 0) /\ SinkReturns(TRUE)
        /\ Took(0)
    BY <1>0, <1>5 DEF SinkRefuses, Took
  <2>2. FanOutInv' /\ call'.attempt = 0
    BY <1>7, <2>1
  <2> QED BY <1>1, <1>2, <2>2
<1>6. ASSUME NEW taken \in BOOLEAN, SinkFails(taken)
      PROVE  FanOutInv' /\ (cancelled => call'.attempt <= call.attempt)
  <2> DEFINE r == IF taken THEN 1 ELSE 0
  <2>1. Took(r) /\ Turned(history', history, call.sink, r) /\ AfterFailure
    <3>1. CASE taken = TRUE
      BY <1>6, <3>1 DEF SinkFails, Turned, Took
    <3>2. CASE taken = FALSE
      <4>1. received' = [received EXCEPT ![call.sink] = @] /\ AfterFailure
            /\ history' = [history EXCEPT !.tried = @ \union {call.sink}, !.lost[call.sink] = @]
        BY <1>6, <3>2 DEF SinkFails
      <4>2. Took(0)
        <5>1. [received EXCEPT ![call.sink] = @] = received
          BY <1>2
        <5> QED BY <1>0, <4>1, <5>1 DEF Took
      <4>3. history' = [history EXCEPT !.tried = @ \union {call.sink}]
        BY <1>2, <4>1, SameLost
      <4> QED BY <1>0, <3>2, <4>1, <4>2, <4>3
    <3> QED BY <3>1, <3>2
  <2>2. r \in {0, 1} /\ r <= 1 + r
    OBVIOUS
  <2> HIDE DEF r
  <2>3. CASE SinkReturns(TRUE)
    <3>1. FanOutInv' /\ call'.attempt = 0
      BY <1>7, <2>1, <2>2, <2>3
    <3> QED BY <1>2, <3>1
  <2>4. CASE ~SinkReturns(TRUE)
    <3>1. ~cancelled /\ call' = [call EXCEPT !.attempt = @ + 1]
      BY <2>1, <2>4 DEF AfterFailure
    <3>2. IsCall(call') /\ call'.kind = "alert" /\ call'.at = "send" /\ call'.sink = call.sink
          /\ call'.failed = call.failed
      BY <1>1, <1>2, <3>1, CallFields
    <3>3. Served /\ received'[call.sink] = received[call.sink] + r
          /\ history'.lost[call.sink] = history.lost[call.sink] + r
      BY <1>1, <2>1, <2>2, TurnRecorded
    <3>4. history.lost \in [Sinks -> Nat] /\ history'.lost \in [Sinks -> Nat]
      BY <1>2, <3>3 DEF Served, IsHistory
    <3>5. received[call.sink] \in Nat /\ history.lost[call.sink] \in Nat
      BY <1>2, <3>4
    <3>6. Sending'
      <4>1. received'[call.sink] <= history'.lost[call.sink]
        BY <1>1, <2>2, <3>3, <3>5 DEF Sending
      <4>2. ASSUME NEW s \in Sinks, s # call.sink
            PROVE  received'[s] = received[s] /\ history'.lost[s] = history.lost[s]
        BY <3>3, <4>2 DEF Served
      <4>3. \A s \in Sinks : s > call.sink => received'[s] = 0
        BY <1>1, <1>2, <4>2, SinksNumbered DEF Sending
      <4>4. ASSUME NEW s \in Sinks, s < call.sink
            PROVE  /\ s \in history'.tried
                   /\ received'[s] <= 1 + history'.lost[s]
                   /\ ~call'.failed => received'[s] > 0
        <5>1. s # call.sink
          BY <1>2, <4>4, SinksNumbered
        <5>2. s \in history'.tried
          BY <1>1, <3>3, <4>4 DEF Sending, Served
        <5> QED BY <1>1, <3>2, <4>2, <4>4, <5>1, <5>2 DEF Sending
      <4> QED BY <1>2, <3>2, <4>1, <4>3, <4>4 DEF Sending
    <3>7. history'.tried \subseteq Sinks
      BY <1>1, <1>2, <3>3 DEF Served, FanOutInv
    <3>8. RecordsOK'
      BY <3>2, <3>3 DEF RecordsOK, Served
    <3> QED BY <3>1, <3>2, <3>6, <3>7, <3>8 DEF FanOutInv
  <2> QED BY <2>3, <2>4
<1> QED BY <1>1, <1>4, <1>5, <1>6 DEF SinkStep

\* A fan-out begins with the first sink; without sinks it has failed.
LEMMA FanOutBegins ==
  ASSUME FanOutInv, BeginFanOut
  PROVE  FanOutInv' /\ call.kind # "alert"
<1>1. call.kind # "alert"
  BY DEF BeginFanOut, FanOutInv
<1>2. /\ IsHistory(history') /\ history'.tried = {}
      /\ \A s \in Sinks : history'.lost[s] = 0
  BY Begin DEF BeginFanOut
<1>3. received' = [s \in Sinks |-> 0] /\ received' \in [Sinks -> Nat]
  BY DEF BeginFanOut
<1>4. CASE Sinks = {}
  <2> DEFINE y1 == [NoCall EXCEPT !.kind = "alert"]
             y2 == [y1 EXCEPT !.at = "done"]
             y3 == [y2 EXCEPT !.failed = TRUE]
  <2>1. call' = y3
    BY <1>4 DEF BeginFanOut
  <2>2. IsCall(y1) /\ y1.kind = "alert"
    <3>1. IsCall(NoCall)
      BY BeginningOK
    <3> QED BY <3>1, CallFields
  <2> HIDE DEF y1
  <2>3. IsCall(y2) /\ y2.kind = "alert" /\ y2.at = "done"
    BY <2>2, CallFields
  <2> HIDE DEF y2
  <2>4. IsCall(y3) /\ y3.kind = "alert" /\ y3.at = "done"
    BY <2>3, CallFields
  <2> HIDE DEF y3
  <2>5. Sent'
    BY <1>2, <1>4 DEF Sent
  <2>6. RecordsOK'
    BY <1>2, <1>3, <2>1, <2>4 DEF RecordsOK
  <2> QED BY <1>1, <1>2, <2>1, <2>4, <2>5, <2>6 DEF FanOutInv
<1>5. CASE Sinks # {}
  <2> DEFINE y1 == [NoCall EXCEPT !.kind = "alert"]
             y2 == [y1 EXCEPT !.at = "send"]
             y3 == [y2 EXCEPT !.sink = 1]
  <2>1. call' = y3
    BY <1>5 DEF BeginFanOut
  <2>2. IsCall(y1) /\ y1.kind = "alert"
    <3>1. IsCall(NoCall)
      BY BeginningOK
    <3> QED BY <3>1, CallFields
  <2> HIDE DEF y1
  <2>3. IsCall(y2) /\ y2.kind = "alert" /\ y2.at = "send"
    BY <2>2, CallFields
  <2> HIDE DEF y2
  <2>4. IsCall(y3) /\ y3.kind = "alert" /\ y3.at = "send" /\ y3.sink = 1
    BY <2>3, CallFields
  <2> HIDE DEF y3
  <2>5. 1 \in Sinks /\ \A s \in Sinks : s >= 1
    BY <1>5, SinksNumbered
  <2>6. Sending'
    BY <1>2, <1>3, <2>1, <2>4, <2>5, SinksNumbered DEF Sending
  <2>7. RecordsOK'
    BY <1>2, <1>3, <2>1, <2>4 DEF RecordsOK
  <2> QED BY <1>1, <1>2, <2>1, <2>4, <2>6, <2>7 DEF FanOutInv
<1> QED BY <1>4, <1>5

\* What the world does meanwhile, and the return of a call.
LEMMA OtherSteps ==
  ASSUME FanOutInv,
         Return \/ Shutdown \/ (\E u \in Users : Star(u) \/ Unstar(u)) \/ UNCHANGED vars
  PROVE  FanOutInv' /\ call'.attempt <= call.attempt
<1>1. IsCall(call) /\ IsHistory(history) /\ call.attempt \in Nat
  BY CallFields DEF FanOutInv, RecordsOK
<1>2. CASE Return
  <2>1. call' = NoCall /\ UNCHANGED <<received, history>>
    BY <1>2 DEF Return
  <2>2. IsCall(NoCall) /\ NoCall.kind # "alert" /\ NoCall.attempt = 0
    BY BeginningOK
  <2>3. IsCall(call') /\ call'.kind # "alert" /\ call'.attempt = 0
    BY <2>1, <2>2
  <2>4. RecordsOK'
    BY <1>1, <2>1, <2>3 DEF FanOutInv, RecordsOK
  <2> QED BY <1>1, <2>3, <2>4 DEF FanOutInv
<1>3. CASE Shutdown \/ UNCHANGED vars
  <2>1. UNCHANGED <<call, received, history>>
    BY <1>3 DEF Shutdown, vars
  <2> QED BY <1>1, <2>1 DEF FanOutInv, RecordsOK, Sending, Sent
<1>4. ASSUME NEW u \in Users, Star(u) \/ Unstar(u) PROVE FanOutInv' /\ call'.attempt <= call.attempt
  <2>1. UNCHANGED <<call, received>>
    BY <1>4 DEF Star, Unstar
  <2>2. \E v : history' = [history EXCEPT !.came = v] \/ history' = [history EXCEPT !.went = v]
    BY <1>4 DEF Star, Unstar
  <2>3. IsHistory(history') /\ history'.tried = history.tried /\ history'.lost = history.lost
    BY <1>1, <2>2, ListMoved
  <2> QED BY <1>1, <2>1, <2>3 DEF FanOutInv, RecordsOK, Sending, Sent
<1> QED BY <1>2, <1>3, <1>4

\* A retry after the shutdown is no step.
RetriesEnd == cancelled /\ call.kind = "alert" => call'.attempt <= call.attempt

\* Init and every step keep the invariant, and the retries end with the context.
LEMMA FanOutStep ==
  /\ Init => FanOutInv
  /\ FanOutInv /\ [Next]_vars => FanOutInv' /\ RetriesEnd
<1>1. Init => FanOutInv
  <2> SUFFICES ASSUME Init PROVE FanOutInv
    OBVIOUS
  <2>1. IsCall(call) /\ call.kind # "alert"
    BY BeginningOK DEF Init
  <2>2. IsHistory(history)
    <3> DEFINE l == [s \in Sinks |-> 0]
    <3>1. l \in [Sinks -> Nat]
      OBVIOUS
    <3>2. history = [before |-> {}, came |-> FALSE, went |-> FALSE, tried |-> {}, lost |-> l]
      BY DEF Init, Quiet
    <3> HIDE DEF l
    <3> QED BY <3>1, <3>2, AnyHistory
  <2>3. received \in [Sinks -> Nat]
    BY DEF Init
  <2> QED BY <2>1, <2>2, <2>3 DEF FanOutInv, RecordsOK
<1> SUFFICES ASSUME FanOutInv, [Next]_vars PROVE FanOutInv' /\ RetriesEnd
  BY <1>1
<1>2. CASE \/ BeginRequest("get", 0, 0) \/ BeginRequest("full", 0, 0)
           \/ \E n \in 1 .. Cardinality(Users), t \in Cursors : BeginRequest("recent", n, t)
           \/ GitHubStep
  <2>1. \/ \E kind \in {"get", "full", "recent"} : \E n, t : BeginRequest(kind, n, t)
        \/ GitHubStep
    BY <1>2
  <2> QED BY <2>1, RequestSteps DEF RetriesEnd
<1>3. CASE BeginFanOut
  BY <1>3, FanOutBegins DEF RetriesEnd
<1>4. CASE SinkStep
  BY <1>4, SinkSteps DEF RetriesEnd
<1>5. CASE Return \/ Shutdown \/ (\E u \in Users : Star(u) \/ Unstar(u)) \/ UNCHANGED vars
  BY <1>5, OtherSteps DEF RetriesEnd
<1> QED BY <1>2, <1>3, <1>4, <1>5 DEF Next

\* FanOut returns nil only when every sink has the alert, tries all of them, and
\* a sink gets a second copy only after a lost answer (sender.go, http.go).
THEOREM FanOutIsTruthful == Spec => []FanOutTruthful
<1>1. FanOutInv => FanOutTruthful
  <2> SUFFICES ASSUME FanOutInv, call.kind = "alert"
               PROVE  /\ call.at = "done" =>
                           /\ history.tried = Sinks
                           /\ ~call.failed => \A s \in Sinks : received[s] > 0
                      /\ \A s \in Sinks : received[s] <= 1 + history.lost[s]
    BY DEF FanOutTruthful
  <2>1. CASE call.at = "done" /\ Sent
    BY <2>1 DEF Sent
  <2>2. CASE call.at = "send" /\ Sending
    <3>1. /\ received \in [Sinks -> Nat] /\ IsHistory(history)
      BY DEF FanOutInv, RecordsOK
    <3>2. history.lost \in [Sinks -> Nat]
      BY <3>1 DEF IsHistory
    <3> QED BY <2>2, <3>1, <3>2, SinksNumbered DEF Sending
  <2> QED BY <2>1, <2>2 DEF FanOutInv
<1> QED BY <1>1, FanOutStep, PTL DEF Spec

\* After the shutdown no sink is tried again (sleepCtx in postJSONWithRetryClient).
THEOREM ShutdownEndsRetries == Spec => NoRetryAfterShutdown
<1>1. FanOutInv /\ [Next]_vars => [RetriesEnd]_vars
  BY FanOutStep
<1> QED BY <1>1, FanOutStep, PTL DEF Spec, NoRetryAfterShutdown, RetriesEnd

-----------------------------------------------------------------------------
(* The pages of a list                                                     *)

\* A set of numbers that is not empty has a least one.
LEMMA Least ==
  ASSUME NEW S \in SUBSET Nat, S # {}
  PROVE  Min(S) \in S /\ \A y \in S : Min(S) <= y
<1>1. \E x \in S : \A y \in S : <<y, x>> \notin OpToRel(<, Nat)
  BY NatLessThanWellFounded, WFMin, Zenon
<1>2. \E x \in S : \A y \in S : ~ (y < x)
  BY <1>1, Zenon DEF OpToRel
<1>3. \E x \in S : \A y \in S : x <= y
  BY <1>2
<1> QED BY <1>3 DEF Min

Gazers == [user : Users, at : Nat]

\* The stars are listed newest first, each at a time of its own.
ListOK ==
  /\ list \in Seq(Gazers) /\ changes \in Nat
  /\ \A i \in DOMAIN list : list[i].at <= changes
  /\ \A i, j \in DOMAIN list : i < j => list[i].at > list[j].at

\* The stars before the page to be asked for.
Passed == (call.page - 1) * PageSize

\* How far the pages have come: those passed are in the answer, unless they went, and
\* those ahead are not, unless they moved there.
FullPart ==
  /\ history.before \subseteq ToSet(list)
  /\ \A i \in DOMAIN list : i <= Passed /\ list[i] \in history.before => list[i] \in ToSet(call.out)
OncePart ==
  /\ IsInjective(call.out)
  /\ \A i \in DOMAIN list : i > Passed => list[i] \notin ToSet(call.out)
RecentPart ==
  /\ Len(call.out) = Passed /\ Passed <= Len(list)
  /\ \A i \in 1 .. Passed : call.out[i] = list[i] /\ list[i].at > call.stopAt

Paging ==
  /\ call.kind = "recent" /\ call.maxNew > 0 => Len(call.out) < call.maxNew
  /\ call.kind = "full" /\ ~history.went => FullPart
  /\ ~history.came => OncePart
  /\ call.kind = "recent" /\ ~history.came /\ ~history.went => RecentPart

\* PagesAreWhole of a call that has its pages.
Whole ==
  /\ call.kind = "full" /\ ~history.went => history.before \subseteq ToSet(call.out)
  /\ ~history.came => IsInjective(call.out)
  /\ call.kind = "recent" /\ ~history.came /\ ~history.went =>
       call.out = Restrict(list, {i \in DOMAIN list : /\ list[i].at > call.stopAt
                                                      /\ call.maxNew > 0 => i <= call.maxNew})

Reading == call.kind \in {"full", "recent"}
PagesOK ==
  /\ call.page \in Nat \ {0} /\ call.out \in Seq(Gazers)
  /\ call.maxNew \in Nat /\ call.stopAt \in Nat
PagesInv ==
  /\ ListOK
  /\ Reading => /\ PagesOK
                /\ call.at \in {"send", "wait", "done"}
                /\ call.at \in {"send", "wait"} => Paging
                /\ call.at = "done" => call.failed \/ Whole

-----------------------------------------------------------------------------
\* The stars passed are counted page by page.
LEMMA PassedIs ==
  ASSUME NEW p \in Nat \ {0}
  PROVE  /\ (p - 1) * PageSize \in Nat /\ PageSize \in Nat \ {0}
         /\ p * PageSize = (p - 1) * PageSize + PageSize
BY OutboundAssumption

\* A beginning of a sequence.
LEMMA UpToIs ==
  ASSUME NEW S, NEW s \in Seq(S), NEW n \in Nat
  PROVE  /\ UpTo(s, n) \in Seq(S) /\ Len(UpTo(s, n)) = IF n < Len(s) THEN n ELSE Len(s)
         /\ \A i \in 1 .. Len(UpTo(s, n)) : UpTo(s, n)[i] = s[i]
<1> DEFINE m == IF n < Len(s) THEN n ELSE Len(s)
<1>1. m \in Nat /\ m <= Len(s) /\ Len(s) \in Nat
  OBVIOUS
<1>2. UpTo(s, n) = SubSeq(s, 1, m)
  BY DEF UpTo
<1> HIDE DEF m
<1>3. \A i \in 1 .. m : s[i] \in S
  BY <1>1, ElementOfSeq
<1>4. /\ SubSeq(s, 1, m) \in Seq(S) /\ Len(SubSeq(s, 1, m)) = IF 1 <= m THEN m - 1 + 1 ELSE 0
      /\ \A i \in 1 .. m - 1 + 1 : SubSeq(s, 1, m)[i] = s[1 + i - 1]
  BY <1>1, <1>3, SubSeqProperties
<1>5. Len(SubSeq(s, 1, m)) = m
  BY <1>1, <1>4
<1>6. \A i \in 1 .. m : SubSeq(s, 1, m)[i] = s[i]
  BY <1>1, <1>4
<1> QED BY <1>2, <1>4, <1>5, <1>6 DEF m

\* A page holds the stars that follow those passed.
LEMMA PageIs ==
  ASSUME ListOK, NEW p \in Nat \ {0}
  PROVE  LET n == (p - 1) * PageSize
             page == PageAt(p)
         IN /\ page \in Seq(Gazers) /\ Len(page) \in Nat /\ Len(page) <= PageSize
            /\ Len(list) <= n => Len(page) = 0
            /\ Len(list) > n => /\ n + Len(page) <= Len(list)
                                /\ n + Len(page) = Len(list) \/ Len(page) = PageSize
            /\ \A i \in 1 .. Len(page) : n + i \in DOMAIN list /\ page[i] = list[n + i]
<1>1. PICK n, page, rest, tail :
        /\ n = (p - 1) * PageSize /\ page = PageAt(p) /\ rest = Len(UpTo(list, n))
        /\ tail = SubSeq(list, rest + 1, Len(list)) /\ page = UpTo(tail, PageSize)
  BY DEF PageAt
<1>2. n \in Nat /\ PageSize \in Nat \ {0}
  BY <1>1, PassedIs
<1>3. list \in Seq(Gazers) /\ Len(list) \in Nat
  BY DEF ListOK
<1>4. /\ rest \in Nat /\ rest <= Len(list)
      /\ n < Len(list) => rest = n
      /\ n >= Len(list) => rest = Len(list)
  <2>1. rest = IF n < Len(list) THEN n ELSE Len(list)
    BY <1>1, <1>2, <1>3, UpToIs
  <2>2. CASE n < Len(list)
    BY <1>2, <1>3, <2>1, <2>2
  <2>3. CASE ~(n < Len(list))
    BY <1>2, <1>3, <2>1, <2>3
  <2> QED BY <2>2, <2>3
<1>5. \A i \in rest + 1 .. Len(list) : list[i] \in Gazers
  BY <1>3, <1>4, ElementOfSeq
<1>6. /\ tail \in Seq(Gazers)
      /\ Len(tail) = IF rest + 1 <= Len(list) THEN Len(list) - (rest + 1) + 1 ELSE 0
      /\ \A i \in 1 .. Len(list) - (rest + 1) + 1 : tail[i] = list[rest + 1 + i - 1]
  <2>1. rest + 1 \in Int /\ Len(list) \in Int
    BY <1>3, <1>4
  <2> QED BY <1>1, <1>5, <2>1, SubSeqProperties
<1>7. Len(tail) = Len(list) - rest /\ Len(tail) \in Nat
  BY <1>3, <1>4, <1>6
<1>8. \A i \in 1 .. Len(tail) : tail[i] = list[rest + i]
  BY <1>3, <1>4, <1>6, <1>7
<1>9. /\ page \in Seq(Gazers)
      /\ Len(page) = IF PageSize < Len(tail) THEN PageSize ELSE Len(tail)
      /\ \A i \in 1 .. Len(page) : page[i] = tail[i]
  <2>1. page = UpTo(tail, PageSize) /\ PageSize \in Nat
    BY <1>1, <1>2
  <2> QED BY <1>6, <2>1, UpToIs
<1>10. /\ Len(page) \in Nat /\ Len(page) <= PageSize /\ Len(page) <= Len(tail)
       /\ Len(page) = PageSize \/ Len(page) = Len(tail)
  BY <1>2, <1>7, <1>9
<1>11. Len(list) <= n => Len(page) = 0
  BY <1>2, <1>3, <1>4, <1>7, <1>10
<1>12. Len(list) > n => /\ n + Len(page) <= Len(list)
                        /\ n + Len(page) = Len(list) \/ Len(page) = PageSize
  BY <1>2, <1>3, <1>4, <1>7, <1>10
<1>13. \A i \in 1 .. Len(page) : n + i \in DOMAIN list /\ page[i] = list[n + i]
  <2> SUFFICES ASSUME NEW i \in 1 .. Len(page) PROVE n + i \in DOMAIN list /\ page[i] = list[n + i]
    OBVIOUS
  <2>1. i \in 1 .. Len(tail) /\ page[i] = tail[i]
    BY <1>7, <1>9, <1>10
  <2>2. rest = n
    BY <1>2, <1>3, <1>4, <1>7, <2>1
  <2>3. tail[i] = list[n + i]
    BY <1>8, <2>1, <2>2
  <2>4. n + i \in 1 .. Len(list)
    BY <1>2, <1>3, <1>7, <2>1, <2>2
  <2>5. DOMAIN list = 1 .. Len(list)
    BY <1>3
  <2> QED BY <2>1, <2>3, <2>4, <2>5
<1> QED BY <1>1, <1>9, <1>10, <1>11, <1>12, <1>13

\* t is the beginning of a page that StargazersRecent takes: the next star is too old
\* or one too many.
FirstOfPage(t, page, out, maxNew, stopAt) ==
  /\ t \in Seq(Gazers) /\ Len(t) \in Nat /\ Len(t) <= Len(page)
  /\ \A i \in 1 .. Len(t) : t[i] = page[i] /\ page[i].at > stopAt
  /\ maxNew > 0 => Len(out) + Len(t) <= maxNew
  /\ Len(t) < Len(page) => \/ page[Len(t) + 1].at <= stopAt
                           \/ maxNew > 0 /\ Len(out) + Len(t) = maxNew

\* That is what it takes.
LEMMA TakenIs ==
  ASSUME NEW page \in Seq(Gazers), NEW out \in Seq(Gazers), NEW maxNew \in Nat, NEW stopAt \in Nat,
         maxNew > 0 => Len(out) < maxNew
  PROVE  FirstOfPage(Taken(page, out, maxNew, stopAt), page, out, maxNew, stopAt)
<1> DEFINE I == {i \in 1 .. Len(page) : page[i].at <= stopAt}
           old == IF I # {} THEN Min(I) ELSE 0
           fresh == IF old = 0 THEN page ELSE UpTo(page, old - 1)
           taken == Taken(page, out, maxNew, stopAt)
<1>1. taken = IF maxNew > 0 THEN UpTo(fresh, maxNew - Len(out)) ELSE fresh
  BY DEF Taken, SelectInSeq
<1> HIDE DEF taken
<1>2. \A i \in 1 .. Len(page) : page[i].at \in Nat
  <2> SUFFICES ASSUME NEW i \in 1 .. Len(page) PROVE page[i].at \in Nat
    OBVIOUS
  <2>1. page[i] \in Gazers
    BY ElementOfSeq
  <2> QED BY <2>1 DEF Gazers
<1>3. /\ old \in 0 .. Len(page)
      /\ old # 0 => page[old].at <= stopAt /\ \A i \in 1 .. Len(page) : i < old => page[i].at > stopAt
      /\ old = 0 => \A i \in 1 .. Len(page) : page[i].at > stopAt
  <2>1. CASE I = {}
    <3>1. \A i \in 1 .. Len(page) : page[i].at > stopAt
      BY <1>2, <2>1
    <3> QED BY <2>1, <3>1
  <2>2. CASE I # {}
    <3>1. I \in SUBSET Nat /\ I \subseteq 1 .. Len(page)
      OBVIOUS
    <3>2. Min(I) \in I /\ \A y \in I : Min(I) <= y
      <4> HIDE DEF I
      <4> QED BY <2>2, <3>1, Least
    <3>3. old = Min(I)
      BY <2>2
    <3> HIDE DEF old
    <3>4. old \in 1 .. Len(page) /\ page[old].at <= stopAt
      BY <3>2, <3>3
    <3>5. \A i \in 1 .. Len(page) : i < old => page[i].at > stopAt
      <4> SUFFICES ASSUME NEW i \in 1 .. Len(page), i < old PROVE page[i].at > stopAt
        OBVIOUS
      <4>1. i \notin I
        BY <3>2, <3>3, <3>4
      <4> QED BY <1>2, <4>1
    <3> QED BY <3>4, <3>5
  <2> QED BY <2>1, <2>2
<1> HIDE DEF old
<1>4. /\ fresh \in Seq(Gazers) /\ Len(fresh) \in Nat /\ Len(fresh) <= Len(page)
      /\ \A i \in 1 .. Len(fresh) : fresh[i] = page[i] /\ page[i].at > stopAt
      /\ Len(fresh) < Len(page) => page[Len(fresh) + 1].at <= stopAt
  <2>1. CASE old = 0
    BY <1>3, <2>1
  <2>2. CASE old # 0
    <3>1. old - 1 \in Nat /\ old - 1 < Len(page) /\ fresh = UpTo(page, old - 1)
      BY <1>3, <2>2
    <3> HIDE DEF fresh
    <3>2. fresh \in Seq(Gazers) /\ Len(fresh) = old - 1 /\ \A i \in 1 .. Len(fresh) : fresh[i] = page[i]
      BY <3>1, UpToIs
    <3>3. \A i \in 1 .. Len(fresh) : page[i].at > stopAt
      BY <1>3, <2>2, <3>1, <3>2
    <3>4. Len(fresh) + 1 = old
      BY <1>3, <3>1, <3>2
    <3>5. page[Len(fresh) + 1].at <= stopAt
      BY <1>3, <2>2, <3>4
    <3>6. Len(fresh) \in Nat /\ Len(fresh) <= Len(page)
      BY <1>3, <3>1, <3>2
    <3> QED BY <3>2, <3>3, <3>5, <3>6
  <2> QED BY <2>1, <2>2
<1> HIDE DEF fresh
<1>5. CASE maxNew = 0
  <2>1. taken = fresh
    BY <1>1, <1>5
  <2> QED BY <1>4, <1>5, <2>1 DEF taken, FirstOfPage
<1>6. CASE maxNew > 0
  <2>1. maxNew - Len(out) \in Nat /\ taken = UpTo(fresh, maxNew - Len(out)) /\ Len(out) \in Nat
    BY <1>1, <1>6
  <2>2. /\ taken \in Seq(Gazers) /\ \A i \in 1 .. Len(taken) : taken[i] = fresh[i]
        /\ Len(taken) = IF maxNew - Len(out) < Len(fresh) THEN maxNew - Len(out) ELSE Len(fresh)
    BY <1>4, <2>1, UpToIs
  <2>3. /\ Len(taken) \in Nat /\ Len(taken) <= Len(fresh) /\ Len(out) + Len(taken) <= maxNew
        /\ Len(taken) < Len(fresh) => Len(out) + Len(taken) = maxNew
    BY <1>4, <2>1, <2>2
  <2>4. \A i \in 1 .. Len(taken) : taken[i] = page[i] /\ page[i].at > stopAt
    BY <1>4, <2>2, <2>3
  <2>5. Len(taken) < Len(page) => \/ page[Len(taken) + 1].at <= stopAt
                                  \/ Len(out) + Len(taken) = maxNew
    BY <1>4, <2>2, <2>3
  <2> QED BY <1>4, <1>6, <2>2, <2>3, <2>4, <2>5 DEF taken, FirstOfPage
<1> QED BY <1>5, <1>6

-----------------------------------------------------------------------------
\* The fields of a call that concern its pages, after a page or without one.
LEMMA PageFields ==
  ASSUME NEW x, IsCall(x), NEW a, NEW t, NEW p, NEW o
  PROVE  LET y == [x EXCEPT !.out = o, !.attempt = t, !.page = p, !.at = a]
         IN /\ y.kind = x.kind /\ y.maxNew = x.maxNew /\ y.stopAt = x.stopAt
            /\ y.out = o /\ y.page = p /\ y.at = a /\ y.failed = x.failed
<1> PICK k0, a0, t0, p0, o0, m0, u0, s0, f0 :
      x = [kind |-> k0, at |-> a0, attempt |-> t0, page |-> p0, out |-> o0,
           maxNew |-> m0, stopAt |-> u0, sink |-> s0, failed |-> f0]
  BY Zenon DEF IsCall
<1> DEFINE R(a1, t1, p1, o1) ==
      [kind |-> k0, at |-> a1, attempt |-> t1, page |-> p1, out |-> o1,
       maxNew |-> m0, stopAt |-> u0, sink |-> s0, failed |-> f0]
<1>1. [x EXCEPT !.out = o, !.attempt = t, !.page = p, !.at = a] = R(a, t, p, o)
  <2> DEFINE y1 == [x EXCEPT !.out = o]
             y2 == [y1 EXCEPT !.attempt = t]
             y3 == [y2 EXCEPT !.page = p]
             y4 == [y3 EXCEPT !.at = a]
  <2>1. [x EXCEPT !.out = o, !.attempt = t, !.page = p, !.at = a] = y4
    OBVIOUS
  <2>2. y1 = R(a0, t0, p0, o)
    OBVIOUS
  <2> HIDE DEF y1
  <2>3. y2 = R(a0, t, p0, o)
    BY <2>2
  <2> HIDE DEF y2
  <2>4. y3 = R(a0, t, p, o)
    BY <2>3
  <2> HIDE DEF y3
  <2>5. y4 = R(a, t, p, o)
    BY <2>4
  <2> QED BY <2>1, <2>5
<1> QED BY <1>1

\* y is the call x moved to another point, perhaps with another attempt or a failure.
Moved(y, x, a) ==
  \E t, f : \/ y = [x EXCEPT !.at = a] \/ y = [x EXCEPT !.at = a, !.attempt = t]
            \/ y = [x EXCEPT !.at = a, !.failed = f]

\* Its pages are the same.
LEMMA CallMoves ==
  ASSUME NEW x, IsCall(x), NEW a, NEW y, Moved(y, x, a)
  PROVE  /\ y.kind = x.kind /\ y.maxNew = x.maxNew /\ y.stopAt = x.stopAt
         /\ y.out = x.out /\ y.page = x.page /\ y.at = a
<1> PICK t, f : \/ y = [x EXCEPT !.at = a] \/ y = [x EXCEPT !.at = a, !.attempt = t]
                \/ y = [x EXCEPT !.at = a, !.failed = f]
  BY DEF Moved
<1> PICK k0, a0, t0, p0, o0, m0, u0, s0, f0 :
      x = [kind |-> k0, at |-> a0, attempt |-> t0, page |-> p0, out |-> o0,
           maxNew |-> m0, stopAt |-> u0, sink |-> s0, failed |-> f0]
  BY Zenon DEF IsCall
<1>1. \E t1, f1 : y = [kind |-> k0, at |-> a, attempt |-> t1, page |-> p0, out |-> o0,
                       maxNew |-> m0, stopAt |-> u0, sink |-> s0, failed |-> f1]
  <2>1. CASE y = [x EXCEPT !.at = a]
    <3>1. y = [kind |-> k0, at |-> a, attempt |-> t0, page |-> p0, out |-> o0,
               maxNew |-> m0, stopAt |-> u0, sink |-> s0, failed |-> f0]
      BY <2>1
    <3> QED BY <3>1
  <2>2. CASE y = [x EXCEPT !.at = a, !.attempt = t]
    <3>1. y = [kind |-> k0, at |-> a, attempt |-> t, page |-> p0, out |-> o0,
               maxNew |-> m0, stopAt |-> u0, sink |-> s0, failed |-> f0]
      BY <2>2
    <3> QED BY <3>1
  <2>3. CASE y = [x EXCEPT !.at = a, !.failed = f]
    <3>1. y = [kind |-> k0, at |-> a, attempt |-> t0, page |-> p0, out |-> o0,
               maxNew |-> m0, stopAt |-> u0, sink |-> s0, failed |-> f]
      BY <2>3
    <3> QED BY <3>1
  <2> QED BY <2>1, <2>2, <2>3
<1> QED BY <1>1

\* The page holds the stars from n on, taken is its beginning, and o is out with that
\* appended.
Follows(page, n) ==
  /\ page \in Seq(Gazers) /\ Len(page) <= PageSize
  /\ \A i \in 1 .. Len(page) : n + i \in DOMAIN list /\ page[i] = list[n + i]
Begins(taken, page) ==
  /\ taken \in Seq(Gazers) /\ Len(taken) <= Len(page)
  /\ \A i \in 1 .. Len(taken) : taken[i] = page[i]
Appended(o, out, taken, n) ==
  /\ o \in Seq(Gazers) /\ Len(o) = Len(out) + Len(taken)
  /\ \A i \in 1 .. Len(out) : o[i] = out[i]
  /\ \A i \in 1 .. Len(taken) : n + i \in DOMAIN list /\ o[Len(out) + i] = list[n + i]
  /\ ToSet(o) = ToSet(out) \union {list[n + i] : i \in 1 .. Len(taken)}

\* A page is appended to the answer.
LEMMA PageAppended ==
  ASSUME ListOK, NEW n \in Nat, NEW out \in Seq(Gazers), NEW page, NEW taken,
         PageSize \in Nat, Follows(page, n), Begins(taken, page)
  PROVE  Appended(out \o taken, out, taken, n)
<1>0. /\ page \in Seq(Gazers) /\ Len(page) <= PageSize
      /\ \A i \in 1 .. Len(page) : n + i \in DOMAIN list /\ page[i] = list[n + i]
      /\ taken \in Seq(Gazers) /\ Len(taken) <= Len(page)
      /\ \A i \in 1 .. Len(taken) : taken[i] = page[i]
  BY DEF Follows, Begins
<1>1. /\ out \o taken \in Seq(Gazers) /\ Len(out \o taken) = Len(out) + Len(taken)
      /\ \A i \in 1 .. Len(out) + Len(taken) :
           (out \o taken)[i] = IF i <= Len(out) THEN out[i] ELSE taken[i - Len(out)]
  BY <1>0, ConcatProperties
<1>2. Len(out) \in Nat /\ Len(taken) \in Nat /\ Len(page) \in Nat
  BY <1>0
<1>3. \A i \in 1 .. Len(out) : (out \o taken)[i] = out[i]
  BY <1>1, <1>2
<1>4. \A i \in 1 .. Len(taken) : (out \o taken)[Len(out) + i] = taken[i]
  <2> SUFFICES ASSUME NEW i \in 1 .. Len(taken) PROVE (out \o taken)[Len(out) + i] = taken[i]
    OBVIOUS
  <2>1. Len(out) + i \in 1 .. Len(out) + Len(taken) /\ ~(Len(out) + i <= Len(out))
    BY <1>2
  <2>2. Len(out) + i - Len(out) = i
    BY <1>2
  <2> QED BY <1>1, <2>1, <2>2
<1>5. \A i \in 1 .. Len(taken) : n + i \in DOMAIN list /\ taken[i] = list[n + i]
  BY <1>0, <1>2
<1>6. ToSet(out \o taken) = ToSet(out) \union {list[n + i] : i \in 1 .. Len(taken)}
  <2>1. DOMAIN (out \o taken) = 1 .. Len(out) + Len(taken) /\ DOMAIN out = 1 .. Len(out)
    BY <1>1
  <2>2. ASSUME NEW j \in 1 .. Len(out) + Len(taken)
        PROVE  (out \o taken)[j] \in ToSet(out) \union {list[n + i] : i \in 1 .. Len(taken)}
    <3>1. CASE j <= Len(out)
      <4>1. j \in DOMAIN out
        BY <1>2, <2>1, <3>1
      <4> QED BY <1>1, <3>1, <4>1 DEF ToSet
    <3>2. CASE ~(j <= Len(out))
      <4>1. j - Len(out) \in 1 .. Len(taken)
        BY <1>2, <3>2
      <4>2. (out \o taken)[j] = list[n + (j - Len(out))]
        BY <1>1, <1>5, <3>2, <4>1
      <4> QED BY <4>1, <4>2
    <3> QED BY <3>1, <3>2
  <2>3. ASSUME NEW j \in 1 .. Len(out) PROVE out[j] \in ToSet(out \o taken)
    <3>1. j \in DOMAIN (out \o taken)
      BY <1>2, <2>1
    <3> QED BY <1>3, <3>1 DEF ToSet
  <2>4. ASSUME NEW i \in 1 .. Len(taken) PROVE list[n + i] \in ToSet(out \o taken)
    <3>1. Len(out) + i \in DOMAIN (out \o taken)
      BY <1>2, <2>1
    <3>2. (out \o taken)[Len(out) + i] = list[n + i]
      BY <1>4, <1>5
    <3> QED BY <3>1, <3>2 DEF ToSet
  <2> QED BY <2>1, <2>2, <2>3, <2>4 DEF ToSet
<1> QED BY <1>1, <1>3, <1>4, <1>5, <1>6 DEF Appended

\* Nobody is listed twice.
LEMMA ListOnce ==
  ASSUME ListOK, NEW i \in DOMAIN list, NEW j \in DOMAIN list, list[i] = list[j]
  PROVE  i = j
<1>1. \A l \in DOMAIN list : l \in Nat /\ list[l].at \in Nat
  <2> SUFFICES ASSUME NEW l \in DOMAIN list PROVE l \in Nat /\ list[l].at \in Nat
    OBVIOUS
  <2>1. list \in Seq(Gazers) /\ l \in 1 .. Len(list)
    BY DEF ListOK
  <2>2. list[l] \in Gazers
    BY <2>1, ElementOfSeq
  <2> QED BY <2>1, <2>2 DEF Gazers
<1>2. ~(i < j)
  BY <1>1 DEF ListOK
<1>3. ~(j < i)
  BY <1>1 DEF ListOK
<1> QED BY <1>1, <1>2, <1>3

\* The page asked for arrives, and the pages go on or are whole.
LEMMA PageStep ==
  ASSUME PagesInv, IsCall(call), PageArrives
  PROVE  PagesInv'
<1>1. /\ Reading /\ call.at = "send" /\ PagesOK /\ Paging /\ ListOK
      /\ UNCHANGED <<list, changes, history>>
  BY DEF PageArrives, Is, PagesInv, Reading
<1>2. PICK n, page, taken, out, stop, a :
        /\ n = Passed /\ page = PageAt(call.page)
        /\ taken = IF call.kind = "full" THEN page
                   ELSE Taken(page, call.out, call.maxNew, call.stopAt)
        /\ out = call.out \o taken
        /\ stop = (/\ call.kind = "recent"
                   /\ \/ Len(taken) < Len(page)
                      \/ call.maxNew > 0 /\ Len(out) >= call.maxNew)
        /\ a = IF HasNext(call.page) /\ ~stop THEN "send" ELSE "done"
        /\ call' = [call EXCEPT !.out = out, !.attempt = 0, !.page = call.page + 1, !.at = a]
  BY DEF PageArrives
<1>3. /\ call'.kind = call.kind /\ call'.maxNew = call.maxNew /\ call'.stopAt = call.stopAt
      /\ call'.out = out /\ call'.page = call.page + 1 /\ call'.at = a
  <2>1. call' = [call EXCEPT !.out = out, !.attempt = 0, !.page = call.page + 1, !.at = a]
    BY <1>2
  <2> QED BY <2>1, PageFields
<1>4. /\ n \in Nat /\ PageSize \in Nat \ {0} /\ call.page \in Nat \ {0}
      /\ call.page * PageSize = n + PageSize
  BY <1>1, <1>2, PassedIs DEF PagesOK, Passed
<1>5. Passed' = n + PageSize
  <2>1. call'.page - 1 = call.page
    BY <1>3, <1>4
  <2> QED BY <1>4, <2>1 DEF Passed
<1>6. /\ page \in Seq(Gazers) /\ Len(page) \in Nat /\ Len(page) <= PageSize
      /\ Len(list) <= n => Len(page) = 0
      /\ Len(list) > n => /\ n + Len(page) <= Len(list)
                          /\ n + Len(page) = Len(list) \/ Len(page) = PageSize
      /\ \A i \in 1 .. Len(page) : n + i \in DOMAIN list /\ page[i] = list[n + i]
  BY <1>1, <1>2, <1>4, PageIs DEF Passed
<1>7. /\ taken \in Seq(Gazers) /\ Len(taken) \in Nat /\ Len(taken) <= Len(page)
      /\ \A i \in 1 .. Len(taken) : taken[i] = page[i]
      /\ call.kind = "full" => taken = page
  <2>1. CASE call.kind = "full"
    BY <1>2, <1>6, <2>1
  <2>2. CASE call.kind = "recent"
    <3>1. taken = Taken(page, call.out, call.maxNew, call.stopAt)
      BY <1>2, <2>2
    <3>2. /\ call.out \in Seq(Gazers) /\ call.maxNew \in Nat /\ call.stopAt \in Nat
          /\ call.maxNew > 0 => Len(call.out) < call.maxNew
      BY <1>1, <2>2 DEF PagesOK, Paging
    <3>3. page \in Seq(Gazers)
      BY <1>6
    <3>4. FirstOfPage(taken, page, call.out, call.maxNew, call.stopAt)
      BY <3>1, <3>2, <3>3, TakenIs
    <3> QED BY <2>2, <3>4 DEF FirstOfPage
  <2> QED BY <1>1, <2>1, <2>2 DEF Reading
<1>8. /\ out \in Seq(Gazers) /\ Len(out) = Len(call.out) + Len(taken)
      /\ \A i \in 1 .. Len(call.out) : out[i] = call.out[i]
      /\ \A i \in 1 .. Len(taken) : n + i \in DOMAIN list /\ out[Len(call.out) + i] = list[n + i]
      /\ ToSet(out) = ToSet(call.out) \union {list[n + i] : i \in 1 .. Len(taken)}
  <2>1. call.out \in Seq(Gazers) /\ out = call.out \o taken
    BY <1>1, <1>2 DEF PagesOK
  <2>2. Follows(page, n) /\ Begins(taken, page) /\ n \in Nat /\ PageSize \in Nat /\ ListOK
    BY <1>1, <1>4, <1>6, <1>7 DEF Follows, Begins
  <2>3. Appended(out, call.out, taken, n)
    BY <2>1, <2>2, PageAppended
  <2> QED BY <2>3 DEF Appended
<1>9. Len(call.out) \in Nat /\ list \in Seq(Gazers) /\ Len(list) \in Nat
  BY <1>1 DEF PagesOK, ListOK
<1>10. PagesOK' /\ Reading' /\ ListOK' /\ a \in {"send", "done"}
  <2>1. PagesOK'
    BY <1>1, <1>3, <1>4, <1>8 DEF PagesOK
  <2>2. Reading'
    BY <1>1, <1>3 DEF Reading
  <2>3. ListOK'
    BY <1>1 DEF ListOK
  <2>4. a \in {"send", "done"}
    BY <1>2
  <2> QED
    BY <2>1, <2>2, <2>3, <2>4
<1>11. /\ a = "send" => Len(list) > n + PageSize /\ ~stop
       /\ a = "done" => Len(list) <= n + PageSize \/ stop
  <2>1. HasNext(call.page) = (Len(list) > n + PageSize)
    BY <1>4 DEF HasNext
  <2>2. a = IF HasNext(call.page) /\ ~stop THEN "send" ELSE "done"
    BY <1>2
  <2>3. /\ a = "send" => HasNext(call.page) /\ ~stop
        /\ a = "done" => ~HasNext(call.page) \/ stop
    BY <2>2, Zenon
  <2>4. n + PageSize \in Nat
    BY <1>4
  <2>5. ~(Len(list) > n + PageSize) => Len(list) <= n + PageSize
    BY <1>9, <2>4
  <2> QED BY <2>1, <2>3, <2>5, Zenon
<1>12. \A i \in DOMAIN list : i \in Nat /\ i >= 1 /\ i <= Len(list)
  BY <1>9
<1>13. ASSUME call.kind = "full", ~history.went
       PROVE  /\ history.before \subseteq ToSet(list)
              /\ \A i \in DOMAIN list : i <= n + PageSize /\ list[i] \in history.before
                                          => list[i] \in ToSet(out)
  <2>1. FullPart
    BY <1>1, <1>13 DEF Paging
  <2> SUFFICES ASSUME NEW i \in DOMAIN list, i <= n + PageSize, list[i] \in history.before
               PROVE  list[i] \in ToSet(out)
    BY <2>1 DEF FullPart
  <2>2. CASE i <= n
    BY <1>2, <1>8, <2>1, <2>2 DEF FullPart
  <2>3. CASE ~(i <= n)
    <3>1. Len(list) > n
      BY <1>4, <1>9, <1>12, <2>3
    <3>2. i <= n + Len(page)
      BY <1>4, <1>6, <1>9, <1>12, <3>1
    <3>3. i - n \in 1 .. Len(taken) /\ n + (i - n) = i
      BY <1>4, <1>6, <1>7, <1>12, <1>13, <2>3, <3>2
    <3> QED BY <1>8, <3>3
  <2> QED BY <2>2, <2>3
<1>14. ASSUME ~history.came
       PROVE  /\ IsInjective(out)
              /\ \A i \in DOMAIN list : i > n + PageSize => list[i] \notin ToSet(out)
  <2>1. /\ IsInjective(call.out)
        /\ \A i \in DOMAIN list : i > n => list[i] \notin ToSet(call.out)
    BY <1>1, <1>2, <1>14 DEF Paging, OncePart
  <2>2. ASSUME NEW i \in 1 .. Len(taken) PROVE list[n + i] \notin ToSet(call.out)
    <3>1. n + i \in DOMAIN list /\ n + i > n
      BY <1>4, <1>7, <1>8
    <3> QED BY <2>1, <3>1
  <2>3. ASSUME NEW i \in 1 .. Len(taken), NEW j \in 1 .. Len(taken), list[n + i] = list[n + j]
        PROVE  i = j
    <3>1. n + i \in DOMAIN list /\ n + j \in DOMAIN list
      BY <1>8
    <3>2. n + i = n + j
      BY <1>1, <2>3, <3>1, ListOnce
    <3> QED BY <1>4, <1>7, <3>2
  <2>4. ASSUME NEW i \in DOMAIN out, NEW j \in DOMAIN out, out[i] = out[j]
        PROVE  i = j
    <3>1. DOMAIN out = 1 .. Len(call.out) + Len(taken) /\ DOMAIN call.out = 1 .. Len(call.out)
      BY <1>1, <1>8 DEF PagesOK
    <3>2. \A l \in DOMAIN out :
            \/ l \in DOMAIN call.out /\ out[l] = call.out[l] /\ out[l] \in ToSet(call.out)
            \/ /\ l - Len(call.out) \in 1 .. Len(taken)
               /\ out[l] = list[n + (l - Len(call.out))] /\ out[l] \notin ToSet(call.out)
      <4> SUFFICES ASSUME NEW l \in DOMAIN out
                   PROVE  \/ l \in DOMAIN call.out /\ out[l] = call.out[l] /\ out[l] \in ToSet(call.out)
                          \/ /\ l - Len(call.out) \in 1 .. Len(taken)
                             /\ out[l] = list[n + (l - Len(call.out))]
                             /\ out[l] \notin ToSet(call.out)
        OBVIOUS
      <4>1. CASE l <= Len(call.out)
        <5>1. l \in DOMAIN call.out
          BY <1>7, <1>9, <3>1, <4>1
        <5> QED BY <1>8, <3>1, <5>1 DEF ToSet
      <4>2. CASE ~(l <= Len(call.out))
        <5>0. l \in 1 .. Len(call.out) + Len(taken)
          BY <3>1
        <5>1. /\ l - Len(call.out) \in 1 .. Len(taken)
              /\ Len(call.out) + (l - Len(call.out)) = l
          <6>1. Len(call.out) \in Nat /\ Len(taken) \in Nat
            BY <1>7, <1>9
          <6> QED BY <4>2, <5>0, <6>1
        <5>2. out[l] = list[n + (l - Len(call.out))]
          BY <1>8, <5>1
        <5> QED BY <2>2, <5>1, <5>2
      <4> QED BY <4>1, <4>2
    <3>3. CASE i \in DOMAIN call.out /\ out[i] = call.out[i] /\ out[i] \in ToSet(call.out)
      <4>1. j \in DOMAIN call.out /\ out[j] = call.out[j]
        BY <2>4, <3>2, <3>3
      <4> QED BY <2>1, <2>4, <3>3, <4>1 DEF IsInjective
    <3>4. CASE /\ i - Len(call.out) \in 1 .. Len(taken) /\ out[i] = list[n + (i - Len(call.out))]
               /\ out[i] \notin ToSet(call.out)
      <4>1. j - Len(call.out) \in 1 .. Len(taken) /\ out[j] = list[n + (j - Len(call.out))]
        BY <2>4, <3>2, <3>4
      <4>2. i - Len(call.out) = j - Len(call.out)
        BY <2>3, <2>4, <3>4, <4>1
      <4>3. i \in Int /\ j \in Int
        BY <1>7, <1>9, <3>1
      <4> QED BY <1>9, <4>2, <4>3
    <3> QED BY <3>2, <3>3, <3>4
  <2>5. ASSUME NEW i \in DOMAIN list, i > n + PageSize PROVE list[i] \notin ToSet(out)
    <3>1. list[i] \notin ToSet(call.out)
      BY <1>4, <1>12, <2>1, <2>5
    <3>2. ASSUME NEW j \in 1 .. Len(taken) PROVE list[i] # list[n + j]
      <4>1. n + j \in DOMAIN list /\ n + j < i
        BY <1>4, <1>6, <1>7, <1>8, <1>12, <2>5
      <4> QED BY <1>1, <1>4, <1>12, <4>1, ListOnce
    <3> QED BY <1>8, <3>1, <3>2
  <2> QED BY <2>4, <2>5 DEF IsInjective
<1>15. ASSUME call.kind = "recent", ~history.came, ~history.went
       PROVE  /\ Len(call.out) = n /\ n <= Len(list) /\ n + Len(taken) <= Len(list)
              /\ \A i \in 1 .. n + Len(taken) : out[i] = list[i] /\ list[i].at > call.stopAt
              /\ call.maxNew > 0 => n + Len(taken) <= call.maxNew
              /\ Len(taken) < Len(page) => \/ list[n + Len(taken) + 1].at <= call.stopAt
                                           \/ call.maxNew > 0 /\ n + Len(taken) = call.maxNew
  <2>1. /\ Len(call.out) = n /\ n <= Len(list)
        /\ \A i \in 1 .. n : call.out[i] = list[i] /\ list[i].at > call.stopAt
    BY <1>1, <1>2, <1>15 DEF Paging, RecentPart
  <2>2. taken = Taken(page, call.out, call.maxNew, call.stopAt)
    BY <1>2, <1>15
  <2>3. /\ call.out \in Seq(Gazers) /\ call.maxNew \in Nat /\ call.stopAt \in Nat
        /\ call.maxNew > 0 => Len(call.out) < call.maxNew
    BY <1>1, <1>15 DEF PagesOK, Paging
  <2>4. page \in Seq(Gazers)
    BY <1>6
  <2>5. /\ \A i \in 1 .. Len(taken) : taken[i] = page[i] /\ page[i].at > call.stopAt
        /\ call.maxNew > 0 => Len(call.out) + Len(taken) <= call.maxNew
        /\ Len(taken) < Len(page) => \/ page[Len(taken) + 1].at <= call.stopAt
                                     \/ call.maxNew > 0 /\ Len(call.out) + Len(taken) = call.maxNew
    <3>1. FirstOfPage(taken, page, call.out, call.maxNew, call.stopAt)
      BY <2>2, <2>3, <2>4, TakenIs
    <3> QED BY <3>1 DEF FirstOfPage
  <2>6. n + Len(taken) <= Len(list)
    <3>1. CASE Len(list) > n
      BY <1>4, <1>6, <1>7, <1>9, <3>1
    <3>2. CASE ~(Len(list) > n)
      BY <1>4, <1>6, <1>7, <1>9, <2>1, <3>2
    <3> QED BY <3>1, <3>2
  <2>7. ASSUME NEW i \in 1 .. n + Len(taken) PROVE out[i] = list[i] /\ list[i].at > call.stopAt
    <3>1. CASE i <= n
      <4>1. i \in 1 .. n
        BY <1>4, <1>7, <3>1
      <4> QED BY <1>8, <2>1, <4>1
    <3>2. CASE ~(i <= n)
      <4>1. i - n \in 1 .. Len(taken) /\ n + (i - n) = i
        BY <1>4, <1>7, <3>2
      <4>2. out[Len(call.out) + (i - n)] = list[n + (i - n)]
        BY <1>8, <4>1
      <4>3. page[i - n] = list[n + (i - n)] /\ page[i - n].at > call.stopAt
        <5>1. i - n \in 1 .. Len(page)
          BY <1>6, <1>7, <4>1
        <5> QED BY <1>6, <2>5, <4>1, <5>1
      <4> QED BY <2>1, <4>1, <4>2, <4>3
    <3> QED BY <3>1, <3>2
  <2>8. ASSUME Len(taken) < Len(page)
        PROVE  \/ list[n + Len(taken) + 1].at <= call.stopAt
               \/ call.maxNew > 0 /\ n + Len(taken) = call.maxNew
    <3>1. Len(taken) + 1 \in 1 .. Len(page) /\ n + (Len(taken) + 1) = n + Len(taken) + 1
      BY <1>4, <1>6, <1>7, <2>8
    <3>2. page[Len(taken) + 1] = list[n + Len(taken) + 1]
      BY <1>6, <3>1
    <3> QED BY <2>1, <2>5, <2>8, <3>2
  <2> QED BY <2>1, <2>5, <2>6, <2>7, <2>8
<1>16. CASE a = "send"
  <2>1. /\ Len(list) > n + PageSize /\ ~stop
    BY <1>11, <1>16
  <2>2. Len(page) = PageSize
    <3>1. Len(list) > n
      BY <1>4, <1>9, <2>1
    <3> QED BY <1>4, <1>6, <1>9, <2>1, <3>1
  <2>3. call.kind = "recent" => /\ Len(taken) = Len(page)
                                /\ call.maxNew > 0 => Len(out) < call.maxNew
    <3> SUFFICES ASSUME call.kind = "recent"
                 PROVE  /\ Len(taken) = Len(page)
                        /\ call.maxNew > 0 => Len(out) < call.maxNew
      OBVIOUS
    <3>1. ~(Len(taken) < Len(page)) /\ ~(call.maxNew > 0 /\ Len(out) >= call.maxNew)
      BY <1>2, <2>1
    <3>2. Len(taken) \in Nat /\ Len(page) \in Nat /\ Len(taken) <= Len(page)
      BY <1>6, <1>7
    <3>3. Len(out) \in Nat /\ call.maxNew \in Nat
      BY <1>1, <1>7, <1>8, <1>9 DEF PagesOK
    <3> QED BY <3>1, <3>2, <3>3
  <2>4. ASSUME call.kind = "full", ~history.went PROVE FullPart'
    BY <1>1, <1>3, <1>5, <1>13, <2>4 DEF FullPart
  <2>5. ASSUME ~history.came PROVE OncePart'
    BY <1>1, <1>3, <1>5, <1>14, <2>5 DEF OncePart
  <2>6. ASSUME call.kind = "recent", ~history.came, ~history.went PROVE RecentPart'
    <3>1. Len(taken) = PageSize /\ Len(out) = n + PageSize /\ n + PageSize <= Len(list)
      BY <1>4, <1>8, <1>9, <1>15, <2>1, <2>2, <2>3, <2>6
    <3>2. \A i \in 1 .. n + PageSize : out[i] = list[i] /\ list[i].at > call.stopAt
      BY <1>15, <2>6, <3>1
    <3> QED BY <1>1, <1>3, <1>5, <3>1, <3>2 DEF RecentPart
  <2>7. Paging'
    BY <1>1, <1>3, <2>3, <2>4, <2>5, <2>6 DEF Paging
  <2> QED BY <1>3, <1>10, <1>16, <2>7 DEF PagesInv
<1>17. CASE a = "done"
  <2>1. ASSUME call.kind = "full", ~history.went PROVE history.before \subseteq ToSet(out)
    <3>1. ~stop /\ Len(list) <= n + PageSize
      BY <1>2, <1>11, <1>17, <2>1
    <3>2. \A i \in DOMAIN list : i <= n + PageSize
      BY <1>4, <1>9, <1>12, <3>1
    <3>3. \A g \in history.before : \E i \in DOMAIN list : list[i] = g
      BY <1>13, <2>1 DEF ToSet
    <3> QED BY <1>13, <2>1, <3>2, <3>3
  <2>2. ASSUME ~history.came PROVE IsInjective(out)
    BY <1>14, <2>2
  <2>3. ASSUME call.kind = "recent", ~history.came, ~history.went
        PROVE  out = Restrict(list, {i \in DOMAIN list : /\ list[i].at > call.stopAt
                                                         /\ call.maxNew > 0 => i <= call.maxNew})
    <3> DEFINE D == {i \in DOMAIN list : /\ list[i].at > call.stopAt
                                         /\ call.maxNew > 0 => i <= call.maxNew}
               k == n + Len(taken)
    <3>0. k \in Nat /\ Len(out) = k /\ k <= Len(list) /\ call.maxNew \in Nat /\ call.stopAt \in Nat
      <4>1. Len(call.out) = n /\ n + Len(taken) <= Len(list)
        BY <1>15, <2>3
      <4>2. call.maxNew \in Nat /\ call.stopAt \in Nat
        BY <1>1 DEF PagesOK
      <4>3. Len(out) = Len(call.out) + Len(taken)
        BY <1>8
      <4> QED BY <1>4, <1>7, <4>1, <4>2, <4>3
    <3>1. ASSUME NEW i \in 1 .. k PROVE i \in D
      <4>1. i \in DOMAIN list
        BY <1>9, <3>0
      <4>2. list[i].at > call.stopAt
        BY <1>15, <2>3
      <4>3. call.maxNew > 0 => i <= call.maxNew
        BY <1>15, <2>3, <3>0
      <4> QED BY <4>1, <4>2, <4>3
    <3>2. ASSUME NEW i \in DOMAIN list, ~(i <= k) PROVE i \notin D
      <4>0. i \in Nat /\ i <= Len(list) /\ k + 1 <= i /\ k < Len(list)
        BY <1>9, <1>12, <3>0, <3>2
      <4>1. CASE list[k + 1].at <= call.stopAt
        <5>1. k + 1 \in DOMAIN list
          BY <1>9, <3>0, <4>0
        <5>2. list[i].at \in Nat /\ list[k + 1].at \in Nat
          <6>1. list[i] \in Gazers /\ list[k + 1] \in Gazers
            BY <1>9, <3>2, <5>1, ElementOfSeq
          <6> QED BY <6>1 DEF Gazers
        <5>3. i = k + 1 \/ list[k + 1].at > list[i].at
          BY <1>1, <3>0, <3>2, <4>0, <5>1 DEF ListOK
        <5>4. ~(list[i].at > call.stopAt)
          BY <3>0, <4>1, <5>2, <5>3
        <5> QED BY <5>4
      <4>2. CASE call.maxNew > 0 /\ k >= call.maxNew
        <5>1. ~(i <= call.maxNew)
          BY <3>0, <4>0, <4>2
        <5> QED BY <4>2, <5>1
      <4>3. CASE Len(taken) < Len(page)
        BY <1>15, <2>3, <3>0, <4>1, <4>2, <4>3
      <4>4. CASE ~(Len(taken) < Len(page))
        <5>1. Len(taken) = Len(page)
          BY <1>6, <1>7, <4>4
        <5>2. ~(Len(list) <= n + PageSize)
          <6> SUFFICES ASSUME Len(list) <= n + PageSize PROVE FALSE
            OBVIOUS
          <6>1. Len(list) > n
            BY <1>4, <1>7, <1>9, <4>0
          <6>2. n + Len(page) = Len(list) \/ Len(page) = PageSize
            BY <1>6, <6>1
          <6>3. k >= Len(list)
            BY <1>4, <1>6, <1>9, <5>1, <6>2
          <6> QED BY <1>9, <3>0, <4>0, <6>3
        <5>3. stop
          BY <1>11, <1>17, <5>2
        <5>4. call.maxNew > 0 /\ Len(out) >= call.maxNew
          BY <1>2, <4>4, <5>3
        <5> QED BY <3>0, <4>2, <5>4
      <4> QED BY <4>3, <4>4
    <3>3. D = 1 .. k
      <4>1. \A i \in D : i \in 1 .. k
        <5> SUFFICES ASSUME NEW i \in D PROVE i \in 1 .. k
          OBVIOUS
        <5>1. i \in DOMAIN list /\ i \in Nat /\ i >= 1
          BY <1>12
        <5>2. i <= k
          BY <3>2, <5>1
        <5> QED BY <3>0, <5>1, <5>2
      <4> HIDE DEF D, k
      <4> QED BY <3>1, <4>1
    <3>4. Restrict(list, D) = [i \in 1 .. k |-> list[i]]
      <4> HIDE DEF D, k
      <4> QED BY <3>3 DEF Restrict
    <3>5. out = [i \in 1 .. k |-> out[i]]
      BY <1>8, <3>0
    <3>6. \A i \in 1 .. k : out[i] = list[i]
      BY <1>15, <2>3
    <3> HIDE DEF k
    <3>7. out = [i \in 1 .. k |-> list[i]]
      BY <3>5, <3>6
    <3> QED BY <3>4, <3>7
  <2>4. Whole'
    BY <1>1, <1>3, <2>1, <2>2, <2>3 DEF Whole
  <2> QED BY <1>3, <1>10, <1>17, <2>4 DEF PagesInv
<1> QED BY <1>10, <1>16, <1>17

\* y is the call x with another sink, or the same one.
Turns(y, x) ==
  \E f, t, s, a : \/ y = [x EXCEPT !.failed = f, !.attempt = t, !.sink = s, !.at = a]
                  \/ y = [x EXCEPT !.attempt = t]

\* The kind of a call stays what it is from sink to sink.
LEMMA KindKept ==
  ASSUME NEW x, IsCall(x), NEW y, Turns(y, x)
  PROVE  y.kind = x.kind
<1> PICK f, t, s, a : \/ y = [x EXCEPT !.failed = f, !.attempt = t, !.sink = s, !.at = a]
                      \/ y = [x EXCEPT !.attempt = t]
  BY DEF Turns
<1>1. PICK k0, a0, t0, p0, o0, m0, u0, s0, f0 :
        x = [kind |-> k0, at |-> a0, attempt |-> t0, page |-> p0, out |-> o0,
             maxNew |-> m0, stopAt |-> u0, sink |-> s0, failed |-> f0]
  BY Zenon DEF IsCall
<1>2. "kind" \in DOMAIN x
  BY <1>1
<1>3. CASE y = [x EXCEPT !.attempt = t]
  BY <1>2, <1>3
<1>4. CASE y = [x EXCEPT !.failed = f, !.attempt = t, !.sink = s, !.at = a]
  BY <1>2, <1>4
<1> QED BY <1>3, <1>4

\* What the history of a call says of the list when a star comes or goes.
LEMMA HistoryFields ==
  ASSUME NEW x, IsHistory(x), NEW v
  PROVE  /\ LET y == [x EXCEPT !.came = v]
            IN y.came = v /\ y.went = x.went /\ y.before = x.before
         /\ LET y == [x EXCEPT !.went = v]
            IN y.went = v /\ y.came = x.came /\ y.before = x.before
<1> PICK b0, c0, w0, t0, m0 :
      x = [before |-> b0, came |-> c0, went |-> w0, tried |-> t0, lost |-> m0]
  BY Zenon DEF IsHistory
<1>1. [x EXCEPT !.came = v] = [before |-> b0, came |-> v, went |-> w0, tried |-> t0, lost |-> m0]
  OBVIOUS
<1>2. [x EXCEPT !.went = v] = [before |-> b0, came |-> c0, went |-> v, tried |-> t0, lost |-> m0]
  OBVIOUS
<1> QED BY <1>1, <1>2

\* A call that is not reading a list, or one whose pages stay as they were.
LEMMA SamePages ==
  ASSUME PagesInv, UNCHANGED <<list, changes>>,
         \/ ~Reading'
         \/ /\ UNCHANGED history
            /\ call'.kind = call.kind /\ call'.maxNew = call.maxNew /\ call'.stopAt = call.stopAt
            /\ call'.out = call.out /\ call'.page = call.page
            /\ \/ call'.at = call.at /\ call'.failed = call.failed
               \/ call.at \in {"send", "wait"} /\ call'.at \in {"send", "wait"}
               \/ call'.at = "done" /\ call'.failed
  PROVE  PagesInv'
<1>1. ListOK'
  BY DEF PagesInv, ListOK
<1>2. CASE ~Reading'
  BY <1>1, <1>2 DEF PagesInv
<1>3. CASE /\ UNCHANGED history
           /\ call'.kind = call.kind /\ call'.maxNew = call.maxNew /\ call'.stopAt = call.stopAt
           /\ call'.out = call.out /\ call'.page = call.page
           /\ \/ call'.at = call.at /\ call'.failed = call.failed
              \/ call.at \in {"send", "wait"} /\ call'.at \in {"send", "wait"}
              \/ call'.at = "done" /\ call'.failed
  <2>1. Reading' = Reading /\ (PagesOK => PagesOK')
    BY <1>3 DEF Reading, PagesOK
  <2>2. Passed' = Passed
    BY <1>3 DEF Passed
  <2>3. /\ FullPart => FullPart'
        /\ OncePart => OncePart'
        /\ RecentPart => RecentPart'
    BY <1>3, <2>2 DEF FullPart, OncePart, RecentPart
  <2>4. Paging => Paging'
    BY <1>3, <2>3 DEF Paging
  <2>5. Whole => Whole'
    BY <1>3 DEF Whole
  <2> QED BY <1>1, <1>3, <2>1, <2>4, <2>5 DEF PagesInv
<1> QED BY <1>2, <1>3

\* A call begins with the first page.
LEMMA PagesBegin ==
  ASSUME PagesInv, NEW kind \in {"get", "full", "recent"}, NEW n \in Nat, NEW t \in Nat,
         kind = "recent" => n > 0, BeginRequest(kind, n, t)
  PROVE  PagesInv'
<1>1. /\ call' = [NoCall EXCEPT !.kind = kind, !.at = "send", !.maxNew = n, !.stopAt = t]
      /\ history' = [Quiet EXCEPT !.before = ToSet(list)] /\ UNCHANGED <<list, changes>>
  BY DEF BeginRequest
<1>2. /\ call'.kind = kind /\ call'.at = "send" /\ call'.maxNew = n /\ call'.stopAt = t
      /\ call'.page = 1 /\ call'.out = <<>>
  BY <1>1 DEF NoCall
<1>3. history'.before = ToSet(list)
  BY <1>1 DEF Quiet
<1>4. Passed' = 0
  BY <1>2, OutboundAssumption DEF Passed
<1>5. ListOK' /\ ListOK
  BY <1>1 DEF PagesInv, ListOK
<1>6. Len(call'.out) = 0 /\ call'.out \in Seq(Gazers) /\ DOMAIN call'.out = {}
  BY <1>2
<1>7. PagesOK'
  BY <1>2, <1>6 DEF PagesOK
<1>8. list \in Seq(Gazers) /\ Len(list) \in Nat /\ DOMAIN list = 1 .. Len(list)
  BY <1>5 DEF ListOK
<1>9. FullPart'
  <2>1. \A i \in DOMAIN list' : ~(i <= Passed')
    BY <1>1, <1>4, <1>8
  <2> QED BY <1>1, <1>3, <2>1 DEF FullPart
<1>10. OncePart'
  <2>1. ToSet(call'.out) = {}
    BY <1>6 DEF ToSet
  <2>2. IsInjective(call'.out)
    BY <1>6 DEF IsInjective
  <2> QED BY <2>1, <2>2 DEF OncePart
<1>11. RecentPart'
  BY <1>1, <1>4, <1>6, <1>8 DEF RecentPart
<1>12. Paging'
  BY <1>2, <1>6, <1>9, <1>10, <1>11 DEF Paging
<1> QED BY <1>2, <1>5, <1>7, <1>12 DEF PagesInv

\* A star comes: those listed move back by one.
LEMMA StarComes ==
  ASSUME PagesInv, IsHistory(history), NEW u \in Users, Star(u)
  PROVE  PagesInv'
<1> DEFINE new == [user |-> u, at |-> changes']
<1>1. /\ changes' = changes + 1 /\ list' = <<new>> \o list /\ UNCHANGED call
      /\ history' = [history EXCEPT !.came = TRUE]
  BY DEF Star
<1>2. ListOK /\ list \in Seq(Gazers) /\ Len(list) \in Nat /\ changes \in Nat
  BY DEF PagesInv, ListOK
<1>3. history'.came /\ history'.went = history.went /\ history'.before = history.before
  <2>1. PICK v : v = TRUE /\ history' = [history EXCEPT !.came = v]
    BY <1>1
  <2> QED BY <2>1, HistoryFields
<1>4. new \in Gazers /\ new.at = changes + 1 /\ changes' \in Nat
  BY <1>1, <1>2 DEF Gazers
<1> HIDE DEF new
<1>5. /\ list' \in Seq(Gazers) /\ Len(list') = Len(list) + 1
      /\ list'[1] = new /\ \A i \in 1 .. Len(list) : list'[i + 1] = list[i]
  BY <1>1, <1>2, <1>4
<1>6. /\ DOMAIN list = 1 .. Len(list) /\ DOMAIN list' = 1 .. Len(list) + 1
      /\ \A i \in DOMAIN list : list[i].at \in Nat /\ list[i].at <= changes
  <2>1. \A i \in DOMAIN list : list[i].at \in Nat
    <3> SUFFICES ASSUME NEW i \in DOMAIN list PROVE list[i].at \in Nat
      OBVIOUS
    <3>1. list[i] \in Gazers
      BY <1>2, ElementOfSeq
    <3> QED BY <3>1 DEF Gazers
  <2> QED BY <1>2, <1>5, <2>1 DEF ListOK
<1>7. \A i \in DOMAIN list' : \/ i = 1 /\ list'[i] = new
                              \/ i - 1 \in DOMAIN list /\ list'[i] = list[i - 1] /\ i > 1
  <2> SUFFICES ASSUME NEW i \in DOMAIN list', i # 1
               PROVE  i - 1 \in DOMAIN list /\ list'[i] = list[i - 1] /\ i > 1
    BY <1>5
  <2>1. i - 1 \in 1 .. Len(list) /\ (i - 1) + 1 = i /\ i > 1
    BY <1>2, <1>6
  <2> QED BY <1>5, <1>6, <2>1
<1>8. ListOK'
  <2>1. \A i \in DOMAIN list' : list'[i].at \in Nat /\ list'[i].at <= changes'
    BY <1>1, <1>2, <1>4, <1>6, <1>7
  <2>2. ASSUME NEW i \in DOMAIN list', NEW j \in DOMAIN list', i < j
        PROVE  list'[i].at > list'[j].at
    <3>1. i \in Nat /\ j \in Nat /\ i >= 1
      BY <1>2, <1>6
    <3>2. j - 1 \in DOMAIN list /\ list'[j] = list[j - 1]
      BY <1>7, <2>2, <3>1
    <3>3. CASE i = 1
      <4>1. list'[i] = new
        BY <1>5, <3>3
      <4>2. list[j - 1].at <= changes /\ list[j - 1].at \in Nat
        BY <1>6, <3>2
      <4> QED BY <1>2, <1>4, <3>2, <4>1, <4>2
    <3>4. CASE i # 1
      <4>1. i - 1 \in DOMAIN list /\ list'[i] = list[i - 1] /\ i - 1 < j - 1
        BY <1>7, <2>2, <3>1, <3>4
      <4> QED BY <1>2, <3>2, <4>1 DEF ListOK
    <3> QED BY <3>3, <3>4
  <2> QED BY <1>4, <1>5, <2>1, <2>2 DEF ListOK
<1>9. PagesOK /\ FullPart => FullPart'
  <2> SUFFICES ASSUME PagesOK, FullPart PROVE FullPart'
    OBVIOUS
  <2>1. ToSet(list) \subseteq ToSet(list')
    <3> SUFFICES ASSUME NEW i \in DOMAIN list PROVE list[i] \in ToSet(list')
      BY DEF ToSet
    <3>1. i + 1 \in DOMAIN list' /\ list'[i + 1] = list[i]
      BY <1>2, <1>5, <1>6
    <3> QED BY <3>1 DEF ToSet
  <2>2. new \notin history.before
    <3>1. \A g \in history.before : \E i \in DOMAIN list : list[i] = g
      BY DEF FullPart, ToSet
    <3> SUFFICES ASSUME new \in history.before PROVE FALSE
      OBVIOUS
    <3>2. PICK i \in DOMAIN list : list[i] = new
      BY <3>1
    <3>3. list[i].at <= changes /\ list[i].at = changes + 1
      BY <1>4, <1>6, <3>2
    <3> QED BY <1>2, <3>3
  <2>3. Passed' = Passed
    BY <1>1 DEF Passed
  <2>4. ASSUME NEW i \in DOMAIN list', i <= Passed, list'[i] \in history.before
        PROVE  list'[i] \in ToSet(call.out)
    <3>1. i - 1 \in DOMAIN list /\ list'[i] = list[i - 1]
      BY <1>7, <2>2, <2>4
    <3>2. i - 1 <= Passed
      <4>1. Passed \in Nat
        BY PassedIs DEF PagesOK, Passed
      <4>2. i \in Nat
        BY <1>2, <1>6
      <4> QED BY <2>4, <4>1, <4>2
    <3> QED BY <2>4, <3>1, <3>2 DEF FullPart
  <2> QED BY <1>1, <1>3, <2>1, <2>3, <2>4 DEF FullPart
<1>10. PagesOK /\ Paging => Paging'
  BY <1>1, <1>3, <1>9 DEF Paging
<1>11. Whole => Whole'
  BY <1>1, <1>3 DEF Whole
<1> QED BY <1>1, <1>8, <1>10, <1>11 DEF PagesInv, Reading, PagesOK

\* A star goes: those behind it move up by one.
LEMMA StarGoes ==
  ASSUME PagesInv, IsHistory(history), NEW u \in Users, Unstar(u)
  PROVE  PagesInv'
<1>1. /\ changes' = changes + 1 /\ UNCHANGED call /\ \E i \in DOMAIN list : list' = RemoveAt(list, i)
      /\ history' = [history EXCEPT !.went = TRUE]
  BY DEF Unstar
<1>2. ListOK /\ list \in Seq(Gazers) /\ Len(list) \in Nat /\ changes \in Nat
  BY DEF PagesInv, ListOK
<1>3. history'.went /\ history'.came = history.came /\ history'.before = history.before
  <2>1. PICK v : v = TRUE /\ history' = [history EXCEPT !.went = v]
    BY <1>1
  <2> QED BY <2>1, HistoryFields
<1>4. PICK gone \in DOMAIN list : list' = RemoveAt(list, gone)
  BY <1>1
<1>5. DOMAIN list = 1 .. Len(list) /\ gone \in Nat /\ gone >= 1 /\ gone <= Len(list)
  BY <1>2
<1>6. /\ list' \in Seq(Gazers) /\ Len(list') = Len(list) - 1
      /\ \A i \in 1 .. Len(list) - 1 : list'[i] = IF i < gone THEN list[i] ELSE list[i + 1]
  <2> DEFINE front == SubSeq(list, 1, gone - 1)
             back == SubSeq(list, gone + 1, Len(list))
  <2>1. list' = front \o back
    BY <1>4 DEF RemoveAt
  <2>2. \A i \in 1 .. Len(list) : list[i] \in Gazers
    BY <1>2, ElementOfSeq
  <2>3. /\ front \in Seq(Gazers) /\ Len(front) = gone - 1
        /\ \A i \in 1 .. gone - 1 : front[i] = list[i]
    <3>1. 1 \in Int /\ gone - 1 \in Int /\ \A i \in 1 .. gone - 1 : list[i] \in Gazers
      BY <1>2, <1>5, <2>2
    <3>2. /\ front \in Seq(Gazers) /\ Len(front) = IF 1 <= gone - 1 THEN gone - 1 - 1 + 1 ELSE 0
          /\ \A i \in 1 .. gone - 1 - 1 + 1 : front[i] = list[1 + i - 1]
      BY <3>1, SubSeqProperties
    <3> HIDE DEF front
    <3>3. gone - 1 \in Nat /\ gone - 1 - 1 + 1 = gone - 1
      BY <1>5
    <3>4. \A i \in 1 .. gone - 1 : front[i] = list[i]
      BY <1>5, <3>2, <3>3
    <3>5. Len(front) = gone - 1
      BY <3>2, <3>3
    <3> QED BY <3>2, <3>4, <3>5
  <2>4. /\ back \in Seq(Gazers) /\ Len(back) = Len(list) - gone
        /\ \A i \in 1 .. Len(list) - gone : back[i] = list[gone + i]
    <3>1. gone + 1 \in Int /\ Len(list) \in Int /\ \A i \in gone + 1 .. Len(list) : list[i] \in Gazers
      BY <1>2, <1>5, <2>2
    <3>2. /\ back \in Seq(Gazers)
          /\ Len(back) = IF gone + 1 <= Len(list) THEN Len(list) - (gone + 1) + 1 ELSE 0
          /\ \A i \in 1 .. Len(list) - (gone + 1) + 1 : back[i] = list[gone + 1 + i - 1]
      BY <3>1, SubSeqProperties
    <3> HIDE DEF back
    <3>3. Len(list) - (gone + 1) + 1 = Len(list) - gone /\ Len(list) - gone \in Nat
      BY <1>2, <1>5
    <3>4. \A i \in 1 .. Len(list) - gone : back[i] = list[gone + i]
      <4> SUFFICES ASSUME NEW i \in 1 .. Len(list) - gone PROVE back[i] = list[gone + i]
        OBVIOUS
      <4>1. back[i] = list[gone + 1 + i - 1]
        BY <3>2, <3>3
      <4>2. gone + 1 + i - 1 = gone + i
        BY <1>5, <3>3
      <4> QED BY <4>1, <4>2
    <3>5. Len(back) = Len(list) - gone
      BY <1>2, <1>5, <3>2, <3>3
    <3> QED BY <3>2, <3>4, <3>5
  <2> HIDE DEF front, back
  <2>5. /\ front \o back \in Seq(Gazers) /\ Len(front \o back) = Len(front) + Len(back)
        /\ \A i \in 1 .. Len(front) + Len(back) : (front \o back)[i] =
             IF i <= Len(front) THEN front[i] ELSE back[i - Len(front)]
    BY <2>3, <2>4, ConcatProperties
  <2>6. Len(front) + Len(back) = Len(list) - 1
    BY <1>2, <1>5, <2>3, <2>4
  <2>7. ASSUME NEW i \in 1 .. Len(list) - 1
        PROVE  (front \o back)[i] = IF i < gone THEN list[i] ELSE list[i + 1]
    <3>1. CASE i < gone
      BY <1>2, <1>5, <2>3, <2>5, <2>6, <3>1
    <3>2. CASE ~(i < gone)
      <4>1. /\ i - (gone - 1) \in 1 .. Len(list) - gone /\ ~(i <= gone - 1)
            /\ gone + (i - (gone - 1)) = i + 1
        BY <1>2, <1>5, <3>2
      <4>2. (front \o back)[i] = back[i - (gone - 1)]
        BY <2>3, <2>5, <2>6, <4>1
      <4> QED BY <2>4, <3>2, <4>1, <4>2
    <3> QED BY <3>1, <3>2
  <2> QED BY <2>1, <2>5, <2>6, <2>7
<1>7. DOMAIN list' = 1 .. Len(list) - 1
  BY <1>2, <1>6
<1>8. \A i \in DOMAIN list' : \E l \in DOMAIN list : /\ list'[i] = list[l] /\ l >= i
                                                     /\ l = IF i < gone THEN i ELSE i + 1
  <2> SUFFICES ASSUME NEW i \in DOMAIN list'
               PROVE  \E l \in DOMAIN list : /\ list'[i] = list[l] /\ l >= i
                                             /\ l = IF i < gone THEN i ELSE i + 1
    OBVIOUS
  <2>1. CASE i < gone
    <3>1. i \in DOMAIN list /\ i >= i
      BY <1>2, <1>5, <1>7
    <3> QED BY <1>6, <1>7, <2>1, <3>1
  <2>2. CASE ~(i < gone)
    <3>1. i + 1 \in DOMAIN list /\ i + 1 >= i
      BY <1>2, <1>5, <1>7
    <3> QED BY <1>6, <1>7, <2>2, <3>1
  <2> QED BY <2>1, <2>2
<1>9. ListOK'
  <2>0. \A i \in DOMAIN list : list[i].at \in Nat
    <3> SUFFICES ASSUME NEW i \in DOMAIN list PROVE list[i].at \in Nat
      OBVIOUS
    <3>1. list[i] \in Gazers
      BY <1>2, ElementOfSeq
    <3> QED BY <3>1 DEF Gazers
  <2>1. \A i \in DOMAIN list' : list'[i].at <= changes'
    <3> SUFFICES ASSUME NEW i \in DOMAIN list' PROVE list'[i].at <= changes'
      OBVIOUS
    <3>1. PICK l \in DOMAIN list : list'[i] = list[l]
      BY <1>8
    <3>2. list[l].at <= changes
      BY <1>2 DEF ListOK
    <3> QED BY <1>1, <1>2, <2>0, <3>1, <3>2
  <2>2. ASSUME NEW i \in DOMAIN list', NEW j \in DOMAIN list', i < j
        PROVE  list'[i].at > list'[j].at
    <3>1. PICK l \in DOMAIN list : list'[i] = list[l] /\ l = IF i < gone THEN i ELSE i + 1
      BY <1>8
    <3>2. PICK m \in DOMAIN list : list'[j] = list[m] /\ m = IF j < gone THEN j ELSE j + 1
      BY <1>8
    <3>3. l < m
      BY <1>2, <1>5, <1>7, <2>2, <3>1, <3>2
    <3> QED BY <1>2, <3>1, <3>2, <3>3 DEF ListOK
  <2>3. changes' \in Nat
    BY <1>1, <1>2
  <2> QED BY <1>6, <2>1, <2>2, <2>3 DEF ListOK
<1>10. PagesOK /\ OncePart => OncePart'
  <2> SUFFICES ASSUME PagesOK, OncePart PROVE OncePart'
    OBVIOUS
  <2>1. Passed' = Passed
    BY <1>1 DEF Passed
  <2>2. ASSUME NEW i \in DOMAIN list', i > Passed PROVE list'[i] \notin ToSet(call.out)
    <3>1. PICK l \in DOMAIN list : list'[i] = list[l] /\ l >= i
      BY <1>8
    <3>2. l > Passed
      <4>1. Passed \in Nat
        BY PassedIs DEF PagesOK, Passed
      <4>2. i \in Nat /\ l \in Nat
        BY <1>2, <1>5, <1>7
      <4> QED BY <2>2, <3>1, <4>1, <4>2
    <3> QED BY <3>1, <3>2 DEF OncePart
  <2> QED BY <1>1, <2>1, <2>2 DEF OncePart
<1>11. PagesOK /\ Paging => Paging'
  BY <1>1, <1>3, <1>10 DEF Paging
<1>12. Whole => Whole'
  BY <1>1, <1>3 DEF Whole
<1> QED BY <1>1, <1>9, <1>11, <1>12 DEF PagesInv, Reading, PagesOK

\* Init and every step keep the invariant of the pages.
LEMMA PagesStep ==
  /\ Init => PagesInv
  /\ RecordsOK /\ PagesInv /\ [Next]_vars => PagesInv'
<1>1. Init => PagesInv
  <2> SUFFICES ASSUME Init PROVE PagesInv
    OBVIOUS
  <2>1. list = <<>> /\ changes = 0
    BY DEF Init
  <2>2. ~Reading
    BY BeginningOK DEF Init, Reading
  <2>3. ListOK
    BY <2>1 DEF ListOK
  <2> QED BY <2>2, <2>3 DEF PagesInv
<1> SUFFICES ASSUME RecordsOK, PagesInv, [Next]_vars PROVE PagesInv'
  BY <1>1
<1>2. IsCall(call) /\ IsHistory(history)
  BY DEF RecordsOK
<1>3. CASE BeginRequest("get", 0, 0) \/ BeginRequest("full", 0, 0)
  BY <1>3, PagesBegin
<1>4. ASSUME NEW n \in 1 .. Cardinality(Users), NEW t \in Cursors, BeginRequest("recent", n, t)
      PROVE  PagesInv'
  <2>1. n \in Nat /\ n > 0 /\ t \in Nat
    BY OutboundAssumption DEF Cursors
  <2> QED BY <1>4, <2>1, PagesBegin
<1>5. CASE PageArrives
  BY <1>2, <1>5, PageStep
<1>6. CASE ObjectArrives \/ \E resp \in Failures : RequestFails(resp)
  <2>1. UNCHANGED <<list, changes, history>>
    BY <1>6 DEF ObjectArrives, RequestFails
  <2>2. CASE End(FALSE) /\ call.kind = "get"
    <3>1. call'.kind = "get"
      BY <1>2, <2>2, EndOK
    <3> QED BY <2>1, <3>1, SamePages DEF Reading
  <2>3. CASE call' = [call EXCEPT !.at = "wait"] /\ call.at = "send"
    <3>1. /\ call'.kind = call.kind /\ call'.maxNew = call.maxNew /\ call'.stopAt = call.stopAt
          /\ call'.out = call.out /\ call'.page = call.page /\ call'.at = "wait"
      <4>1. Moved(call', call, "wait")
        BY <2>3 DEF Moved
      <4> QED BY <1>2, <4>1, CallMoves
    <3> QED BY <2>1, <2>3, <3>1, SamePages
  <2>4. CASE End(TRUE)
    <3>1. PICK v : v = TRUE /\ call' = [call EXCEPT !.at = "done", !.failed = v]
      BY <2>4 DEF End
    <3>2. /\ call'.kind = call.kind /\ call'.maxNew = call.maxNew /\ call'.stopAt = call.stopAt
          /\ call'.out = call.out /\ call'.page = call.page /\ call'.at = "done"
      <4>1. Moved(call', call, "done")
        BY <3>1 DEF Moved
      <4> QED BY <1>2, <4>1, CallMoves
    <3>3. call'.failed
      <4>1. "failed" \in DOMAIN call
        <5>1. PICK k0, a0, t0, p0, o0, m0, u0, s0, f0 :
                call = [kind |-> k0, at |-> a0, attempt |-> t0, page |-> p0, out |-> o0,
                        maxNew |-> m0, stopAt |-> u0, sink |-> s0, failed |-> f0]
          BY <1>2, Zenon DEF IsCall
        <5> QED BY <5>1
      <4> QED BY <3>1, <4>1
    <3> QED BY <2>1, <3>2, <3>3, SamePages
  <2> QED BY <1>6, <2>2, <2>3, <2>4 DEF ObjectArrives, RequestFails, Is
<1>7. CASE Resend
  <2>1. /\ call' = [call EXCEPT !.at = "send", !.attempt = call.attempt + 1]
        /\ call.at = "wait" /\ UNCHANGED <<list, changes, history>>
    BY <1>7 DEF Resend, Is
  <2>2. /\ call'.kind = call.kind /\ call'.maxNew = call.maxNew /\ call'.stopAt = call.stopAt
        /\ call'.out = call.out /\ call'.page = call.page /\ call'.at = "send"
    <3>1. Moved(call', call, "send")
      BY <2>1 DEF Moved
    <3> QED BY <1>2, <3>1, CallMoves
  <2> QED BY <2>1, <2>2, SamePages
<1>8. CASE BeginFanOut
  <2>1. call'.kind = "alert"
    BY <1>8 DEF BeginFanOut, NoCall
  <2>2. UNCHANGED <<list, changes>>
    BY <1>8 DEF BeginFanOut
  <2> QED BY <2>1, <2>2, SamePages DEF Reading
<1>9. CASE SinkStep
  <2>1. UNCHANGED <<list, changes>> /\ call.kind = "alert"
    BY <1>9 DEF SinkStep, SinkAccepts, SinkRefuses, SinkFails, Is
  <2>2. Turns(call', call)
    <3>1. ASSUME NEW error, SinkReturns(error) PROVE Turns(call', call)
      BY <3>1, Zenon DEF SinkReturns, Turns
    <3>2. CASE \E t : call' = [call EXCEPT !.attempt = t]
      BY <3>2, Zenon DEF Turns
    <3>3. \/ \E error : SinkReturns(error)
          \/ \E t : call' = [call EXCEPT !.attempt = t]
      BY <1>9, Zenon DEF SinkStep, SinkAccepts, SinkRefuses, SinkFails, AfterFailure
    <3> QED BY <3>1, <3>2, <3>3
  <2>3. call'.kind = "alert"
    BY <1>2, <2>1, <2>2, KindKept
  <2> QED BY <2>1, <2>3, SamePages DEF Reading
<1>10. CASE Return
  <2>1. call' = NoCall /\ UNCHANGED <<list, changes>>
    BY <1>10 DEF Return
  <2>2. call'.kind = "none"
    BY <2>1, BeginningOK
  <2> QED BY <2>1, <2>2, SamePages DEF Reading
<1>11. CASE Shutdown \/ UNCHANGED vars
  <2>1. UNCHANGED <<list, changes, call, history>>
    BY <1>11 DEF Shutdown, vars
  <2> QED BY <2>1, SamePages
<1>12. ASSUME NEW u \in Users, Star(u) \/ Unstar(u) PROVE PagesInv'
  BY <1>2, <1>12, StarComes, StarGoes
<1> QED BY <1>3, <1>4, <1>5, <1>6, <1>7, <1>8, <1>9, <1>10, <1>11, <1>12 DEF Next, GitHubStep

\* A list fetched page by page has everybody who was listed before and stayed, nobody
\* twice unless somebody came meanwhile, and the recent stars of a quiet list are the
\* newest, whatever requests were retried (getPaginatedCtx, StargazersRecent).
THEOREM ListsAreWhole == Spec => []PagesAreWhole
<1>1. PagesInv => PagesAreWhole
  BY DEF PagesInv, PagesAreWhole, Whole, Reading
<1>2. FanOutInv => RecordsOK
  BY DEF FanOutInv
<1> QED BY <1>1, <1>2, FanOutStep, PagesStep, PTL DEF Spec
=============================================================================
