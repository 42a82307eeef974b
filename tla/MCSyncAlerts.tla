----------------------------- MODULE MCSyncAlerts -----------------------------
(***************************************************************************)
(* Rule lists for model-checking SyncAlerts: a rule of every mode where    *)
(* callbacks are serial, one rung of the ladder where they overlap.        *)
(***************************************************************************)
EXTENDS SyncAlerts

Ops(event, value, mode) == [kind |-> "ops", event |-> event, value |-> value, mode |-> mode]
Traffic == [kind |-> "traffic", event |-> "clones", value |-> 1, mode |-> "once_per_utc_day"]
Rung(n) == [kind |-> "milestone", event |-> "stars", value |-> n, mode |-> "once"]

SyncFailed == Ops("sync_failed", 2, "every_sync")
UpstreamStale == Ops("upstream_stale", 1, "once")

SerialRules == <<SyncFailed, Traffic, UpstreamStale>>
OneRung == <<Rung(1)>>
=============================================================================
