---------------------------- MODULE IntradayWatch ----------------------------
(***************************************************************************)
(* The intraday monitor and the operations watchdog that observes it:      *)
(* operations/watchdog.py, the delivery adapter for the intraday job       *)
(* (operations/adapters/delivery.py), the incident ledger and the snapshot *)
(* published to the operations site (operations/store.py).                 *)
(***************************************************************************)
EXTENDS IntradayMonitor

CONSTANT HeartbeatTimeout  \* heartbeat_timeout_seconds, in ticks

ASSUME WatchAssumption == HeartbeatTimeout \in Nat \ {0}

VARIABLES
  incidents,  \* fingerprints that are OPEN, and so in the snapshot
  unseen      \* the watchdog ran while the monitor was down, and shows nothing

vars == <<monitorVars, incidents, unseen>>

\* Incidents about the monitor, and the one about a failed collector.
Fingerprints == {"heartbeat", "cup", "service", "status", "collector"}

-----------------------------------------------------------------------------
(* Evidence about the monitor *)

Now       == Session(tick)
BeatIsOld == Session(beat.at) # Now
BeatStops == /\ ~BeatIsOld /\ ~IsOver(tick)
             /\ tick - beat.at > HeartbeatTimeout

\* Whether the latest cup-handle observation is a failure.
CupFailed ==
  \E s \in Sessions :
    /\ observed[s]["cup"] = "FAIL"
    /\ \A r \in Sessions : r > s => observed[r]["cup"] = "none"

\* Mutant of Evidence: the monitor of a new session has not started yet.
EvidenceWaits ==
  IF BeatIsOld THEN "SCHEDULED"
  ELSE IF BeatStops THEN "STALE"
  ELSE IF beat.bad THEN "DEGRADED"
  ELSE IF ~IsOver(tick) THEN "RUNNING"
  ELSE CASE observed[Now]["momentum"] = "PASS" -> "SUCCESS"
         [] observed[Now]["momentum"] = "FAIL" -> "DEGRADED"
         [] OTHER -> "STALE"

\* The status _collect_intraday derives from its tables.
Evidence ==
  IF BeatIsOld \/ BeatStops THEN "STALE"
  ELSE IF beat.bad THEN "DEGRADED"
  ELSE IF ~IsOver(tick) THEN "RUNNING"
  ELSE CASE observed[Now]["momentum"] = "PASS" -> "SUCCESS"
         [] observed[Now]["momentum"] = "FAIL" -> "DEGRADED"
         [] OTHER -> "STALE"

\* A failed cup observation degrades the status; systemd's word that the
\* service is active overrides all but success.
Status ==
  LET seen == IF CupFailed /\ Evidence # "STALE" THEN "DEGRADED" ELSE Evidence
  IN IF proc["unit"].pc # "off" /\ seen # "SUCCESS" THEN "RUNNING" ELSE seen

Specific ==
  (IF BeatStops THEN {"heartbeat"} ELSE {})
    \cup (IF CupFailed THEN {"cup"} ELSE {})
    \cup (IF unit.failed THEN {"service"} ELSE {})

\* The general incident about a status is raised only for a job without a
\* specific one.
Raised ==
  IF Specific # {} THEN Specific
  ELSE IF Status \in {"STALE", "DEGRADED"} THEN {"status"} ELSE {}

-----------------------------------------------------------------------------
(* run_once *)

\* The evidence of a collector that fails is not replaced; while any fails,
\* no incident is resolved.
Open(broken) ==
  CASE broken = "none"  -> Raised
    [] broken = "other" -> Raised \cup {"collector"} \cup incidents
    [] broken = "delivery" -> {"collector"} \cup incidents

\* The unit should be at work and is not.
Down ==
  /\ proc["unit"].pc = "off" /\ unit.finished # Now
  /\ IF IsOver(tick) THEN observed[Now]["momentum"] = "none"
     ELSE tick - beat.at > HeartbeatTimeout

\* A run, from the collection to the snapshot; bound: not while a person runs
\* a cycle by hand.
Watch(broken) ==
  /\ proc["operator"].pc = "off"
  /\ incidents' = Open(broken)
  /\ unseen' = (Down /\ incidents' = {})
  /\ Trouble(broken # "none")
  /\ UNCHANGED <<tick, store, proc, unit, accepted>>

Init == MonitorInit /\ incidents = {} /\ unseen = FALSE

Next ==
  \/ MonitorNext /\ UNCHANGED <<incidents, unseen>>
  \/ \E broken \in {"none", "other", "delivery"} : Watch(broken)

Spec == Init /\ [][Next]_vars

-----------------------------------------------------------------------------
(* Properties *)

\* Type invariant.
IntradayTypeOK ==
  /\ tick \in Ticks
  /\ DOMAIN outbox \subseteq Signals
  /\ \A k \in DOMAIN outbox :
       /\ outbox[k].status \in {"SHADOW", "PENDING", "SENDING", "SENT",
            "FAILED", "UNKNOWN", "SUPPRESSED_COOLDOWN"}
       /\ outbox[k].attempts \in 0..MaxAttempts
       /\ Session(outbox[k].created) = k.session
  /\ \A p \in Processes :
       /\ proc[p].claim \subseteq DOMAIN outbox
       /\ proc[p].claim # {} <=> proc[p].pc \in {"send", "mark"}
  /\ incidents \subseteq Fingerprints

\* What the outbox says of a signal.  A frozen row is in doubt only once no
\* process can still send it.
Outcome(k) ==
  IF k \notin DOMAIN outbox THEN "undecided"
  ELSE CASE outbox[k].status = "SENT" -> "delivered"
         [] outbox[k].status \in {"SHADOW", "SUPPRESSED_COOLDOWN"} ->
              "suppressed"
         [] outbox[k].status = "UNKNOWN"
              /\ \A p \in Processes : k \notin proc[p].claim -> "doubtful"
         [] OTHER -> "undecided"

\* The signal outbox keeps the promise of an outbox of this program, with
\* kills, restarts in another mode and a second process at any moment: no
\* signal is shown twice, a shadow row is never sent, a message that is in
\* doubt is never sent again.
Delivery == INSTANCE AtMostOnceDelivery WITH
  Messages <- Signals,
  created <- accepted,
  outcome <- [k \in Signals |-> Outcome(k)]

SignalsAtMostOnce == Delivery!Spec

\* Two confirmed messages about one ticker are more than the cooldown apart,
\* whichever family, cycle or process they come from.
CooldownKept ==
  \A j, k \in DOMAIN outbox :
    (/\ j # k /\ j.ticker = k.ticker
     /\ outbox[j].status = "SENT" /\ outbox[k].status = "SENT")
      => \/ outbox[j].sent > outbox[k].sent + Cooldown
         \/ outbox[k].sent > outbox[j].sent + Cooldown

\* Nothing is shown in a session unless every one of the sessions required
\* before it was finalized and passed, for cup-handle signals in both
\* observations: a missed, failed or killed session sends the monitor back
\* to shadow mode.
ShownIsPromoted ==
  \A k \in Signals :
    accepted[k] > 0 =>
      \A s \in k.session - Required..k.session - 1 :
        s \in Sessions /\ observed[s]["momentum"] = "PASS"
                       /\ observed[s][k.family] = "PASS"

\* A published snapshot taken while the monitor should work and does not
\* shows an open incident, also when evidence could not be collected.
OutageShows == ~unseen
=============================================================================
