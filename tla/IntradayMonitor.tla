--------------------------- MODULE IntradayMonitor ---------------------------
(***************************************************************************)
(* The intraday momentum monitor (breakouts/live/service.py), its SQLite   *)
(* state (breakouts/live/state.py) and its promotion from shadow to live   *)
(* delivery (scripts/run_intraday_momentum_monitor.py).                    *)
(*                                                                         *)
(* The systemd unit runs one cycle per minute of an open session and       *)
(* finalizes the session afterwards; a person may run one cycle by hand on *)
(* the same database ("operator").  Every store operation is one SQLite    *)
(* transaction, hence one action; a process may be killed between any two. *)
(*                                                                         *)
(* Time is counted in ticks: a session has one tick before the open, one   *)
(* per open minute and one after the close.  Session 1 has passed when the *)
(* model starts; the sessions after it decide the mode of the last one, in *)
(* which the detectors fire.                                               *)
(***************************************************************************)
EXTENDS Integers, FiniteSets

CONSTANTS
  Tickers,       \* numbers: rows of the same time are sent in their order
  Minutes,       \* open minutes of a session
  LastSession,
  BroadMinutes,  \* broad_refresh_minutes
  MinCycles,     \* observation_min_cycle_coverage, as a number of cycles
  MinCups,       \* the same for the cup-handle cycles
  Required,      \* required_shadow_sessions, cup_required_shadow_sessions
  Cooldown,      \* cooldown_minutes, in ticks
  MaxAttempts,   \* max_delivery_attempts
  MaxMessages,   \* max_messages_per_cycle
  MaxTrouble     \* bound: kills and reboots, errors, unhealthy sessions and
                 \* cycles by hand, in all

ASSUME MonitorAssumption ==
  /\ Tickers \subseteq Nat
  /\ {Minutes, LastSession, BroadMinutes, Required, Cooldown, MaxAttempts,
      MaxMessages} \subseteq Nat \ {0}
  /\ {MinCycles, MinCups} \subseteq 1..Minutes
  /\ MaxTrouble \in Nat
  /\ LastSession >= 2

Processes == {"unit", "operator"}
Families  == {"momentum", "cup"}
Sessions  == 1..LastSession
Signals   == [session : {LastSession}, ticker : Tickers, family : Families]
Verdicts  == {"none", "PASS", "FAIL"}

VARIABLES
  tick,      \* the time
  outbox,    \* signal_outbox: staged signals -> row
  cycles,    \* monitor_cycles of this session:
             \* [1..Minutes -> "none" | "good" | "bad"]
  cups,      \* cup_handle_cycles of this session, the same
  observed,  \* the session observations: [Sessions -> [Families -> Verdicts]]
  beat,      \* heartbeat: when it was written, and whether it lists errors
  proc,      \* [Processes -> what the process is doing]
  unit,      \* systemd: the last run failed, the session it has finished
  accepted,  \* [Signals -> messages the channel shows]
  budget     \* what is left of MaxTrouble

store == <<outbox, cycles, cups, observed, beat>>
monitorVars == <<tick, store, proc, unit, accepted, budget>>

Length     == Minutes + 2
Ticks      == 2 * Length..(LastSession + 1) * Length - 1
Session(t) == t \div Length
Minute(t)  == t % Length
IsOpen(t)  == Minute(t) \in 1..Minutes
IsOver(t)  == Minute(t) = Minutes + 1
NoRows     == [m \in 1..Minutes |-> "none"]

Off == [pc |-> "off", mode |-> [f \in Families |-> "shadow"], now |-> 0,
        broad |-> 0, due |-> FALSE, open |-> FALSE, left |-> 0,
        claim |-> {}, reply |-> "none"]

Goto(p, pc) == proc' = [proc EXCEPT ![p].pc = pc]

\* What goes wrong uses up the bound.
Trouble(wrong) ==
  /\ wrong => budget > 0
  /\ budget' = IF wrong THEN budget - 1 ELSE budget

-----------------------------------------------------------------------------
(* Starting: shadow or live *)

\* completed_xnys_sessions, the last Required of them.
Completed(t) ==
  LET last == IF IsOver(t) THEN Session(t) ELSE Session(t) - 1
  IN last - Required + 1..last

\* Mutant of Eligible: a session without an observation does not count.
EligibleIfNoneFailed(f) ==
  \A s \in Completed(tick) \cap Sessions : observed[s][f] # "FAIL"

\* promotion_status, cup_handle_promotion_status.
Eligible(f) ==
  Completed(tick) \subseteq Sessions
    /\ \A s \in Completed(tick) : observed[s][f] = "PASS"

Promoted ==
  [f \in Families |->
     IF Eligible("momentum") /\ Eligible(f) THEN "live" ELSE "shadow"]

\* The timer, or systemd's restart after a failure, starts --auto.
StartUnit ==
  /\ proc["unit"].pc = "off"
  /\ unit.finished # Session(tick)
  /\ proc' = [proc EXCEPT !["unit"] =
                [Off EXCEPT !.pc = "loop", !.mode = Promoted]]
  /\ unit' = [unit EXCEPT !.failed = FALSE]
  /\ UNCHANGED <<tick, store, accepted, budget>>

\* --once, with --shadow or with --auto.
StartByHand(shadow) ==
  /\ proc["operator"].pc = "off"
  /\ proc' = [proc EXCEPT !["operator"] =
                [Off EXCEPT !.pc = "once",
                            !.mode = IF shadow THEN @ ELSE Promoted]]
  /\ Trouble(TRUE)
  /\ UNCHANGED <<tick, store, unit, accepted>>

-----------------------------------------------------------------------------
(* A cycle *)

WriteBeat(bad) == beat' = [at |-> tick, bad |-> bad]

\* The heartbeat of a unit that waits for the open or for the next minute.
WaitingBeat ==
  /\ proc["unit"].pc = "loop"
  /\ WriteBeat(FALSE) /\ beat' # beat
  /\ UNCHANGED <<tick, outbox, cycles, cups, observed, proc, unit, accepted,
                 budget>>

\* cycle(): one per minute for the unit.  The feed may say that the market is
\* closed; by hand --allow-closed goes on then, and no detector fires.
BeginCycle(p) ==
  LET due == proc[p].broad = 0 \/ tick - proc[p].broad >= BroadMinutes
  IN /\ \/ p = "unit" /\ proc[p].pc = "loop"
           /\ IsOpen(tick) /\ proc[p].now # tick
        \/ p = "operator" /\ proc[p].pc = "once"
     /\ \E open \in {IsOpen(tick), FALSE} :
          LET goes == open \/ p = "operator"
          IN /\ Trouble(open # IsOpen(tick))
             /\ proc' = [proc EXCEPT ![p] =
                  [@ EXCEPT !.pc = IF goes THEN "stage" ELSE "drain",
                            !.left = IF goes THEN MaxMessages ELSE 0,
                            !.now = tick, !.open = open, !.due = due /\ open,
                            !.broad = IF due /\ goes THEN tick
                                      ELSE proc[p].broad]]
     /\ UNCHANGED <<tick, store, unit, accepted>>

NewRow(status) == [status |-> status, attempts |-> 0, retry |-> FALSE,
                   created |-> tick, sent |-> 0]

\* A detector fires, the cup-handle's after the momentum's: record_signal and
\* stage_signal_delivery (INSERT OR IGNORE: a signal staged before is ignored).
Stage(p, k) ==
  /\ \/ k.family = "momentum" /\ proc[p].pc = "stage"
     \/ k.family = "cup" /\ proc[p].pc \in {"stage", "cup"} /\ proc[p].due
  /\ proc[p].open
  /\ k.session = Session(proc[p].now)
  /\ k \notin DOMAIN outbox
  /\ outbox' = [j \in DOMAIN outbox \cup {k} |->
       IF j \in DOMAIN outbox THEN outbox[j]
       ELSE NewRow(IF proc[p].mode[k.family] = "live"
                   THEN "PENDING" ELSE "SHADOW")]
  /\ Goto(p, IF k.family = "cup" THEN "cup" ELSE "stage")
  /\ UNCHANGED <<tick, cycles, cups, observed, beat, unit, accepted, budget>>

\* The detectors are done: record_cup_handle_cycle, in the cycles that
\* evaluate the cup handle.
EndDetection(p, bad) ==
  /\ proc[p].pc \in {"stage", "cup"}
  /\ bad => proc[p].due
  /\ cups' = IF proc[p].due
             THEN [cups EXCEPT ![Minute(proc[p].now)] =
                     IF bad THEN "bad" ELSE "good"]
             ELSE cups
  /\ proc' = [proc EXCEPT ![p].pc = "drain", ![p].due = FALSE]
  /\ Trouble(bad)
  /\ UNCHANGED <<tick, outbox, cycles, observed, beat, unit, accepted>>

-----------------------------------------------------------------------------
(* Delivery *)

Fails(p) ==
  /\ proc' = [proc EXCEPT ![p] = Off]
  /\ unit' = IF p = "unit" THEN [unit EXCEPT !.failed = TRUE] ELSE unit

\* Mutant of Sendable: no limit to the attempts.
SendableForever(s) ==
  {k \in DOMAIN outbox :
     /\ k.session = s
     /\ \/ outbox[k].status = "PENDING"
        \/ outbox[k].status = "FAILED" /\ outbox[k].retry}

\* Rows that may be sent.
Sendable(s) ==
  {k \in DOMAIN outbox :
     /\ k.session = s
     /\ \/ outbox[k].status = "PENDING"
        \/ /\ outbox[k].status = "FAILED"
           /\ outbox[k].retry /\ outbox[k].attempts < MaxAttempts}

Earlier(j, k) ==
  \/ outbox[j].created < outbox[k].created
  \/ outbox[j].created = outbox[k].created /\ j.ticker < k.ticker

\* Mutant of Cooling: the cooldown has passed when it has just been reached.
CoolingBeforeCutoff(ticker, now) ==
  \E k \in DOMAIN outbox :
    /\ k.ticker = ticker /\ outbox[k].status = "SENT"
    /\ outbox[k].sent > now - Cooldown

\* The cutoff is taken from the start of the cycle.
Cooling(ticker, now) ==
  \E k \in DOMAIN outbox :
    /\ k.ticker = ticker /\ outbox[k].status = "SENT"
    /\ outbox[k].sent >= now - Cooldown

\* Mutant of Claimed: what was left in SENDING may be sent again.
ClaimedRetriesInterrupted(s, now, claim) ==
  [k \in DOMAIN outbox |->
     IF k.session = s /\ outbox[k].status = "SENDING"
     THEN [outbox[k] EXCEPT !.status = "FAILED", !.retry = TRUE]
     ELSE IF k \in claim
     THEN [outbox[k] EXCEPT !.status = "SENDING", !.attempts = @ + 1]
     ELSE outbox[k]]

\* One transaction of claim_next_delivery: what a dead or another process
\* left in SENDING is frozen, the rows in cooldown before the first one that
\* may go are suppressed, and that one (if any) is claimed.
Claimed(s, now, claim) ==
  [k \in DOMAIN outbox |->
     IF k.session = s /\ outbox[k].status = "SENDING"
     THEN [outbox[k] EXCEPT !.status = "UNKNOWN", !.retry = FALSE]
     ELSE IF k \in claim
     THEN [outbox[k] EXCEPT !.status = "SENDING", !.attempts = @ + 1,
                            !.retry = FALSE]
     ELSE IF /\ k \in Sendable(s) /\ Cooling(k.ticker, now)
             /\ \A c \in claim : Earlier(k, c)
     THEN [outbox[k] EXCEPT !.status = "SUPPRESSED_COOLDOWN", !.retry = FALSE]
     ELSE outbox[k]]

\* claim_next_delivery: at most MaxMessages per cycle, only in live mode.
Claim(p) ==
  LET s == Session(proc[p].now)
      now == proc[p].now
      free == {k \in Sendable(s) : ~Cooling(k.ticker, now)}
      first == {k \in free : \A j \in free : ~Earlier(j, k)}
  IN /\ proc[p].pc = "drain"
     /\ proc[p].mode["momentum"] = "live" /\ proc[p].left > 0
     /\ \/ /\ first = {}
           /\ outbox' = Claimed(s, now, {})
           /\ proc' = [proc EXCEPT ![p].left = 0]
        \/ \E k \in first :
             /\ outbox' = Claimed(s, now, {k})
             /\ proc' = [proc EXCEPT ![p].pc = "send", ![p].claim = {k}]
     /\ UNCHANGED <<tick, cycles, cups, observed, beat, unit, accepted, budget>>

\* The heartbeat and the row of the minute, which replaces an earlier one; it
\* counts only if the market was open.  The two writes are one step: a kill
\* between them leaves a heartbeat and no row, as a kill of a waiting unit does.
EndCycle(p, bad) ==
  /\ proc[p].pc = "drain"
  /\ proc[p].mode["momentum"] = "shadow" \/ proc[p].left = 0
  /\ WriteBeat(bad)
  /\ cycles' = IF IsOpen(proc[p].now)
               THEN [cycles EXCEPT ![Minute(proc[p].now)] =
                       IF ~proc[p].open THEN "none"
                       ELSE IF bad THEN "bad" ELSE "good"]
               ELSE cycles
  /\ proc' = [proc EXCEPT ![p] =
       IF p = "unit"
       THEN [@ EXCEPT !.pc = "loop", !.open = FALSE, !.left = 0]
       ELSE Off]
  /\ Trouble(bad)
  /\ UNCHANGED <<tick, outbox, cups, observed, unit, accepted>>

\* notifier.send: the channel may show the message without confirming it.
Send(p) ==
  /\ proc[p].pc = "send"
  /\ \E reply \in {"confirmed", "uncertain", "retryable", "rejected"},
        shown \in BOOLEAN, k \in proc[p].claim :
       /\ shown => reply \in {"confirmed", "uncertain"}
       /\ reply = "confirmed" => shown
       /\ accepted' = [accepted EXCEPT ![k] = IF shown THEN @ + 1 ELSE @]
       /\ proc' = [proc EXCEPT ![p].pc = "mark", ![p].reply = reply]
  /\ UNCHANGED <<tick, store, unit, budget>>

\* The row after an answer, if it is still SENDING.
Answered(row, reply) ==
  CASE reply = "confirmed" -> [row EXCEPT !.status = "SENT", !.sent = tick]
    [] reply = "uncertain" -> [row EXCEPT !.status = "UNKNOWN"]
    [] OTHER -> [row EXCEPT !.status = "FAILED", !.retry = reply = "retryable"]

\* mark_delivery_sent raises when the row is not SENDING any more;
\* mark_delivery_failed leaves it as it is.
Mark(p) ==
  /\ proc[p].pc = "mark"
  /\ \E k \in proc[p].claim :
       IF outbox[k].status = "SENDING"
       THEN /\ outbox' = [outbox EXCEPT ![k] = Answered(@, proc[p].reply)]
            /\ proc' = [proc EXCEPT ![p].pc = "drain", ![p].left = @ - 1,
                                    ![p].claim = {}, ![p].reply = "none"]
            /\ UNCHANGED unit
       ELSE /\ UNCHANGED outbox
            /\ IF proc[p].reply = "confirmed" THEN Fails(p)
               ELSE /\ proc' = [proc EXCEPT ![p].pc = "drain",
                                  ![p].left = @ - 1, ![p].claim = {},
                                  ![p].reply = "none"]
                    /\ UNCHANGED unit
  /\ UNCHANGED <<tick, cycles, cups, observed, beat, accepted, budget>>

-----------------------------------------------------------------------------
(* The end of a session *)

Counted(log, kinds) == Cardinality({m \in 1..Minutes : log[m] \in kinds})

\* finalize_session_observation.  Latency, candidates and the data contract
\* may fail it too.
Finalize(healthy) ==
  LET s == Session(tick)
      pass == /\ healthy
              /\ Counted(cycles, {"good", "bad"}) >= MinCycles
              /\ Counted(cycles, {"bad"}) = 0
  IN /\ proc["unit"].pc = "loop"
     /\ IsOver(tick)
     /\ observed' = [observed EXCEPT ![s]["momentum"] =
                       IF pass THEN "PASS" ELSE "FAIL"]
     /\ Goto("unit", "finalizeCup")
     /\ Trouble(~healthy)
     /\ UNCHANGED <<tick, outbox, cycles, cups, beat, unit, accepted>>

\* finalize_cup_handle_observation.
FinalizeCup(healthy) ==
  LET s == Session(tick)
      pass == /\ healthy
              /\ Counted(cups, {"good", "bad"}) >= MinCups
              /\ Counted(cups, {"bad"}) = 0
  IN /\ proc["unit"].pc = "finalizeCup"
     /\ observed' = [observed EXCEPT ![s]["cup"] =
                       IF pass THEN "PASS" ELSE "FAIL"]
     /\ Goto("unit", "finished")
     /\ Trouble(~healthy)
     /\ UNCHANGED <<tick, outbox, cycles, cups, beat, unit, accepted>>

\* The last heartbeat; the unit ends and is not restarted.
Finish ==
  /\ proc["unit"].pc = "finished"
  /\ WriteBeat(FALSE)
  /\ proc' = [proc EXCEPT !["unit"] = Off]
  /\ unit' = [unit EXCEPT !.finished = Session(tick)]
  /\ UNCHANGED <<tick, outbox, cycles, cups, observed, accepted, budget>>

-----------------------------------------------------------------------------
(* The world *)

\* No process works through the night.
Tick ==
  /\ tick + 1 \in Ticks
  /\ IsOver(tick) => \A p \in Processes : proc[p].pc = "off"
  /\ tick' = tick + 1
  /\ cycles' = IF IsOver(tick) THEN NoRows ELSE cycles
  /\ cups' = IF IsOver(tick) THEN NoRows ELSE cups
  /\ UNCHANGED <<outbox, observed, beat, proc, unit, accepted, budget>>

\* A kill or an uncaught exception, of the cycle by hand at no cost.
Kill(p) ==
  /\ proc[p].pc # "off"
  /\ Fails(p)
  /\ Trouble(p = "unit")
  /\ UNCHANGED <<tick, store, accepted>>

\* After a reboot systemd does not remember the failure.
Reboot ==
  /\ proc' = [p \in Processes |-> Off]
  /\ unit' = [unit EXCEPT !.failed = FALSE]
  /\ Trouble(TRUE)
  /\ UNCHANGED <<tick, store, accepted>>

MonitorInit ==
  /\ tick = 2 * Length
  /\ outbox = <<>>
  /\ cycles = NoRows /\ cups = NoRows
  /\ observed = [s \in Sessions |->
       [f \in Families |-> IF s = 1 THEN "PASS" ELSE "none"]]
  /\ beat = [at |-> tick - 1, bad |-> FALSE]
  /\ proc = [p \in Processes |-> Off]
  /\ unit = [failed |-> FALSE, finished |-> 1]
  /\ accepted = [k \in Signals |-> 0]
  /\ budget = MaxTrouble

Cycle(p) ==
  \/ BeginCycle(p) \/ \E k \in Signals : Stage(p, k)
  \/ \E bad \in BOOLEAN : EndDetection(p, bad) \/ EndCycle(p, bad)
  \/ Claim(p) \/ Send(p) \/ Mark(p)

EndOfSession ==
  \/ \E healthy \in BOOLEAN : Finalize(healthy) \/ FinalizeCup(healthy)
  \/ Finish

MonitorNext ==
  \/ StartUnit \/ \E shadow \in BOOLEAN : StartByHand(shadow)
  \/ WaitingBeat \/ EndOfSession \/ \E p \in Processes : Cycle(p) \/ Kill(p)
  \/ Tick \/ Reboot
=============================================================================
