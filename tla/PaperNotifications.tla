------------------------- MODULE PaperNotifications -------------------------
(***************************************************************************)
(* The outbox of the paper-trading channel composed with the ledger it is  *)
(* fed from.  The trading run saves its fills first and the row of the     *)
(* runs table several transactions later; the notification worker is       *)
(* started by timers of its own and may read between the two.  It rebuilds *)
(* the message of every fill from the tables on every start                *)
(* (PaperNotificationService.reconcile_fills) and the outbox compares it   *)
(* with the message it froze.                                              *)
(*                                                                         *)
(* Of a fill's message only the dataset version can change from one read   *)
(* to the next, so the version stands for the message.                     *)
(***************************************************************************)
EXTENDS NotificationOutbox, Sequences

CONSTANTS
  Sessions,    \* trading sessions
  SessionOf,   \* [Fills -> Sessions], the fill_date
  Versions,    \* dataset versions a run may read
  FirstNewest, \* dataset version of the newest run row at the start
  MaxKills     \* bound on the kills of the notification worker

ASSUME NotificationAssumption ==
  /\ SessionOf \in [Fills -> Sessions]
  /\ Versions \cup {FirstNewest} \subseteq Contents
  /\ MaxKills \in Nat

VARIABLES
  ledger,   \* the fills table, a sequence of fills
  runOf,    \* [Sessions -> Versions \cup {None}], newest run row by mark date
  newest,   \* the version of the newest run row of the account
  trading,  \* the run that has saved its fills but not its row, or None
  cursor,   \* fills of the ledger the worker has compared so far
  snap,     \* length of the ledger when the worker loaded it
  kills     \* kills so far

trade == <<ledger, runOf, newest, trading>>
reading == <<cursor, snap>>
paperVars == <<outboxVars, trade, reading, kills>>

-----------------------------------------------------------------------------
(* The trading run *)

NewFills(s) ==
  {f \in Fills : SessionOf[f] = s /\ \A i \in DOMAIN ledger : ledger[i] # f}

SaveFill(s, v) ==
  /\ trading = None
  /\ \E f \in NewFills(s) : ledger' = Append(ledger, f)
  /\ trading' = [session |-> s, version |-> v]
  /\ UNCHANGED <<runOf, newest, outboxVars, reading, kills>>

SaveRunRow ==
  /\ trading # None
  /\ runOf' = [runOf EXCEPT ![trading.session] = trading.version]
  /\ newest' = trading.version
  /\ trading' = None
  /\ UNCHANGED <<ledger, outboxVars, reading, kills>>

\* A run without fills, or the retry of a killed run that finds its fills
\* done: only the row is new.
RunAgain(s, v) ==
  /\ trading = None
  /\ trading' = [session |-> s, version |-> v]
  /\ UNCHANGED <<ledger, runOf, newest, outboxVars, reading, kills>>

TraderKilled ==
  /\ trading # None
  /\ trading' = None
  /\ UNCHANGED <<ledger, runOf, newest, outboxVars, reading, kills>>

-----------------------------------------------------------------------------
(* The notification worker *)

\* _latest_run: the newest row of the session, else the newest of the account.
Message(f) == IF runOf[SessionOf[f]] # None THEN runOf[SessionOf[f]]
              ELSE newest

\* Mutant of StartWorker: goes on where the ledger ended at the last start.
StartWorkerResumes(w, m) ==
  /\ Begin(w, m)
  /\ cursor' = snap
  /\ snap' = Len(ledger)
  /\ UNCHANGED <<trade, kills>>

StartWorker(w, m) ==
  /\ Begin(w, m)
  /\ cursor' = 0
  /\ snap' = Len(ledger)
  /\ UNCHANGED <<trade, kills>>

\* reconcile_fills compares or stages the next fill of the loaded ledger.
NextFill(w) ==
  /\ pc[w] = "staging"
  /\ mode[w] # "daily"
  /\ cursor < snap

Advance ==
  /\ cursor' = cursor + 1
  /\ UNCHANGED <<snap, trade, kills>>

StageFill(w) ==
  /\ NextFill(w)
  /\ LET f == ledger[cursor + 1] IN StageNew(w, f, Message(f))
  /\ Advance

SkipStagedFill(w) ==
  /\ NextFill(w)
  /\ LET f == ledger[cursor + 1]
     IN  status[f] # "ABSENT" /\ content[f] = Message(f)
  /\ Advance
  /\ UNCHANGED outboxVars

\* The frozen payload differs: RuntimeError, nothing is drained.
Conflict(w) ==
  /\ NextFill(w)
  /\ LET f == ledger[cursor + 1] IN StageConflict(w, f, Message(f))
  /\ UNCHANGED <<trade, reading, kills>>

\* Mutant of StageDaily: a daily summary is compared like a fill.
StageDailyCompares(w) ==
  /\ pc[w] = "staging"
  /\ mode[w] = "daily"
  /\ cursor = 0
  /\ \E s \in Dailies :
       \/ StageNew(w, s, newest)
       \/ status[s] # "ABSENT" /\ content[s] = newest /\ UNCHANGED outboxVars
       \/ /\ status[s] # "ABSENT" /\ content[s] # newest
          /\ Exit(w) /\ UNCHANGED <<rows, accepted>>
  /\ Advance

\* stage_daily_summary: the message of a staged session is reused as it is.
StageDaily(w) ==
  /\ pc[w] = "staging"
  /\ mode[w] = "daily"
  /\ cursor = 0
  /\ \E s \in Dailies :
       \/ StageNew(w, s, newest)
       \/ status[s] # "ABSENT" /\ UNCHANGED outboxVars
  /\ Advance

StartDrain(w) ==
  /\ cursor = IF mode[w] = "daily" THEN 1 ELSE snap
  /\ EndStaging(w)
  /\ UNCHANGED <<trade, reading, kills>>

Drain(w) ==
  /\ \/ Claim(w) \/ NothingToClaim(w) \/ BatchExhausted(w)
     \/ Send(w) \/ MarkSent(w) \/ MarkFailed(w)
  /\ UNCHANGED <<trade, reading, kills>>

Kill(w) ==
  /\ kills < MaxKills
  /\ kills' = kills + 1
  /\ Crash(w)
  /\ UNCHANGED <<trade, reading>>

-----------------------------------------------------------------------------
PaperInit ==
  /\ OutboxInit
  /\ ledger = <<>>
  /\ runOf = [s \in Sessions |-> None]
  /\ newest = FirstNewest
  /\ trading = None
  /\ cursor = 0 /\ snap = 0 /\ kills = 0

\* What a started worker does on its own.
Work(w) ==
  \/ StageFill(w) \/ SkipStagedFill(w) \/ Conflict(w) \/ StageDaily(w)
  \/ StartDrain(w)
  \/ Drain(w)

Trade ==
  \/ \E s \in Sessions, v \in Versions : SaveFill(s, v) \/ RunAgain(s, v)
  \/ SaveRunRow
  \/ TraderKilled

PaperNext ==
  \/ Trade
  \/ \E w \in Workers : \/ \E m \in Modes : StartWorker(w, m)
                        \/ Work(w)
                        \/ Kill(w)

\* systemd starts an events worker every two minutes and a daily worker once
\* a day, whatever the earlier ones did; a started worker runs on.
PaperFairness ==
  \A w \in Workers : /\ SF_paperVars(StartWorker(w, "events"))
                     /\ SF_paperVars(StartWorker(w, "daily"))
                     /\ WF_paperVars(Work(w))

PaperSpec == PaperInit /\ [][PaperNext]_paperVars /\ PaperFairness

-----------------------------------------------------------------------------
(* Properties *)

\* Whatever happens to the fills, also when every events run ends in a payload
\* conflict, a staged daily summary is tried: its worker neither compares nor
\* drains fills.
DailyIsTried ==
  \A s \in Dailies : status[s] = "PENDING" ~> status[s] # "PENDING"

\* As long as no staged fill is found with another message, every fill of the
\* ledger reaches the outbox: the kills of either process and the reads between
\* two writes of a trading run lose none.
MessagesHold ==
  \A f \in Fills : status[f] # "ABSENT" => content[f] = Message(f)
UnchangedFillsReachOutbox ==
  []MessagesHold =>
    \A f \in Fills :
      (\E i \in DOMAIN ledger : ledger[i] = f) ~> status[f] # "ABSENT"

\* paper_trading_discord_notifications.md: a new fill_id in the ledger is sent
\* within about two minutes.  At least it must reach the outbox.
FillsReachOutbox ==
  \A f \in Fills :
    (\E i \in DOMAIN ledger : ledger[i] = f) ~> status[f] # "ABSENT"
=============================================================================
