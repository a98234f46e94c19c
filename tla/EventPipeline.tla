--------------------------- MODULE EventPipeline ----------------------------
(***************************************************************************)
(* From a news document to a message: the news lane resolves the identity  *)
(* of each document revision and groups the revisions into one event, the  *)
(* source lane finds the official texts of the event, and the worker asks  *)
(* a paid model about each text and posts what it answered.  The three are *)
(* one-shot processes started by timers, each of them one at a time under  *)
(* a lock, that share the queue and may be killed between any two          *)
(* transactions.  One event of one ticker is modelled.                     *)
(***************************************************************************)
EXTENDS EventQueue, EventOutbox, Integers, FiniteSets, SequencesExt

CONSTANTS
  Documents,   \* news documents of the event
  Versions,    \* revisions of each, numbered from 1
  Originals,   \* revisions of official texts the event can lead to
  MaxCalls,    \* paid requests of one run of the worker
  SendLimit,   \* rows one run of the worker takes from the outbox
  Budget,      \* paid requests the ten dollars are enough for
  MaxTrouble   \* bound on kills, failures and leases outlived

ASSUME EventAssumption ==
  /\ IsFiniteSet(Documents)
  /\ {Versions, MaxCalls, SendLimit, Budget, MaxRetries, MaxTrouble}
       \subseteq Nat

VARIABLES
  feed,     \* the revisions the vendor publishes
  units,    \* the processes whose timers are enabled
  members,  \* the event's recorded revisions, in the order of recording
  gen,      \* member_generation of the event's SOURCE job
  seen,     \* the revisions its last finished pass could choose from
  matched,  \* the texts that pass matched
  ledger,   \* partial function: text -> status of its paid request
  paid,     \* text -> how often the provider was asked about it
  enabled,  \* delivery_enabled of the worker's configuration
  run,      \* process -> where it is and what it holds
  trouble

queue == <<jobs, over>>
outboxVars == <<outbox, accepted>>
event == <<members, gen, seen, matched>>
calls == <<ledger, paid>>
setup == <<feed, units>>
vars == <<setup, queue, outboxVars, event, calls, enabled, run, trouble>>

Revisions == Documents \X (1..Versions)
Processes == {"news", "source", "worker"}
LedgerStates == {"RESERVED", "VALIDATED", "FAILED", "BILLING_REVIEW_REQUIRED"}

SourceJob == <<"SOURCE", "event">>
Keys == ({"IDENTITY"} \X Revisions) \union {SourceJob}
          \union ({"ANALYSIS", "DELIVERY"} \X Originals)

Recorded == Range(members)

\* The newest recorded payload of each document.
Latest ==
  {r \in Recorded : \A i, j \in DOMAIN members :
     members[i] = r /\ members[j][1] = r[1] => j <= i}

\* A process is "idle", or at a step with an item, a set of items it still
\* has to work on, a number (the generation it read, the requests or sends it
\* made) and the reports of this run.
Idle ==
  [at |-> "idle", item |-> "none", todo |-> {}, n |-> 0, reports |-> {}]
At(p, step) == run[p].at = step
Moves(p, step) == run' = [run EXCEPT ![p].at = step]
Stops(p) == run' = [run EXCEPT ![p] = Idle]
Trouble == trouble < MaxTrouble /\ trouble' = trouble + 1

-----------------------------------------------------------------------------
(* The news lane *)

\* seed: the lane's news collection and the worker's ingestion both enqueue.
Discover(r) ==
  /\ At("news", "idle") \/ At("worker", "idle")
  /\ r \in feed
  /\ <<"IDENTITY", r>> \notin DOMAIN jobs
  /\ jobs' = Added({<<"IDENTITY", r>>})
  /\ UNCHANGED <<setup, over, outboxVars, event, calls, enabled, run, trouble>>

NewsClaim(r) ==
  /\ At("news", "idle")
  /\ "news" \in units
  /\ Ready(<<"IDENTITY", r>>)
  /\ jobs' = Claimed(<<"IDENTITY", r>>)
  /\ run' = [run EXCEPT !["news"] = [Idle EXCEPT !.at = "claimed",
                                                 !.item = r]]
  /\ UNCHANGED <<setup, over, outboxVars, event, calls, enabled, trouble>>

\* Outside the window or excluded (EXCLUDED stands for both ends), or no
\* identity yet: the document goes no further now.
NewsReject(state) ==
  /\ At("news", "claimed")
  /\ IF state = "PENDING" THEN Trouble ELSE UNCHANGED trouble
  /\ jobs' = Finished(<<"IDENTITY", run["news"].item>>, state)
  /\ Stops("news")
  /\ UNCHANGED <<setup, over, outboxVars, event, calls, enabled>>

\* Mutant of MembersWith: a replay records the member again.
MembersTwice(r) == Append(members, r)

\* Insert or ignore.
MembersWith(r) ==
  IF r \in Recorded THEN members ELSE Append(members, r)

\* enqueue_event, first transaction: the member, and with a further revision
\* of a recorded document the generation of the SOURCE job, reopened if it is
\* complete.
RecordMember ==
  LET r == run["news"].item
      revises == r \notin Recorded /\ \E x \in Recorded : x[1] = r[1]
      exists == SourceJob \in DOMAIN jobs
  IN  /\ At("news", "claimed")
      /\ members' = MembersWith(r)
      /\ gen' = IF revises /\ exists THEN gen + 1 ELSE gen
      /\ jobs' = IF revises /\ IsIn(SourceJob, "COMPLETE") /\ ~over
                 THEN [jobs EXCEPT ![SourceJob] = Job("PENDING")] ELSE jobs
      /\ Moves("news", "recorded")
      /\ UNCHANGED <<setup, over, outboxVars, seen, matched, calls, enabled, trouble>>

\* Second transaction: the one SOURCE job of the event.
EnqueueSource ==
  /\ At("news", "recorded")
  /\ jobs' = Added({SourceJob})
  /\ Moves("news", "enqueued")
  /\ UNCHANGED <<setup, over, outboxVars, event, calls, enabled, trouble>>

NewsFinish ==
  /\ At("news", "enqueued")
  /\ jobs' = Finished(<<"IDENTITY", run["news"].item>>, "COMPLETE")
  /\ Stops("news")
  /\ UNCHANGED <<setup, over, outboxVars, event, calls, enabled, trouble>>

News ==
  \/ \E r \in Revisions : NewsClaim(r)
  \/ \E state \in {"PENDING", "EXCLUDED"} : NewsReject(state)
  \/ RecordMember
  \/ EnqueueSource
  \/ NewsFinish

-----------------------------------------------------------------------------
(* The source lane *)

\* The claim hands out the payload of the row, with its generation.
SourceClaim ==
  /\ At("source", "idle")
  /\ "source" \in units
  /\ Ready(SourceJob)
  /\ jobs' = Claimed(SourceJob)
  /\ run' = [run EXCEPT !["source"] = [Idle EXCEPT !.at = "claimed",
                                                   !.n = gen]]
  /\ UNCHANGED <<setup, over, outboxVars, event, calls, enabled, trouble>>

\* The members are read in a transaction of their own, after the claim.
ReadMembers ==
  /\ At("source", "claimed")
  /\ seen' = Latest
  /\ matched' = {}
  /\ Moves("source", "fetching")
  /\ UNCHANGED <<setup, queue, outboxVars, members, gen, calls, enabled, trouble>>

SourceReject(state) ==
  /\ At("source", "fetching") \/ (At("source", "matched") /\ state = "PENDING")
  /\ IF state = "PENDING" THEN Trouble ELSE UNCHANGED trouble
  /\ jobs' = Finished(SourceJob, state)
  /\ Stops("source")
  /\ UNCHANGED <<setup, over, outboxVars, event, calls, enabled>>

\* The fetch matches a text and, it may be, texts attached to it.
Match(found) ==
  /\ At("source", "fetching")
  /\ matched' = found
  /\ run' = [run EXCEPT !["source"].at = "matched", !["source"].todo = found]
  /\ UNCHANGED <<setup, queue, outboxVars, members, gen, seen, calls, enabled,
                 trouble>>

EnqueueAnalysis(o) ==
  /\ At("source", "matched")
  /\ o \in run["source"].todo
  /\ jobs' = Added({<<"ANALYSIS", o>>})
  /\ run' = [run EXCEPT !["source"].todo = @ \ {o}]
  /\ UNCHANGED <<setup, over, outboxVars, event, calls, enabled, trouble>>

\* Mutant of SourceOutcome: the revision is not noticed.
SourceOutcomeBlind == "COMPLETE"

\* What finish makes of COMPLETE when the event was revised meanwhile.
SourceOutcome == IF gen = run["source"].n THEN "COMPLETE" ELSE "PENDING"

SourceFinish ==
  /\ At("source", "matched")
  /\ run["source"].todo = {}
  /\ jobs' = Finished(SourceJob, SourceOutcome)
  /\ Stops("source")
  /\ UNCHANGED <<setup, over, outboxVars, event, calls, enabled, trouble>>

Source ==
  \/ SourceClaim
  \/ ReadMembers
  \/ \E state \in {"PENDING", "EXCLUDED", "BLOCKED"} : SourceReject(state)
  \/ \E found \in (SUBSET Originals) \ {{}} : Match(found)
  \/ \E o \in Originals : EnqueueAnalysis(o)
  \/ SourceFinish

-----------------------------------------------------------------------------
(* The worker: the paid request *)

Analysis(o) == <<"ANALYSIS", o>>
Delivery(o) == <<"DELIVERY", o>>
Item == run["worker"].item

\* A run begins with the analyses that are ready then.
Start ==
  /\ At("worker", "idle")
  /\ "worker" \in units
  /\ run' = [run EXCEPT !["worker"] =
               [Idle EXCEPT !.at = "cycle",
                            !.todo = {o \in Originals : Ready(Analysis(o))}]]
  /\ UNCHANGED <<setup, queue, outboxVars, event, calls, enabled, trouble>>

AnalysisClaim(o) ==
  /\ At("worker", "cycle")
  /\ o \in run["worker"].todo
  /\ IF Ready(Analysis(o))
     THEN /\ jobs' = Claimed(Analysis(o))
          /\ run' = [run EXCEPT !["worker"].at = "analysing",
                                !["worker"].item = o,
                                !["worker"].todo = @ \ {o}]
     ELSE /\ run' = [run EXCEPT !["worker"].todo = @ \ {o}]
          /\ UNCHANGED jobs
  /\ UNCHANGED <<setup, over, outboxVars, event, calls, enabled, trouble>>

\* _finish_analysis: the row takes its state if the lease still holds, and the
\* run goes on either way.
Conclude(state) ==
  /\ jobs' = Finished(Analysis(Item), state)
  /\ run' = [run EXCEPT !["worker"].at = "cycle", !["worker"].item = "none"]

AnalysisReject(state) ==
  /\ At("worker", "analysing")
  /\ IF state = "PENDING" THEN Trouble ELSE UNCHANGED trouble
  /\ Conclude(state)
  /\ UNCHANGED <<setup, over, outboxVars, event, calls, enabled>>

\* preview_llm_call: a request already in the journal is never made again, and
\* none is made while a bill is in doubt or when the money is spent.
Refused(o) ==
  IF o \in DOMAIN ledger THEN ledger[o] # "VALIDATED"
  ELSE \/ \E x \in DOMAIN ledger : ledger[x] = "BILLING_REVIEW_REQUIRED"
       \/ Cardinality(DOMAIN ledger) >= Budget

Block ==
  /\ \/ At("worker", "refused")
     \/ At("worker", "analysing") /\ Refused(Item)
  /\ Conclude("BLOCKED")
  /\ UNCHANGED <<setup, over, outboxVars, event, calls, enabled, trouble>>

\* The journal already holds a valid answer.
Reuse ==
  /\ At("worker", "analysing")
  /\ Item \in DOMAIN ledger
  /\ ~Refused(Item)
  /\ Moves("worker", "answered")
  /\ UNCHANGED <<setup, queue, outboxVars, event, calls, enabled, trouble>>

Defer ==
  /\ At("worker", "analysing")
  /\ Item \notin DOMAIN ledger
  /\ ~Refused(Item)
  /\ run["worker"].n >= MaxCalls
  /\ Conclude("PENDING")
  /\ UNCHANGED <<setup, over, outboxVars, event, calls, enabled, trouble>>

\* reserve_llm_call, in one transaction with the checks of the preview.
Reserve ==
  /\ At("worker", "analysing")
  /\ Item \notin DOMAIN ledger
  /\ ~Refused(Item)
  /\ run["worker"].n < MaxCalls
  /\ ledger' = [o \in DOMAIN ledger \union {Item} |->
                  IF o = Item THEN "RESERVED" ELSE ledger[o]]
  /\ run' = [run EXCEPT !["worker"].at = "reserved", !["worker"].n = @ + 1]
  /\ UNCHANGED <<setup, queue, outboxVars, event, paid, enabled, trouble>>

\* The provider takes the request, and charges for it.
Ask ==
  /\ At("worker", "reserved")
  /\ paid' = [paid EXCEPT ![Item] = @ + 1]
  /\ Moves("worker", "asked")
  /\ UNCHANGED <<setup, queue, outboxVars, event, ledger, enabled, trouble>>

\* finish_llm_call, only on a row that is still RESERVED.
FinishCall(status) ==
  /\ At("worker", "asked") \/ (At("worker", "reserved") /\ status = "FAILED")
  /\ IF status = "VALIDATED" THEN UNCHANGED trouble ELSE Trouble
  /\ ledger' = IF ledger[Item] = "RESERVED"
               THEN [ledger EXCEPT ![Item] = status] ELSE ledger
  /\ Moves("worker", IF status = "VALIDATED" THEN "answered" ELSE "refused")
  /\ UNCHANGED <<setup, queue, outboxVars, event, paid, enabled>>

\* An error on the way through the paid request, the journal that cannot be
\* written included: what is reserved stays so, and the cycle ends.
LoseAnswer ==
  /\ run["worker"].at \in {"analysing", "reserved", "asked"}
  /\ Trouble
  /\ run' = [run EXCEPT !["worker"].at = "refused", !["worker"].todo = {}]
  /\ UNCHANGED <<setup, queue, outboxVars, event, calls, enabled>>

\* The report is built from the answer, the sources and the reviews.  The
\* DELIVERY row is written before the analysis is complete.
HandOff ==
  /\ At("worker", "answered")
  /\ jobs' = IF enabled THEN Added({Delivery(Item)}) ELSE jobs
  /\ run' = [run EXCEPT !["worker"].at = "handed",
                        !["worker"].reports = @ \union {Item}]
  /\ UNCHANGED <<setup, over, outboxVars, event, calls, enabled, trouble>>

\* An error before the request or in the report costs this job only.
FailReport ==
  /\ At("worker", "analysing") \/ At("worker", "answered")
  /\ Trouble
  /\ Moves("worker", "refused")
  /\ UNCHANGED <<setup, queue, outboxVars, event, calls, enabled>>

Complete ==
  /\ At("worker", "handed")
  /\ Conclude("COMPLETE")
  /\ UNCHANGED <<setup, over, outboxVars, event, calls, enabled, trouble>>

Cycle ==
  \/ Start
  \/ \E o \in Originals : AnalysisClaim(o)
  \/ \E state \in {"PENDING", "EXCLUDED"} : AnalysisReject(state)
  \/ Block \/ Reuse \/ Defer \/ Reserve \/ Ask
  \/ \E status \in LedgerStates \ {"RESERVED"} : FinishCall(status)
  \/ LoseAnswer \/ FailReport \/ HandOff \/ Complete

-----------------------------------------------------------------------------
(* The worker: the message *)

EndCycle ==
  /\ At("worker", "cycle")
  /\ run["worker"].todo = {}
  /\ IF enabled THEN Moves("worker", "handing") ELSE Stops("worker")
  /\ UNCHANGED <<setup, queue, outboxVars, event, calls, enabled, trouble>>

\* Complete analyses without a DELIVERY row, from before delivery was enabled.
Unhanded ==
  {o \in Originals :
     ~over /\ IsIn(Analysis(o), "COMPLETE") /\ Delivery(o) \notin DOMAIN jobs}

Recover(o) ==
  /\ At("worker", "handing")
  /\ o \in Unhanded
  /\ jobs' = Added({Delivery(o)})
  /\ UNCHANGED <<setup, over, outboxVars, event, calls, enabled, run, trouble>>

DeliveryClaim(o) ==
  /\ At("worker", "handing")
  /\ Unhanded = {}
  /\ Ready(Delivery(o))
  /\ jobs' = Claimed(Delivery(o))
  /\ run' = [run EXCEPT !["worker"].at = "inserting", !["worker"].item = o]
  /\ UNCHANGED <<setup, over, outboxVars, event, calls, enabled, trouble>>

Insert ==
  /\ At("worker", "inserting")
  /\ outbox' = Inserted({Item})
  /\ Moves("worker", "inserted")
  /\ UNCHANGED <<setup, queue, accepted, event, calls, enabled, trouble>>

\* A report that can no longer be built is blocked.  A lost lease ends the
\* notifications of the run.
DeliveryFinish(state) ==
  /\ \/ At("worker", "inserted") /\ state = "COMPLETE" /\ UNCHANGED trouble
     \/ At("worker", "inserting") /\ state = "BLOCKED" /\ Trouble
  /\ jobs' = Finished(Delivery(Item), state)
  /\ IF Leased(Delivery(Item))
     THEN run' = [run EXCEPT !["worker"].at = "handing",
                             !["worker"].item = "none"]
     ELSE Stops("worker")
  /\ UNCHANGED <<setup, over, outboxVars, event, calls, enabled>>

\* The reports of this run are inserted again, those that can be loaded.
InsertReports(loaded) ==
  /\ At("worker", "handing")
  /\ Unhanded = {}
  /\ \A o \in Originals : ~Ready(Delivery(o))
  /\ outbox' = Inserted(loaded)
  /\ run' = [run EXCEPT !["worker"] = [Idle EXCEPT !.at = "sending"]]
  /\ UNCHANGED <<setup, queue, accepted, event, calls, enabled, trouble>>

Send(m, old, state) ==
  /\ At("worker", "sending")
  /\ run["worker"].n < SendLimit
  /\ Take(m, old, state)
  /\ IF state = "HELD" THEN Trouble ELSE UNCHANGED trouble
  /\ run' = [run EXCEPT !["worker"].at = IF state = "HELD" THEN "sending"
                                         ELSE "sent",
                        !["worker"].item = IF state = "HELD" THEN "none" ELSE m,
                        !["worker"].n = @ + 1]
  /\ UNCHANGED <<setup, queue, event, calls, enabled>>

EndRun(old) ==
  /\ At("worker", "sending")
  /\ IF run["worker"].n < SendLimit THEN TakeNone(old)
     ELSE UNCHANGED outboxVars
  /\ Stops("worker")
  /\ UNCHANGED <<setup, queue, event, calls, enabled, trouble>>

Shown ==
  /\ At("worker", "sent")
  /\ Accept(Item)
  /\ Moves("worker", "shown")
  /\ UNCHANGED <<setup, queue, event, calls, enabled, trouble>>

Answered(state) ==
  /\ At("worker", "sent") \/ At("worker", "shown")
  /\ state \in Answers(Item, At("worker", "shown"))
  /\ Answer(Item, state)
  /\ IF state = "SENT" THEN UNCHANGED trouble ELSE Trouble
  /\ run' = [run EXCEPT !["worker"].at = "sending", !["worker"].item = "none"]
  /\ UNCHANGED <<setup, queue, event, calls, enabled>>

Notify ==
  \/ EndCycle
  \/ \E o \in Originals : Recover(o) \/ DeliveryClaim(o)
  \/ Insert
  \/ \E state \in {"COMPLETE", "BLOCKED"} : DeliveryFinish(state)
  \/ \E loaded \in SUBSET run["worker"].reports : InsertReports(loaded)
  \/ \E m \in Waiting, old \in SUBSET Waiting, state \in {"SENDING", "HELD"} :
       Send(m, old, state)
  \/ \E old \in SUBSET Waiting : EndRun(old)
  \/ Shown
  \/ \E state \in RowStates : Answered(state)

Worker == Cycle \/ Notify

-----------------------------------------------------------------------------
(* The surroundings *)

\* The configuration is read when a run of an installed worker begins.
Enable ==
  /\ ~enabled
  /\ "worker" \in units
  /\ At("worker", "idle")
  /\ enabled' = TRUE
  /\ UNCHANGED <<setup, queue, outboxVars, event, calls, run, trouble>>

Kill(p) ==
  /\ ~At(p, "idle")
  /\ Trouble
  /\ Stops(p)
  /\ UNCHANGED <<setup, queue, outboxVars, event, calls, enabled>>

\* The living process that works under the row's lease.
Holds(k) ==
  \/ ~At("news", "idle") /\ k = <<"IDENTITY", run["news"].item>>
  \/ ~At("source", "idle") /\ k = SourceJob
  \/ At("worker", "inserting") /\ k = Delivery(Item)
  \/ At("worker", "inserted") /\ k = Delivery(Item)
  \/ /\ run["worker"].at \in {"analysing", "refused", "reserved", "asked",
                              "answered", "handed"}
     /\ k = Analysis(Item)

\* A lease outlives a dead process, and seldom a living one does its lease.
LeaseLapses(k) ==
  /\ Lapse(k)
  /\ IF Holds(k) THEN Trouble ELSE UNCHANGED trouble
  /\ UNCHANGED <<setup, outboxVars, event, calls, enabled, run>>

Outdate ==
  /\ Retire \/ Expire
  /\ UNCHANGED <<setup, outboxVars, event, calls, enabled, run, trouble>>

Age(m) ==
  /\ GetOlder(m)
  /\ UNCHANGED <<setup, queue, event, calls, enabled, run, trouble>>

Init ==
  /\ feed \in SUBSET Revisions
  /\ units \in SUBSET Processes
  /\ QueueInit
  /\ outbox = << >>
  /\ accepted = [o \in Originals |-> 0]
  /\ members = << >>
  /\ gen = 0
  /\ seen = {}
  /\ matched = {}
  /\ ledger = << >>
  /\ paid = [o \in Originals |-> 0]
  /\ enabled = FALSE
  /\ run = [p \in Processes |-> Idle]
  /\ trouble \in 0..MaxTrouble

Next ==
  \/ \E r \in Revisions : Discover(r)
  \/ News
  \/ Source
  \/ Worker
  \/ Enable
  \/ \E p \in Processes : Kill(p)
  \/ \E k \in Keys : LeaseLapses(k)
  \/ Outdate
  \/ \E m \in Originals : Age(m)

\* A timer starts the worker every ten minutes and systemd ends one that
\* hangs; a lease nobody holds lapses.  Of the lanes nothing is assumed.
Fairness ==
  /\ WF_vars(Worker)
  /\ WF_vars(\E k \in Keys : LeaseLapses(k) /\ ~Holds(k))

Spec == Init /\ [][Next]_vars /\ Fairness

-----------------------------------------------------------------------------
(* Correctness *)

\* Every variable has its type, and no count passes its limit.
EventTypeOK ==
  /\ DOMAIN jobs \subseteq Keys
  /\ \A k \in DOMAIN jobs :
       jobs[k] \in [state : JobStates, lapsed : BOOLEAN]
  /\ over \in BOOLEAN /\ enabled \in BOOLEAN
  /\ DOMAIN outbox \subseteq Originals
  /\ \A m \in DOMAIN outbox :
       outbox[m] \in [state : RowStates, tries : 0..(MaxRetries + 1),
                      age : Ages]
  /\ Recorded \subseteq Revisions /\ IsInjective(members)
  /\ gen \in 0..Cardinality(Revisions)
  /\ seen \subseteq Recorded /\ matched \subseteq Originals
  /\ DOMAIN ledger \subseteq Originals
  /\ Cardinality(DOMAIN ledger) <= Budget
  /\ Range(ledger) \subseteq LedgerStates
  /\ trouble \in 0..MaxTrouble

\* A completed stage has left its result to the next one: the revision and
\* the SOURCE job, the analysis of every matched text, the valid answer in
\* the journal, the row of the outbox.
HandedOn ==
  \A k \in DOMAIN jobs : jobs[k].state = "COMPLETE" =>
    CASE k[1] = "IDENTITY" -> k[2] \in Recorded /\ SourceJob \in DOMAIN jobs
      [] k[1] = "SOURCE" ->
           matched # {} /\ \A o \in matched : Analysis(o) \in DOMAIN jobs
      [] k[1] = "ANALYSIS" ->
           k[2] \in DOMAIN ledger /\ ledger[k[2]] = "VALIDATED"
      [] OTHER -> k[2] \in DOMAIN outbox

\* While the event is kept, its SOURCE job is complete only if the pass that
\* completed it could choose from the newest payload of every revised
\* document.
RevisionIsSeen ==
  IsIn(SourceJob, "COMPLETE") /\ ~over =>
    \A r \in Latest :
      (\E x \in Recorded : x # r /\ x[1] = r[1]) => r \in seen

\* Whatever is killed when, and however recording a revision overlaps the
\* fetch of the event's sources, no work is marked complete that a later
\* stage, or a later pass of the same one, would then have to find again.
NothingFallsThrough == HandedOn /\ RevisionIsSeen

\* Of the messages that Discord shows, at most one is younger than an hour:
\* a send cut short by a kill holds back the next one like a confirmed one.
CommentaryCooldown ==
  Cardinality({m \in DOMAIN outbox : accepted[m] > 0 /\ outbox[m].age < 2}) <= 1

\* The two things the pipeline does in the world, as messages of an outbox.
Outside == {"paid", "shown"} \X Originals

Created == [x \in Outside |-> IF x[1] = "paid" THEN paid[x[2]]
                              ELSE accepted[x[2]]]

CallOutcome(o) ==
  IF o \notin DOMAIN ledger THEN "undecided"
  ELSE CASE ledger[o] = "RESERVED" -> "undecided"
         [] ledger[o] = "VALIDATED" -> "delivered"
         [] OTHER -> "doubtful"

RowOutcome(o) ==
  IF o \notin DOMAIN outbox THEN "undecided"
  ELSE CASE outbox[o].state \in {"PENDING", "RETRY", "SENDING"} -> "undecided"
         [] outbox[o].state = "SENT" -> "delivered"
         [] outbox[o].state = "UNKNOWN" -> "doubtful"
         [] OTHER -> "suppressed"

Outcome == [x \in Outside |-> IF x[1] = "paid" THEN CallOutcome(x[2])
                              ELSE RowOutcome(x[2])]

Promise == INSTANCE AtMostOnceDelivery
             WITH Messages <- Outside, created <- Created, outcome <- Outcome

\* The paid journal and the outbox both keep the promise of an at-most-once
\* delivery: a text is paid for once and posted once, and what each of them
\* records is what happened, through kills, lapsed leases and retries.
OnceOutside == Promise!Spec

\* The answer for the text waits for nothing: there is none to post, or it is
\* in the outbox, or the event is out of date, or its analysis or its
\* delivery was closed.
Used(o) ==
  \/ ~enabled \/ over
  \/ o \notin DOMAIN ledger \/ ledger[o] # "VALIDATED"
  \/ o \in DOMAIN outbox
  \/ IsIn(Analysis(o), "BLOCKED") \/ IsIn(Analysis(o), "EXCLUDED")
  \/ IsIn(Delivery(o), "BLOCKED")

\* A valid answer that was paid for does not stay unused: after every kill,
\* lost lease and late enabling of the delivery, the worker's next runs bring
\* it to the outbox.  (What is used stays used, so "again and again" says the
\* same of each answer as "leads to", at half the price.)
PaidIsUsed == []<>(\A o \in Originals : Used(o))
=============================================================================
