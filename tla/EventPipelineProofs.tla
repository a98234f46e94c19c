-------------------------- MODULE EventPipelineProofs --------------------------
(***************************************************************************)
(* EventPipeline for every set of documents, versions and official texts   *)
(* and for every limit: the types, that no completed stage has dropped its *)
(* result and no revision is overlooked, the cooldown between messages,    *)
(* and that paid requests and messages happen at most once.                *)
(***************************************************************************)
EXTENDS EventPipeline, FiniteSetTheorems, TLAPS

Steps == {"idle", "claimed", "recorded", "enqueued", "fetching", "matched",
          "cycle", "analysing", "reserved", "asked", "answered", "refused",
          "handed", "handing", "inserting", "inserted", "sending", "sent",
          "shown"}

JobRecords == [state : JobStates, lapsed : BOOLEAN]

OutboxRecords == [state : RowStates, tries : 0..(MaxRetries + 1), age : Ages]

RunRecords == [at : Steps, item : {"none"} \union Revisions \union Originals,
               todo : SUBSET Originals, n : Nat, reports : SUBSET Originals]

QueueTypes ==
  /\ DOMAIN jobs \subseteq Keys
  /\ jobs \in [DOMAIN jobs -> JobRecords]
  /\ over \in BOOLEAN

OutboxTypes ==
  /\ DOMAIN outbox \subseteq Originals
  /\ outbox \in [DOMAIN outbox -> OutboxRecords]
  /\ \A m \in DOMAIN outbox :
       outbox[m].state \in {"PENDING", "RETRY"} => outbox[m].tries <= MaxRetries
  /\ accepted \in [Originals -> Nat]

\* A generation is a revision recorded after the first.
EventTypes ==
  /\ members \in Seq(Revisions) /\ IsInjective(members)
  /\ gen \in Nat /\ gen <= Len(members)
  /\ seen \subseteq Recorded /\ matched \subseteq Originals

JournalTypes ==
  /\ DOMAIN ledger \subseteq Originals
  /\ ledger \in [DOMAIN ledger -> LedgerStates]
  /\ IsFiniteSet(DOMAIN ledger) /\ Cardinality(DOMAIN ledger) <= Budget
  /\ paid \in [Originals -> Nat]

RunTypes ==
  /\ run \in [Processes -> RunRecords]
  /\ enabled \in BOOLEAN /\ trouble \in 0..MaxTrouble

\* The news lane has recorded the revision it enqueues, and enqueued the event
\* before it finishes.
NewsHolds ==
  LET news == run["news"]
  IN /\ news.at \in {"idle", "claimed", "recorded", "enqueued"}
     /\ news.at # "idle" => news.item \in Revisions
     /\ news.at \in {"recorded", "enqueued"} => news.item \in Recorded
     /\ news.at = "enqueued" => SourceJob \in DOMAIN jobs

\* Every revised document's newest payload was there to choose from.
NewestSeen ==
  \A r \in Latest : (\E x \in Recorded : x # r /\ x[1] = r[1]) => r \in seen

\* While the source lane works, its job is not complete; what it read is the
\* newest until the generation moves on; what it has enqueued is there.
SourceHolds ==
  LET source == run["source"]
  IN /\ source.at \in {"idle", "claimed", "fetching", "matched"}
     /\ source.at # "idle" =>
          /\ IsIn(SourceJob, "RUNNING") \/ IsIn(SourceJob, "EXPIRED")
          /\ source.n <= gen
     /\ source.at \in {"fetching", "matched"} /\ source.n = gen => NewestSeen
     /\ source.at = "matched" =>
          /\ matched # {}
          /\ \A o \in matched \ source.todo : Analysis(o) \in DOMAIN jobs

\* Where the worker is in the life of a paid request, and of a message.
WorkerHolds ==
  LET at == run["worker"].at
  IN /\ at \notin {"claimed", "recorded", "enqueued", "fetching", "matched"}
     /\ at \notin {"idle", "cycle", "handing", "sending"} => Item \in Originals
     /\ at \in {"reserved", "asked"} =>
          /\ Item \in DOMAIN ledger /\ ledger[Item] = "RESERVED"
          /\ paid[Item] = IF at = "asked" THEN 1 ELSE 0
     /\ at \in {"answered", "handed"} =>
          Item \in DOMAIN ledger /\ ledger[Item] = "VALIDATED"
     /\ at = "inserted" => Item \in DOMAIN outbox
     /\ at \in {"sent", "shown"} =>
          /\ Item \in DOMAIN outbox /\ outbox[Item].state = "SENDING"
          /\ accepted[Item] = IF at = "shown" THEN 1 ELSE 0

\* The journal knows every request that was paid for.
JournalAgrees ==
  \A o \in Originals :
    /\ o \notin DOMAIN ledger => paid[o] = 0
    /\ o \in DOMAIN ledger /\ ledger[o] = "VALIDATED" => paid[o] = 1

\* Messages are shown of rows that were taken, once, and SENT rows are shown.
RowsAgree ==
  \A m \in Originals :
    /\ accepted[m] \in {0, 1}
    /\ accepted[m] = 1 =>
         m \in DOMAIN outbox /\ outbox[m].state \in {"SENDING", "SENT", "UNKNOWN"}
    /\ m \in DOMAIN outbox /\ outbox[m].state = "SENT" => accepted[m] = 1

\* At most one row that may stand in the channel is younger than an hour.
Hot(m) ==
  outbox[m].state \in {"SENT", "SENDING", "UNKNOWN"} /\ outbox[m].age < 2

OneHot == \A m, p \in DOMAIN outbox : Hot(m) /\ Hot(p) => m = p

\* HandedOn, one implication per stage.
Justified(k) ==
  /\ k[1] = "IDENTITY" => k[2] \in Recorded /\ SourceJob \in DOMAIN jobs
  /\ k[1] = "SOURCE" =>
       matched # {} /\ \A o \in matched : Analysis(o) \in DOMAIN jobs
  /\ k[1] = "ANALYSIS" => k[2] \in DOMAIN ledger /\ ledger[k[2]] = "VALIDATED"
  /\ k[1] = "DELIVERY" => k[2] \in DOMAIN outbox

Handed == \A k \in DOMAIN jobs : jobs[k].state = "COMPLETE" => Justified(k)

\* The inductive invariant.
EventInv ==
  /\ QueueTypes /\ OutboxTypes /\ EventTypes /\ JournalTypes /\ RunTypes
  /\ NewsHolds /\ SourceHolds /\ WorkerHolds
  /\ Handed /\ RevisionIsSeen
  /\ JournalAgrees /\ RowsAgree /\ OneHot

\* On the rows there can be, Handed says what HandedOn says.
LEMMA HandedSame ==
  ASSUME QueueTypes
  PROVE  HandedOn <=> Handed
<1>1. \A k \in DOMAIN jobs : k[1] \in {"IDENTITY", "SOURCE", "ANALYSIS", "DELIVERY"}
  BY DEF QueueTypes, Keys, SourceJob
<1>2. QED
  BY <1>1 DEF HandedOn, Handed, Justified

-----------------------------------------------------------------------------
(* The operations of the queue *)

\* J is the queue after a step that leaves the state of every row as it is, or
\* gives a row of "ks" a state of "states".
QueueGoes(J, ks, states) ==
  /\ DOMAIN jobs \subseteq DOMAIN J /\ DOMAIN J \subseteq Keys
  /\ J \in [DOMAIN J -> JobRecords]
  /\ \A k \in DOMAIN J :
       \/ k \in DOMAIN jobs /\ J[k].state = jobs[k].state
       \/ k \in ks /\ J[k].state \in states

\* A new row of the queue.
LEMMA JobType ==
  ASSUME NEW state \in JobStates
  PROVE  Job(state) \in JobRecords /\ Job(state).state = state
  BY DEF Job, JobRecords

\* What "insert or ignore" adds waits or is too late; rows there are stay.
LEMMA AddedGoes ==
  ASSUME QueueTypes, NEW ks \in SUBSET Keys
  PROVE  /\ QueueGoes(Added(ks), ks \ DOMAIN jobs, {"PENDING", "EXPIRED"})
         /\ DOMAIN Added(ks) = DOMAIN jobs \union ks
<1>1. Job(IF over THEN "EXPIRED" ELSE "PENDING") \in JobRecords
      /\ Job(IF over THEN "EXPIRED" ELSE "PENDING").state \in {"PENDING", "EXPIRED"}
  BY JobType DEF JobStates
<1>2. QED
  BY <1>1 DEF Added, QueueGoes, QueueTypes

\* A claim starts the row.
LEMMA ClaimedGoes ==
  ASSUME QueueTypes, NEW k, Ready(k)
  PROVE  QueueGoes(Claimed(k), {k}, {"RUNNING"})
<1>1. Job("RUNNING") \in JobRecords /\ Job("RUNNING").state = "RUNNING"
  BY JobType DEF JobStates
<1>2. QED
  BY <1>1 DEF Claimed, Ready, IsIn, QueueGoes, QueueTypes

\* Finishing gives the row its state, or does nothing.
LEMMA FinishedGoes ==
  ASSUME QueueTypes, NEW k, NEW state \in JobStates
  PROVE  QueueGoes(Finished(k, state), {k}, {state})
<1>1. Job(state) \in JobRecords /\ Job(state).state = state
  BY JobType
<1>2. QED
  BY <1>1 DEF Finished, Leased, IsIn, QueueGoes, QueueTypes

\* Nothing happens to the queue.
LEMMA SameGoes ==
  ASSUME QueueTypes, NEW ks, NEW states
  PROVE  QueueGoes(jobs, ks, states)
  BY DEF QueueGoes, QueueTypes

\* Expiry and lapsing leases complete nothing.
LEMMA OutdateGoes ==
  ASSUME QueueTypes, Outdate \/ \E k : Lapse(k)
  PROVE  QueueGoes(jobs', DOMAIN jobs, {"EXPIRED"}) /\ over' \in BOOLEAN
         /\ (over => over')
<1>1. Job("EXPIRED") \in JobRecords /\ Job("EXPIRED").state = "EXPIRED"
  BY JobType DEF JobStates
<1>2. CASE Expire
  BY <1>1, <1>2 DEF Expire, QueueGoes, QueueTypes
<1>3. CASE Retire
  BY <1>3, SameGoes DEF Retire
<1>4. ASSUME NEW k, Lapse(k)
      PROVE  QueueGoes(jobs', DOMAIN jobs, {"EXPIRED"}) /\ over' = over
  BY ZenonT(60), <1>4 DEF Lapse, Leased, IsIn, QueueGoes, QueueTypes, JobRecords
<1>5. QED
  BY <1>2, <1>3, <1>4 DEF Outdate, QueueTypes

-----------------------------------------------------------------------------
(* What a step leaves alone keeps its part of the invariant *)

WorkerSide ==
  /\ OutboxTypes /\ JournalTypes /\ WorkerHolds
  /\ JournalAgrees /\ RowsAgree /\ OneHot

\* The lanes do not touch the worker's tables.
LEMMA WorkerSideKept ==
  ASSUME WorkerSide, UNCHANGED <<outboxVars, calls>>,
         run'["worker"] = run["worker"]
  PROVE  WorkerSide'
  BY DEF WorkerSide, OutboxTypes, JournalTypes, WorkerHolds, JournalAgrees,
         RowsAgree, OneHot, Hot, outboxVars, calls, Item

\* Nobody but the source lane changes the row of the SOURCE job, except that
\* it is inserted or expires.
SourceRowKept(ks, states) ==
  SourceJob \in ks =>
    \/ SourceJob \notin DOMAIN jobs /\ "COMPLETE" \notin states
    \/ states = {"EXPIRED"}

\* What a step that leaves the event alone, and of the source lane at most the
\* job's row, keeps.
LEMMA EventKept ==
  ASSUME EventTypes, RevisionIsSeen, QueueTypes, UNCHANGED event, over => over',
         over' \in BOOLEAN,
         NEW ks, NEW states, QueueGoes(jobs', ks, states), SourceRowKept(ks, states)
  PROVE  EventTypes' /\ RevisionIsSeen'
<1>1. EventTypes' /\ Recorded' = Recorded /\ Latest' = Latest
  BY DEF EventTypes, event, Recorded, Latest
<1>2. IsIn(SourceJob, "COMPLETE")' => IsIn(SourceJob, "COMPLETE")
  BY DEF IsIn, QueueGoes, SourceRowKept
<1>3. RevisionIsSeen'
  BY <1>1, <1>2 DEF RevisionIsSeen, event, QueueTypes
<1>4. QED
  BY <1>1, <1>3

\* The source keeps up with the rows when the queue moves and the news does
\* not.
LEMMA SourceKept ==
  ASSUME SourceHolds, QueueTypes, UNCHANGED event,
         run'["source"] = run["source"],
         NEW ks, NEW states, QueueGoes(jobs', ks, states), SourceRowKept(ks, states)
  PROVE  SourceHolds'
<1>1. Recorded' = Recorded /\ Latest' = Latest /\ (NewestSeen' <=> NewestSeen)
  BY DEF event, Recorded, Latest, NewestSeen
<1>2. IsIn(SourceJob, "RUNNING") \/ IsIn(SourceJob, "EXPIRED")
        => (IsIn(SourceJob, "RUNNING") \/ IsIn(SourceJob, "EXPIRED"))'
  BY DEF IsIn, QueueGoes, SourceRowKept
<1>3. QED
  BY <1>1, <1>2 DEF SourceHolds, QueueGoes, event

\* What the news process holds stays recorded while the queue only grows.
LEMMA NewsKept ==
  ASSUME NewsHolds, Recorded \subseteq Recorded', DOMAIN jobs \subseteq DOMAIN jobs',
         run'["news"] = run["news"]
  PROVE  NewsHolds'
  BY DEF NewsHolds

\* Completed rows stay justified, and new ones are.
LEMMA HandedKept ==
  ASSUME Handed, Recorded \subseteq Recorded', UNCHANGED matched,
         DOMAIN outbox \subseteq DOMAIN outbox',
         DOMAIN ledger \subseteq DOMAIN ledger',
         \A o \in DOMAIN ledger : ledger[o] = "VALIDATED" => ledger'[o] = "VALIDATED",
         NEW ks, NEW states, QueueGoes(jobs', ks, states),
         "COMPLETE" \notin states \/ \A k \in ks : Justified(k)'
  PROVE  Handed'
<1>1. DOMAIN jobs \subseteq DOMAIN jobs'
  BY DEF QueueGoes
<1>2. ASSUME NEW k \in DOMAIN jobs', jobs'[k].state = "COMPLETE"
      PROVE  Justified(k)'
  <2>1. CASE k \in ks /\ "COMPLETE" \in states
    BY <2>1
  <2>2. CASE ~(k \in ks /\ "COMPLETE" \in states)
    <3>1. k \in DOMAIN jobs /\ jobs[k].state = "COMPLETE"
      BY <1>2, <2>2 DEF QueueGoes
    <3>2. Justified(k)
      BY <3>1 DEF Handed
    <3>3. QED
      BY <1>1, <3>2 DEF Justified, Analysis
  <2>3. QED
    BY <2>1, <2>2
<1>3. QED
  BY <1>2 DEF Handed

\* A step of a lane.
LEMMA LaneStep ==
  ASSUME EventInv, UNCHANGED <<outboxVars, calls>>,
         run'["worker"] = run["worker"],
         QueueTypes', RunTypes', EventTypes', NewsHolds', SourceHolds', Handed',
         RevisionIsSeen'
  PROVE  EventInv'
<1>1. WorkerSide'
  BY WorkerSideKept DEF EventInv, WorkerSide
<1>2. QED
  BY <1>1 DEF EventInv, WorkerSide

\* A step of the worker.
LEMMA WorkerStep ==
  ASSUME EventInv, UNCHANGED event, over => over', over' \in BOOLEAN,
         run'["news"] = run["news"], run'["source"] = run["source"],
         DOMAIN outbox \subseteq DOMAIN outbox',
         DOMAIN ledger \subseteq DOMAIN ledger',
         \A o \in DOMAIN ledger : ledger[o] = "VALIDATED" => ledger'[o] = "VALIDATED",
         NEW ks, NEW states, QueueGoes(jobs', ks, states), SourceRowKept(ks, states),
         "COMPLETE" \notin states \/ \A k \in ks : Justified(k)',
         RunTypes', WorkerSide'
  PROVE  EventInv'
<1>1. QueueTypes'
  BY DEF QueueGoes, QueueTypes
<1>2. EventTypes' /\ RevisionIsSeen'
  BY EventKept DEF EventInv
<1>3. SourceHolds'
  BY SourceKept DEF EventInv
<1>4. Recorded' = Recorded /\ UNCHANGED matched
  BY DEF Recorded, event
<1>5. NewsHolds'
  BY <1>4, NewsKept DEF EventInv, QueueGoes
<1>6. Handed'
  BY <1>4, HandedKept DEF EventInv
<1>7. QED
  BY <1>1, <1>2, <1>3, <1>5, <1>6 DEF EventInv, WorkerSide

-----------------------------------------------------------------------------
(* The processes *)

\* A process that is idle, and its record at its first step.
LEMMA IdleType == Idle \in RunRecords /\ Idle.at = "idle"
  BY DEF Idle, RunRecords, Steps

\* The end of a run.
LEMMA StopsGoes ==
  ASSUME RunTypes, NEW p \in Processes, Stops(p)
  PROVE  /\ run' \in [Processes -> RunRecords] /\ run'[p].at = "idle"
         /\ \A q \in Processes \ {p} : run'[q] = run[q]
  BY IdleType DEF RunTypes, Stops

\* A step of a run that changes only where it is.
LEMMA MovesGoes ==
  ASSUME RunTypes, NEW p \in Processes, NEW step \in Steps, Moves(p, step)
  PROVE  /\ run' \in [Processes -> RunRecords] /\ run'[p].at = step
         /\ run'[p].item = run[p].item /\ run'[p].n = run[p].n
         /\ run'[p].todo = run[p].todo /\ run'[p].reports = run[p].reports
         /\ \A q \in Processes \ {p} : run'[q] = run[q]
<1>1. run[p] \in RunRecords
  BY DEF RunTypes
<1>2. [run[p] EXCEPT !.at = step] \in RunRecords
  BY <1>1 DEF RunRecords
<1>3. QED
  BY <1>1, <1>2 DEF RunTypes, Moves, RunRecords

\* Kills and failures are counted up to their bound.
LEMMA TroubleType ==
  ASSUME RunTypes, Trouble \/ UNCHANGED trouble
  PROVE  trouble' \in 0..MaxTrouble
  BY EventAssumption DEF RunTypes, Trouble
-----------------------------------------------------------------------------
(* The news lane *)

\* A revision is discovered.
LEMMA DiscoverInv ==
  ASSUME EventInv, NEW r \in Revisions, Discover(r)
  PROVE  EventInv'
<1> DEFINE k == <<"IDENTITY", r>>
<1>1. k \in Keys /\ k # SourceJob
  BY DEF Keys, SourceJob
<1>2. /\ QueueGoes(jobs', {k} \ DOMAIN jobs, {"PENDING", "EXPIRED"})
      /\ UNCHANGED <<over, outboxVars, event, calls, enabled, run, trouble>>
  BY <1>1, AddedGoes DEF Discover, EventInv
<1>3. SourceRowKept({k} \ DOMAIN jobs, {"PENDING", "EXPIRED"})
  BY <1>1 DEF SourceRowKept
<1>4. RunTypes' /\ WorkerSide'
  BY <1>2, WorkerSideKept DEF EventInv, RunTypes, WorkerSide
<1> HIDE DEF k
<1>5. QED
  BY <1>2, <1>3, <1>4, WorkerStep
     DEF EventInv, QueueTypes, outboxVars, calls

\* A step of the news lane that leaves the event alone.
LEMMA NewsStep ==
  ASSUME EventInv, UNCHANGED <<over, outboxVars, event, calls, enabled>>,
         trouble' \in 0..MaxTrouble, run' \in [Processes -> RunRecords],
         run'["source"] = run["source"], run'["worker"] = run["worker"],
         NEW ks, NEW states, QueueGoes(jobs', ks, states), SourceRowKept(ks, states),
         "COMPLETE" \notin states \/ \A k \in ks : Justified(k)',
         NewsHolds'
  PROVE  EventInv'
<1>1. QueueTypes' /\ RunTypes'
  BY DEF QueueGoes, QueueTypes, EventInv, RunTypes
<1>2. EventTypes' /\ RevisionIsSeen'
  BY EventKept DEF EventInv, QueueTypes
<1>3. SourceHolds'
  BY SourceKept DEF EventInv
<1>4. Handed'
  BY HandedKept DEF EventInv, event, outboxVars, calls, Recorded
<1>5. QED
  BY <1>1, <1>2, <1>3, <1>4, LaneStep

\* A revision is claimed.
LEMMA NewsClaimInv ==
  ASSUME EventInv, NEW r \in Revisions, NewsClaim(r)
  PROVE  EventInv'
<1> DEFINE k == <<"IDENTITY", r>>
<1>1. k \in Keys /\ k # SourceJob
  BY DEF Keys, SourceJob
<1>2. /\ QueueGoes(jobs', {k}, {"RUNNING"})
      /\ UNCHANGED <<over, outboxVars, event, calls, enabled, trouble>>
  BY <1>1, ClaimedGoes DEF NewsClaim, EventInv
<1>3. SourceRowKept({k}, {"RUNNING"}) /\ trouble' \in 0..MaxTrouble
  BY <1>1, <1>2 DEF SourceRowKept, EventInv, RunTypes
<1>4. [Idle EXCEPT !.at = "claimed", !.item = r] \in RunRecords
  BY IdleType DEF Idle, RunRecords, Steps
<1>5. /\ run' \in [Processes -> RunRecords]
      /\ run'["news"].at = "claimed" /\ run'["news"].item = r
      /\ run'["source"] = run["source"] /\ run'["worker"] = run["worker"]
  BY <1>4 DEF NewsClaim, EventInv, RunTypes, Processes, Idle
<1>6. NewsHolds'
  BY <1>5 DEF NewsHolds
<1> HIDE DEF k
<1>7. QED
  BY <1>2, <1>3, <1>5, <1>6, NewsStep

\* The row of the revision is finished and the lane stops.
LEMMA NewsEndInv ==
  ASSUME EventInv, ~At("news", "idle"), NEW state \in {"PENDING", "EXCLUDED", "COMPLETE"},
         jobs' = Finished(<<"IDENTITY", run["news"].item>>, state), Stops("news"),
         state = "COMPLETE" => At("news", "enqueued"),
         Trouble \/ UNCHANGED trouble,
         UNCHANGED <<setup, over, outboxVars, event, calls, enabled>>
  PROVE  EventInv'
<1> PICK r \in Revisions : r = run["news"].item
  BY DEF EventInv, NewsHolds, At
<1> DEFINE k == <<"IDENTITY", r>>
<1>1. k # SourceJob
  BY DEF SourceJob
<1>2. QueueGoes(jobs', {k}, {state})
  BY <1>1, FinishedGoes DEF EventInv, JobStates
<1>3. SourceRowKept({k}, {state}) /\ trouble' \in 0..MaxTrouble
  BY <1>1, TroubleType DEF SourceRowKept, EventInv
<1>4. /\ run' \in [Processes -> RunRecords] /\ run'["news"].at = "idle"
      /\ run'["source"] = run["source"] /\ run'["worker"] = run["worker"]
  BY StopsGoes DEF EventInv, Processes
<1>5. NewsHolds'
  BY <1>4 DEF NewsHolds
<1>6. state = "COMPLETE" => Justified(k)'
  <2>1. state = "COMPLETE" => r \in Recorded /\ SourceJob \in DOMAIN jobs
    BY DEF EventInv, NewsHolds, At
  <2>2. Recorded' = Recorded /\ DOMAIN jobs \subseteq DOMAIN jobs'
    BY <1>2 DEF event, Recorded, QueueGoes
  <2>3. QED
    BY <2>1, <2>2 DEF Justified
<1> HIDE DEF k
<1>7. "COMPLETE" \notin {state} \/ \A j \in {k} : Justified(j)'
  BY <1>6
<1>8. QED
  BY <1>2, <1>3, <1>4, <1>5, <1>7, NewsStep

\* A document is turned away.
LEMMA NewsRejectInv ==
  ASSUME EventInv, NEW state \in {"PENDING", "EXCLUDED"}, NewsReject(state)
  PROVE  EventInv'
  BY NewsEndInv DEF NewsReject, At

\* A document is done.
LEMMA NewsFinishInv ==
  ASSUME EventInv, NewsFinish
  PROVE  EventInv'
  BY NewsEndInv DEF NewsFinish, At

\* The SOURCE job is there.
LEMMA EnqueueSourceInv ==
  ASSUME EventInv, EnqueueSource
  PROVE  EventInv'
<1> DEFINE ks == {SourceJob} \ DOMAIN jobs
<1>1. SourceJob \in Keys
  BY DEF Keys
<1>2. QueueGoes(jobs', ks, {"PENDING", "EXPIRED"}) /\ SourceJob \in DOMAIN jobs'
  BY <1>1, AddedGoes DEF EnqueueSource, EventInv
<1>3. SourceRowKept(ks, {"PENDING", "EXPIRED"}) /\ trouble' \in 0..MaxTrouble
  BY DEF SourceRowKept, EnqueueSource, EventInv, RunTypes
<1>4. /\ run' \in [Processes -> RunRecords] /\ run'["news"].at = "enqueued"
      /\ run'["news"].item = run["news"].item
      /\ run'["source"] = run["source"] /\ run'["worker"] = run["worker"]
  BY MovesGoes DEF EnqueueSource, EventInv, Processes, Steps
<1>5. NewsHolds'
  BY <1>2, <1>4 DEF NewsHolds, EventInv, EnqueueSource, event, Recorded, At
<1> HIDE DEF ks
<1>6. QED
  BY <1>2, <1>3, <1>4, <1>5, NewsStep DEF EnqueueSource

\* Recording appends a revision that is new, and else does nothing.
LEMMA MembersGrow ==
  ASSUME EventTypes, NEW r \in Revisions, r \notin Recorded, members' = Append(members, r)
  PROVE  /\ members' \in Seq(Revisions) /\ IsInjective(members')
         /\ Len(members') = Len(members) + 1
         /\ Recorded' = Recorded \union {r}
         /\ \A y \in Latest' \ {r} : y \in Latest
<1>1. /\ members' \in Seq(Revisions) /\ Len(members') = Len(members) + 1
      /\ DOMAIN members' = DOMAIN members \union {Len(members) + 1}
      /\ members'[Len(members) + 1] = r
      /\ \A i \in DOMAIN members : members'[i] = members[i] /\ i # Len(members) + 1
  BY DEF EventTypes
<1>2. IsInjective(members')
  BY <1>1 DEF EventTypes, IsInjective, Recorded, Range
<1>3. Recorded' = Recorded \union {r}
  BY <1>1 DEF Recorded, Range
<1>4. \A y \in Latest' \ {r} : y \in Latest
  <2>1. SUFFICES ASSUME NEW y \in Recorded, y # r,
                        \A i, j \in DOMAIN members' :
                          members'[i] = y /\ members'[j][1] = y[1] => j <= i
                 PROVE  \A i, j \in DOMAIN members :
                          members[i] = y /\ members[j][1] = y[1] => j <= i
    BY <1>3 DEF Latest
  <2>2. QED
    BY <1>1, <2>1
<1>5. QED
  BY <1>1, <1>2, <1>3, <1>4

\* A revision of a document that is new, or recorded already, leaves nothing
\* to look at again.
LEMMA NewestStays ==
  ASSUME EventTypes, NEW r \in Revisions, UNCHANGED seen,
         members' = MembersWith(r), NewestSeen,
         r \in Recorded \/ \A x \in Recorded : x[1] # r[1]
  PROVE  NewestSeen'
<1>1. CASE r \in Recorded
  BY <1>1 DEF MembersWith, NewestSeen, Latest, Recorded
<1>2. CASE r \notin Recorded
  <2>1. Recorded' = Recorded \union {r} /\ \A y \in Latest' \ {r} : y \in Latest
    BY <1>2, MembersGrow DEF MembersWith
  <2>2. \A y \in Latest : y \in Recorded
    BY DEF Latest
  <2>3. QED
    BY <1>2, <2>1, <2>2 DEF NewestSeen
<1>3. QED
  BY <1>1, <1>2

\* A revision is recorded, and the pass that missed it is not the last.
LEMMA RecordMemberInv ==
  ASSUME EventInv, RecordMember
  PROVE  EventInv'
<1> PICK r \in Revisions : r = run["news"].item
  BY DEF EventInv, NewsHolds, RecordMember, At
<1> DEFINE revises == r \notin Recorded /\ \E x \in Recorded : x[1] = r[1]
           reopens == revises /\ IsIn(SourceJob, "COMPLETE") /\ ~over
<1>1. /\ members' = MembersWith(r)
      /\ gen' = IF revises /\ SourceJob \in DOMAIN jobs THEN gen + 1 ELSE gen
      /\ jobs' = IF reopens THEN [jobs EXCEPT ![SourceJob] = Job("PENDING")] ELSE jobs
      /\ UNCHANGED <<setup, over, outboxVars, seen, matched, calls, enabled, trouble>>
  BY DEF RecordMember
<1>2. /\ run' \in [Processes -> RunRecords] /\ run'["news"].at = "recorded"
      /\ run'["news"].item = r
      /\ run'["source"] = run["source"] /\ run'["worker"] = run["worker"]
  BY MovesGoes DEF RecordMember, EventInv, Processes, Steps
<1>3. QueueGoes(jobs', {SourceJob}, {"PENDING"})
  <2>1. Job("PENDING") \in JobRecords /\ Job("PENDING").state = "PENDING"
    BY JobType DEF JobStates
  <2>2. QED
    BY <1>1, <2>1 DEF EventInv, QueueGoes, QueueTypes, IsIn
<1>4. /\ DOMAIN jobs' = DOMAIN jobs
      /\ ~reopens => jobs' = jobs
      /\ reopens => jobs'[SourceJob].state = "PENDING"
  BY <1>1, JobType DEF EventInv, QueueTypes, IsIn, JobStates
<1>5. /\ members' \in Seq(Revisions) /\ IsInjective(members')
      /\ Recorded' = Recorded \union {r} /\ Len(members) <= Len(members')
      /\ revises => Len(members') = Len(members) + 1
  <2>1. CASE r \in Recorded
    BY <1>1, <2>1 DEF MembersWith, EventInv, EventTypes, Recorded
  <2>2. CASE r \notin Recorded
    BY <1>1, <2>2, MembersGrow DEF MembersWith, EventInv, EventTypes
  <2>3. QED
    BY <2>1, <2>2
<1>6. EventTypes'
  BY <1>1, <1>5 DEF EventInv, EventTypes
<1>7. ~revises /\ NewestSeen => NewestSeen'
  BY <1>1, NewestStays DEF EventInv
<1>8. SourceHolds'
  <2>1. /\ IsIn(SourceJob, "RUNNING") \/ IsIn(SourceJob, "EXPIRED")
             => SourceJob \in DOMAIN jobs /\ ~reopens
        /\ gen \in Nat /\ run["source"].n \in Nat
    BY DEF IsIn, EventInv, EventTypes, RunTypes, RunRecords, Processes
  <2>2. run["source"].at # "idle" => jobs' = jobs /\ run["source"].n <= gen'
                                     /\ (run["source"].n = gen' => gen' = gen /\ ~revises)
    BY <1>1, <1>4, <2>1 DEF EventInv, SourceHolds
  <2>3. QED
    BY <1>1, <1>2, <1>7, <2>2 DEF EventInv, SourceHolds, IsIn
<1>9. RevisionIsSeen'
  BY <1>1, <1>4, <1>7 DEF EventInv, RevisionIsSeen, NewestSeen, IsIn
<1>10. Handed'
  BY <1>1, <1>3, <1>5, HandedKept DEF EventInv, outboxVars, calls
<1>11. QueueTypes' /\ RunTypes' /\ NewsHolds'
  BY <1>1, <1>2, <1>3, <1>5 DEF EventInv, QueueGoes, QueueTypes, RunTypes, NewsHolds
<1>12. QED
  BY <1>1, <1>2, <1>6, <1>8, <1>9, <1>10, <1>11, LaneStep
-----------------------------------------------------------------------------
(* The source lane *)

\* A step of the source lane.
LEMMA SourceStep ==
  ASSUME EventInv, UNCHANGED <<over, outboxVars, members, gen, calls, enabled>>,
         trouble' \in 0..MaxTrouble, run' \in [Processes -> RunRecords],
         run'["news"] = run["news"], run'["worker"] = run["worker"],
         NEW ks, NEW states, QueueGoes(jobs', ks, states),
         seen' \subseteq Recorded, matched' \subseteq Originals,
         SourceHolds', Handed', RevisionIsSeen'
  PROVE  EventInv'
<1>1. QueueTypes' /\ RunTypes'
  BY DEF QueueGoes, QueueTypes, EventInv, RunTypes
<1>2. Recorded' = Recorded /\ EventTypes'
  BY DEF Recorded, EventInv, EventTypes
<1>3. NewsHolds'
  BY <1>2, NewsKept DEF EventInv, QueueGoes
<1>4. QED
  BY <1>1, <1>2, <1>3, LaneStep

\* The job of the event is claimed.
LEMMA SourceClaimInv ==
  ASSUME EventInv, SourceClaim
  PROVE  EventInv'
<1>1. /\ QueueGoes(jobs', {SourceJob}, {"RUNNING"})
      /\ jobs' = Claimed(SourceJob)
      /\ UNCHANGED <<over, outboxVars, event, calls, enabled, trouble>>
  BY ClaimedGoes DEF SourceClaim, EventInv
<1>2. IsIn(SourceJob, "RUNNING")'
  BY <1>1, JobType DEF SourceClaim, Ready, IsIn, Claimed, EventInv, QueueTypes, JobStates
<1>3. PICK g \in Nat : g = gen
  BY DEF EventInv, EventTypes
<1>4. [Idle EXCEPT !.at = "claimed", !.n = g] \in RunRecords
  BY IdleType DEF Idle, RunRecords, Steps
<1>5. /\ run' \in [Processes -> RunRecords]
      /\ run'["source"].at = "claimed" /\ run'["source"].n = g
      /\ run'["news"] = run["news"] /\ run'["worker"] = run["worker"]
  BY <1>3, <1>4 DEF SourceClaim, EventInv, RunTypes, Processes, Idle
<1>6. SourceHolds'
  BY <1>1, <1>2, <1>3, <1>5 DEF SourceHolds, event
<1>7. RevisionIsSeen'
  BY <1>2 DEF RevisionIsSeen, IsIn
<1>8. Handed'
  BY <1>1, HandedKept DEF EventInv, event, outboxVars, calls, Recorded
<1>9. seen' \subseteq Recorded /\ matched' \subseteq Originals
      /\ UNCHANGED <<members, gen>> /\ trouble' \in 0..MaxTrouble
  BY <1>1 DEF EventInv, EventTypes, event, RunTypes
<1>10. QED
  BY <1>1, <1>5, <1>6, <1>7, <1>8, <1>9, SourceStep

\* While the lane works the job is not complete, so nothing rests yet on what
\* it reads and matches.
LEMMA SourceWorks ==
  ASSUME EventInv, ~At("source", "idle")
  PROVE  /\ ~IsIn(SourceJob, "COMPLETE") /\ SourceJob \in DOMAIN jobs
         /\ IsIn(SourceJob, "RUNNING") \/ IsIn(SourceJob, "EXPIRED")
         /\ run["source"].n \in Nat /\ run["source"].n <= gen
         /\ UNCHANGED <<jobs, members, ledger, outbox>> => Handed'
<1>1. /\ ~IsIn(SourceJob, "COMPLETE") /\ SourceJob \in DOMAIN jobs
      /\ IsIn(SourceJob, "RUNNING") \/ IsIn(SourceJob, "EXPIRED")
      /\ run["source"].n \in Nat /\ run["source"].n <= gen
  BY DEF EventInv, SourceHolds, At, IsIn, RunTypes, RunRecords, Processes
<1>2. ASSUME UNCHANGED <<jobs, members, ledger, outbox>>
      PROVE  Handed'
  <2>1. \A k \in DOMAIN jobs : k[1] = "SOURCE" => k = SourceJob
    BY DEF EventInv, QueueTypes, Keys, SourceJob
  <2>2. \A k \in DOMAIN jobs : jobs[k].state = "COMPLETE" => k[1] # "SOURCE"
    BY <1>1, <2>1 DEF IsIn
  <2>3. Recorded' = Recorded
    BY <1>2 DEF Recorded
  <2>4. QED
    BY <1>2, <2>2, <2>3 DEF EventInv, Handed, Justified
<1>3. QED
  BY <1>1, <1>2

\* The members are read.
LEMMA ReadMembersInv ==
  ASSUME EventInv, ReadMembers
  PROVE  EventInv'
<1>1. ~At("source", "idle") /\ seen' = Latest /\ matched' = {}
      /\ UNCHANGED <<jobs, over, outboxVars, members, gen, calls, enabled, trouble>>
  BY DEF ReadMembers, queue, At
<1>2. /\ run' \in [Processes -> RunRecords] /\ run'["source"].at = "fetching"
      /\ run'["source"].n = run["source"].n
      /\ run'["news"] = run["news"] /\ run'["worker"] = run["worker"]
  BY MovesGoes DEF ReadMembers, EventInv, Processes, Steps
<1>3. Latest' = Latest /\ Latest \subseteq Recorded
  BY <1>1 DEF Latest, Recorded
<1>4. NewestSeen'
  BY <1>1, <1>3 DEF NewestSeen
<1>5. SourceHolds'
  BY <1>1, <1>2, <1>4, SourceWorks DEF SourceHolds, IsIn
<1>6. RevisionIsSeen' /\ Handed'
  BY <1>1, SourceWorks DEF RevisionIsSeen, IsIn, outboxVars, calls
<1>7. QueueGoes(jobs', {}, {}) /\ trouble' \in 0..MaxTrouble
      /\ seen' \subseteq Recorded /\ matched' \subseteq Originals
  BY <1>1, <1>3, SameGoes DEF EventInv, RunTypes
<1>8. QED
  BY <1>1, <1>2, <1>5, <1>6, <1>7, SourceStep

\* The row of the job is finished and the lane stops.
LEMMA SourceEndInv ==
  ASSUME EventInv, ~At("source", "idle"),
         NEW state \in {"PENDING", "EXCLUDED", "BLOCKED", "COMPLETE"},
         jobs' = Finished(SourceJob, state), Stops("source"),
         state = "COMPLETE" =>
           NewestSeen /\ matched # {} /\ \A o \in matched : Analysis(o) \in DOMAIN jobs,
         Trouble \/ UNCHANGED trouble,
         UNCHANGED <<setup, over, outboxVars, event, calls, enabled>>
  PROVE  EventInv'
<1>1. QueueGoes(jobs', {SourceJob}, {state})
  BY FinishedGoes DEF EventInv, JobStates
<1>2. /\ run' \in [Processes -> RunRecords] /\ run'["source"].at = "idle"
      /\ run'["news"] = run["news"] /\ run'["worker"] = run["worker"]
  BY StopsGoes DEF EventInv, Processes
<1>3. SourceHolds'
  BY <1>2 DEF SourceHolds
<1>4. IsIn(SourceJob, "COMPLETE")' => state = "COMPLETE"
  BY <1>1, SourceWorks DEF IsIn, QueueGoes
<1>5. Recorded' = Recorded /\ Latest' = Latest /\ (NewestSeen' <=> NewestSeen)
  BY DEF event, Recorded, Latest, NewestSeen
<1>6. RevisionIsSeen'
  BY <1>4, <1>5 DEF RevisionIsSeen, NewestSeen
<1>7. state = "COMPLETE" => Justified(SourceJob)'
  <2>1. DOMAIN jobs \subseteq DOMAIN jobs' /\ UNCHANGED matched
    BY <1>1 DEF QueueGoes, event
  <2>2. QED
    BY <2>1 DEF Justified, SourceJob, Analysis
<1>8. Handed'
  BY <1>1, <1>5, <1>7, HandedKept DEF EventInv, event, outboxVars, calls
<1>9. seen' \subseteq Recorded /\ matched' \subseteq Originals
      /\ UNCHANGED <<members, gen>> /\ trouble' \in 0..MaxTrouble
  BY TroubleType DEF EventInv, EventTypes, event
<1>10. QED
  BY <1>1, <1>2, <1>3, <1>6, <1>8, <1>9, SourceStep

\* The pass ends without a match, or fails.
LEMMA SourceRejectInv ==
  ASSUME EventInv, NEW state \in {"PENDING", "EXCLUDED", "BLOCKED"},
         SourceReject(state)
  PROVE  EventInv'
  BY SourceEndInv DEF SourceReject, At

\* The pass ends with its matches enqueued; a generation that moved on sends
\* the job round again.
LEMMA SourceFinishInv ==
  ASSUME EventInv, SourceFinish
  PROVE  EventInv'
<1> PICK state \in {"PENDING", "COMPLETE"} :
      state = SourceOutcome /\ (state = "COMPLETE" => gen = run["source"].n)
  BY DEF SourceOutcome
<1>1. state = "COMPLETE" =>
        NewestSeen /\ matched # {} /\ \A o \in matched : Analysis(o) \in DOMAIN jobs
  BY DEF SourceFinish, EventInv, SourceHolds, At
<1>2. QED
  BY <1>1, SourceEndInv DEF SourceFinish, At

\* Texts are matched.
LEMMA MatchInv ==
  ASSUME EventInv, NEW found \in (SUBSET Originals) \ {{}}, Match(found)
  PROVE  EventInv'
<1>1. ~At("source", "idle") /\ matched' = found
      /\ UNCHANGED <<jobs, over, outboxVars, members, gen, seen, calls, enabled,
                     trouble>>
  BY DEF Match, queue, At
<1>2. run["source"] \in RunRecords
  BY DEF EventInv, RunTypes, Processes
<1>3. /\ run' \in [Processes -> RunRecords] /\ run'["source"].at = "matched"
      /\ run'["source"].n = run["source"].n /\ run'["source"].todo = found
      /\ run'["news"] = run["news"] /\ run'["worker"] = run["worker"]
  BY <1>2 DEF Match, EventInv, RunTypes, RunRecords, Processes, Steps
<1>4. Latest' = Latest /\ Recorded' = Recorded /\ (NewestSeen' <=> NewestSeen)
  BY <1>1 DEF Latest, Recorded, NewestSeen
<1>5. SourceHolds'
  <2>1. IsIn(SourceJob, "RUNNING")' \/ IsIn(SourceJob, "EXPIRED")'
    BY <1>1, SourceWorks DEF IsIn
  <2>2. run["source"].n = gen => NewestSeen
    BY DEF EventInv, SourceHolds, Match, At
  <2>3. matched' # {} /\ matched' \ run'["source"].todo = {}
    BY <1>1, <1>3
  <2>4. QED
    BY <1>1, <1>3, <1>4, <2>1, <2>2, <2>3, SourceWorks DEF SourceHolds
<1>6. RevisionIsSeen' /\ Handed'
  BY <1>1, SourceWorks DEF RevisionIsSeen, IsIn, outboxVars, calls
<1>7. QueueGoes(jobs', {}, {}) /\ trouble' \in 0..MaxTrouble
      /\ seen' \subseteq Recorded /\ matched' \subseteq Originals
  BY <1>1, SameGoes DEF EventInv, RunTypes, EventTypes
<1>8. QED
  BY <1>1, <1>3, <1>5, <1>6, <1>7, SourceStep

\* One of them is enqueued for analysis.
LEMMA EnqueueAnalysisInv ==
  ASSUME EventInv, NEW o \in Originals, EnqueueAnalysis(o)
  PROVE  EventInv'
<1> DEFINE k == <<"ANALYSIS", o>>
           ks == {k} \ DOMAIN jobs
<1>1. k \in Keys /\ k # SourceJob /\ k = Analysis(o)
  BY DEF Keys, SourceJob, Analysis
<1>2. /\ QueueGoes(jobs', ks, {"PENDING", "EXPIRED"})
      /\ DOMAIN jobs' = DOMAIN jobs \union {k}
      /\ UNCHANGED <<over, outboxVars, event, calls, enabled, trouble>>
  BY <1>1, AddedGoes DEF EnqueueAnalysis, EventInv
<1>3. run["source"] \in RunRecords
  BY DEF EventInv, RunTypes, Processes
<1>4. /\ run' \in [Processes -> RunRecords] /\ run'["source"].at = "matched"
      /\ run'["source"].n = run["source"].n
      /\ run'["source"].todo = run["source"].todo \ {o}
      /\ run'["news"] = run["news"] /\ run'["worker"] = run["worker"]
  BY <1>3 DEF EnqueueAnalysis, EventInv, RunTypes, RunRecords, Processes, At
<1>5. SourceRowKept(ks, {"PENDING", "EXPIRED"})
  BY <1>1 DEF SourceRowKept
<1>6. EventTypes' /\ RevisionIsSeen'
  BY <1>2, <1>5, EventKept DEF EventInv, QueueTypes
<1>7. SourceHolds'
  <2>1. Latest' = Latest /\ Recorded' = Recorded /\ (NewestSeen' <=> NewestSeen)
    BY <1>2 DEF Latest, Recorded, NewestSeen, event
  <2>2. SourceJob \in DOMAIN jobs /\ jobs'[SourceJob].state = jobs[SourceJob].state
    BY <1>1, <1>2, SourceWorks DEF EnqueueAnalysis, At, QueueGoes
  <2>3. IsIn(SourceJob, "RUNNING")' \/ IsIn(SourceJob, "EXPIRED")'
    BY <1>2, <2>2, SourceWorks DEF IsIn, EnqueueAnalysis, At
  <2>4. \A x \in matched' \ run'["source"].todo : Analysis(x)' \in DOMAIN jobs'
    BY <1>1, <1>2, <1>4 DEF EventInv, SourceHolds, EnqueueAnalysis, At, event, Analysis
  <2>5. QED
    BY <1>2, <1>4, <2>1, <2>3, <2>4
       DEF EventInv, SourceHolds, event, EnqueueAnalysis, At, Analysis
<1>8. Handed'
  BY <1>2, HandedKept DEF EventInv, event, outboxVars, calls, Recorded
<1>9. seen' \subseteq Recorded /\ matched' \subseteq Originals
      /\ UNCHANGED <<members, gen>> /\ trouble' \in 0..MaxTrouble
  BY <1>2 DEF EventInv, EventTypes, event, RunTypes
<1> HIDE DEF k, ks
<1>10. QED
  BY <1>2, <1>4, <1>6, <1>7, <1>8, <1>9, SourceStep
-----------------------------------------------------------------------------
(* The worker, away from the journal and the outbox *)

Others == run'["news"] = run["news"] /\ run'["source"] = run["source"]

\* A step after which the worker is rightly where it is, the journal and the
\* outbox as they were.
LEMMA WorkerQuiet ==
  ASSUME EventInv, UNCHANGED <<outboxVars, event, calls>>,
         over => over', over' \in BOOLEAN, enabled' \in BOOLEAN,
         trouble' \in 0..MaxTrouble, run' \in [Processes -> RunRecords], Others,
         NEW ks, NEW states, QueueGoes(jobs', ks, states), SourceRowKept(ks, states),
         "COMPLETE" \notin states \/ \A k \in ks : Justified(k)',
         WorkerHolds'
  PROVE  EventInv'
<1>1. RunTypes'
  BY DEF RunTypes
<1>2. WorkerSide'
  BY DEF EventInv, WorkerSide, OutboxTypes, JournalTypes, JournalAgrees,
         RowsAgree, OneHot, Hot, outboxVars, calls
<1>3. QED
  BY <1>1, <1>2, WorkerStep DEF EventInv, outboxVars, calls, Others

\* The same without a change of the queue.
LEMMA WorkerAlone ==
  ASSUME EventInv, UNCHANGED <<queue, outboxVars, event, calls>>,
         enabled' \in BOOLEAN,
         trouble' \in 0..MaxTrouble, run' \in [Processes -> RunRecords], Others,
         WorkerHolds'
  PROVE  EventInv'
<1>1. QueueGoes(jobs', {}, {}) /\ SourceRowKept({}, {})
  BY SameGoes DEF EventInv, queue, SourceRowKept
<1>2. QED
  BY <1>1, WorkerQuiet DEF EventInv, queue, QueueTypes

\* What the worker does with its limits and its configuration.
LEMMA TroubleAndEnabled ==
  ASSUME EventInv, UNCHANGED enabled, Trouble \/ UNCHANGED trouble
  PROVE  enabled' \in BOOLEAN /\ trouble' \in 0..MaxTrouble
  BY TroubleType DEF EventInv, RunTypes

\* A run begins.
LEMMA StartInv ==
  ASSUME EventInv, Start
  PROVE  EventInv'
<1> DEFINE t == {o \in Originals : Ready(Analysis(o))}
           w == [Idle EXCEPT !.at = "cycle", !.todo = t]
<1>1. w \in RunRecords /\ w.at = "cycle"
  BY IdleType DEF Idle, RunRecords, Steps
<1>2. run' = [run EXCEPT !["worker"] = w]
  BY DEF Start
<1> HIDE DEF w
<1>3. run' \in [Processes -> RunRecords] /\ run'["worker"].at = "cycle" /\ Others
  BY <1>1, <1>2 DEF EventInv, RunTypes, Processes, Others
<1>4. WorkerHolds'
  BY <1>3 DEF WorkerHolds
<1>5. QED
  BY <1>3, <1>4, TroubleAndEnabled, WorkerAlone DEF Start

\* The rows of the worker's stages are not the event's.
LEMMA WorkerKeys ==
  ASSUME NEW o \in Originals, NEW states
  PROVE  /\ Analysis(o) \in Keys /\ SourceRowKept({Analysis(o)}, states)
         /\ Delivery(o) \in Keys /\ SourceRowKept({Delivery(o)}, states)
         /\ Analysis(o)' = Analysis(o) /\ Delivery(o)' = Delivery(o)
  BY DEF Analysis, Delivery, Keys, SourceJob, SourceRowKept

\* An analysis is claimed, or was taken from the run.
LEMMA AnalysisClaimInv ==
  ASSUME EventInv, NEW o \in Originals, AnalysisClaim(o)
  PROVE  EventInv'
<1>1. run["worker"] \in RunRecords
  BY DEF EventInv, RunTypes, Processes
<1>2. enabled' \in BOOLEAN /\ trouble' \in 0..MaxTrouble
      /\ UNCHANGED <<over, outboxVars, event, calls>>
  BY TroubleAndEnabled DEF AnalysisClaim
<1>3. CASE Ready(Analysis(o))
  <2>1. /\ run' \in [Processes -> RunRecords] /\ run'["worker"].at = "analysing"
        /\ run'["worker"].item = o /\ Others
    BY <1>1, <1>3 DEF AnalysisClaim, EventInv, RunTypes, RunRecords, Processes,
                      Steps, Others
  <2>2. WorkerHolds'
    BY <2>1 DEF WorkerHolds, Item
  <2>3. QueueGoes(jobs', {Analysis(o)}, {"RUNNING"})
    BY <1>3, ClaimedGoes DEF AnalysisClaim, EventInv
  <2>4. SourceRowKept({Analysis(o)}, {"RUNNING"})
    BY WorkerKeys
  <2>5. QED
    BY <1>2, <2>1, <2>2, <2>3, <2>4, WorkerQuiet DEF EventInv, QueueTypes
<1>4. CASE ~Ready(Analysis(o))
  <2>1. /\ run' \in [Processes -> RunRecords] /\ run'["worker"].at = "cycle" /\ Others
        /\ UNCHANGED queue
    BY <1>1, <1>4 DEF AnalysisClaim, EventInv, RunTypes, RunRecords, Processes,
                      Others, At, queue
  <2>2. WorkerHolds'
    BY <2>1 DEF WorkerHolds
  <2>3. QED
    BY <1>2, <2>1, <2>2, WorkerAlone
<1>5. QED
  BY <1>3, <1>4

\* An analysis is finished; it is complete only with a valid answer.
LEMMA ConcludeInv ==
  ASSUME EventInv, Item \in Originals, NEW state \in JobStates, Conclude(state),
         state = "COMPLETE" => Item \in DOMAIN ledger /\ ledger[Item] = "VALIDATED",
         Trouble \/ UNCHANGED trouble,
         UNCHANGED <<setup, over, outboxVars, event, calls, enabled>>
  PROVE  EventInv'
<1> PICK o \in Originals : o = Item
  OBVIOUS
<1>1. run["worker"] \in RunRecords
  BY DEF EventInv, RunTypes, Processes
<1>2. /\ run' \in [Processes -> RunRecords] /\ run'["worker"].at = "cycle" /\ Others
  BY <1>1 DEF Conclude, EventInv, RunTypes, RunRecords, Processes, Steps, Others
<1>3. WorkerHolds'
  BY <1>2 DEF WorkerHolds
<1>4. QueueGoes(jobs', {Analysis(o)}, {state})
  BY FinishedGoes DEF Conclude, EventInv
<1>5. SourceRowKept({Analysis(o)}, {state})
  BY WorkerKeys
<1>6. "COMPLETE" \notin {state} \/ \A k \in {Analysis(o)} : Justified(k)'
  BY DEF Justified, Analysis, calls
<1>7. QED
  BY <1>2, <1>3, <1>4, <1>5, <1>6, TroubleAndEnabled, WorkerQuiet
     DEF EventInv, QueueTypes

\* Where the worker is, its item is a text.
LEMMA ItemType ==
  ASSUME EventInv,
         run["worker"].at \notin {"idle", "cycle", "handing", "sending"}
  PROVE  Item \in Originals
  BY DEF EventInv, WorkerHolds

\* A text is turned away, or tried again.
LEMMA AnalysisRejectInv ==
  ASSUME EventInv, NEW state \in {"PENDING", "EXCLUDED"}, AnalysisReject(state)
  PROVE  EventInv'
  BY ItemType, ConcludeInv DEF AnalysisReject, At, JobStates

\* A refused or failed analysis is blocked.
LEMMA BlockInv ==
  ASSUME EventInv, Block
  PROVE  EventInv'
  BY ItemType, ConcludeInv DEF Block, At, JobStates

\* A text the run may not pay for any more waits.
LEMMA DeferInv ==
  ASSUME EventInv, Defer
  PROVE  EventInv'
  BY ItemType, ConcludeInv DEF Defer, At, JobStates

\* An analysis with its answer handed on is complete.
LEMMA CompleteInv ==
  ASSUME EventInv, Complete
  PROVE  EventInv'
<1>1. Item \in DOMAIN ledger /\ ledger[Item] = "VALIDATED"
  BY DEF EventInv, WorkerHolds, Complete, At
<1>2. QED
  BY <1>1, ItemType, ConcludeInv DEF Complete, At, JobStates

\* The worker moves on with its item.
LEMMA MovesInv ==
  ASSUME EventInv, NEW step \in Steps, Moves("worker", step), WorkerHolds',
         UNCHANGED <<setup, queue, outboxVars, event, calls, enabled>>,
         Trouble \/ UNCHANGED trouble
  PROVE  EventInv'
<1>1. run' \in [Processes -> RunRecords] /\ Others
  BY MovesGoes DEF EventInv, Processes, Others
<1>2. QED
  BY <1>1, TroubleAndEnabled, WorkerAlone

\* An answer of the journal is used again.
LEMMA ReuseInv ==
  ASSUME EventInv, Reuse
  PROVE  EventInv'
<1>1. run'["worker"].at = "answered" /\ run'["worker"].item = run["worker"].item
  BY MovesGoes DEF Reuse, EventInv, Processes, Steps
<1>2. WorkerHolds'
  BY <1>1, ItemType DEF WorkerHolds, Reuse, Refused, At, Item, calls
<1>3. QED
  BY <1>2, MovesInv DEF Reuse, Steps

\* The report fails.
LEMMA FailReportInv ==
  ASSUME EventInv, FailReport
  PROVE  EventInv'
<1>1. run'["worker"].at = "refused" /\ run'["worker"].item = run["worker"].item
  BY MovesGoes DEF FailReport, EventInv, Processes, Steps
<1>2. WorkerHolds'
  BY <1>1, ItemType DEF WorkerHolds, FailReport, At, Item
<1>3. QED
  BY <1>2, MovesInv DEF FailReport, Steps

\* The request fails and the cycle ends.
LEMMA LoseAnswerInv ==
  ASSUME EventInv, LoseAnswer
  PROVE  EventInv'
<1>1. run["worker"] \in RunRecords
  BY DEF EventInv, RunTypes, Processes
<1>2. /\ run' \in [Processes -> RunRecords] /\ run'["worker"].at = "refused"
      /\ run'["worker"].item = run["worker"].item /\ Others
  BY <1>1 DEF LoseAnswer, EventInv, RunTypes, RunRecords, Processes, Steps, Others
<1>3. WorkerHolds'
  BY <1>2, ItemType DEF WorkerHolds, LoseAnswer, Item
<1>4. QED
  BY <1>2, <1>3, TroubleAndEnabled, WorkerAlone DEF LoseAnswer

\* The delivery of an answer is enqueued.
LEMMA HandOffInv ==
  ASSUME EventInv, HandOff
  PROVE  EventInv'
<1> PICK o \in Originals : o = Item
  BY ItemType DEF HandOff, At
<1>1. run["worker"] \in RunRecords
  BY DEF EventInv, RunTypes, Processes
<1>2. /\ run' \in [Processes -> RunRecords] /\ run'["worker"].at = "handed"
      /\ run'["worker"].item = run["worker"].item /\ Others
  BY <1>1 DEF HandOff, EventInv, RunTypes, RunRecords, Processes, Steps, Others
<1>3. WorkerHolds'
  BY <1>2, ItemType DEF EventInv, WorkerHolds, HandOff, Item, At, calls
<1>4. QueueGoes(jobs', {Delivery(o)}, {"PENDING", "EXPIRED"})
  <2>1. Delivery(o) \in Keys
    BY WorkerKeys
  <2>2. CASE enabled
    BY ZenonT(60), <2>1, <2>2, AddedGoes DEF HandOff, EventInv, QueueGoes
  <2>3. CASE ~enabled
    BY <2>3, SameGoes DEF HandOff, EventInv
  <2>4. QED
    BY <2>2, <2>3
<1>5. SourceRowKept({Delivery(o)}, {"PENDING", "EXPIRED"})
  BY WorkerKeys
<1>6. QED
  BY <1>2, <1>3, <1>4, <1>5, TroubleAndEnabled, WorkerQuiet
     DEF HandOff, EventInv, QueueTypes

\* The analyses of the run are done.
LEMMA EndCycleInv ==
  ASSUME EventInv, EndCycle
  PROVE  EventInv'
<1>1. /\ run' \in [Processes -> RunRecords]
      /\ run'["worker"].at \in {"handing", "idle"} /\ Others
  <2>1. CASE enabled
    BY <2>1, MovesGoes DEF EndCycle, EventInv, Processes, Steps, Others
  <2>2. CASE ~enabled
    BY <2>2, StopsGoes DEF EndCycle, EventInv, Processes, Others
  <2>3. QED
    BY <2>1, <2>2
<1>2. WorkerHolds'
  BY <1>1 DEF WorkerHolds
<1>3. QED
  BY <1>1, <1>2, TroubleAndEnabled, WorkerAlone DEF EndCycle

\* A delivery is enqueued after the event.
LEMMA RecoverInv ==
  ASSUME EventInv, NEW o \in Originals, Recover(o)
  PROVE  EventInv'
<1>1. Delivery(o) \in Keys /\ SourceRowKept({Delivery(o)} \ DOMAIN jobs, {"PENDING", "EXPIRED"})
  BY WorkerKeys DEF SourceRowKept
<1>2. QueueGoes(jobs', {Delivery(o)} \ DOMAIN jobs, {"PENDING", "EXPIRED"})
  BY <1>1, AddedGoes DEF Recover, EventInv
<1>3. WorkerHolds' /\ Others /\ run' \in [Processes -> RunRecords]
  BY DEF EventInv, WorkerHolds, Recover, Item, outboxVars, calls, Others, RunTypes
<1>4. QED
  BY <1>1, <1>2, <1>3, TroubleAndEnabled, WorkerQuiet DEF Recover, EventInv, QueueTypes

\* A delivery is claimed.
LEMMA DeliveryClaimInv ==
  ASSUME EventInv, NEW o \in Originals, DeliveryClaim(o)
  PROVE  EventInv'
<1>1. run["worker"] \in RunRecords
  BY DEF EventInv, RunTypes, Processes
<1>2. /\ run' \in [Processes -> RunRecords] /\ run'["worker"].at = "inserting"
      /\ run'["worker"].item = o /\ Others
  BY <1>1 DEF DeliveryClaim, EventInv, RunTypes, RunRecords, Processes, Steps, Others
<1>3. WorkerHolds'
  BY <1>2 DEF WorkerHolds, Item
<1>4. QueueGoes(jobs', {Delivery(o)}, {"RUNNING"}) /\ SourceRowKept({Delivery(o)}, {"RUNNING"})
  BY ClaimedGoes, WorkerKeys DEF DeliveryClaim, EventInv
<1>5. QED
  BY <1>2, <1>3, <1>4, TroubleAndEnabled, WorkerQuiet DEF DeliveryClaim, EventInv, QueueTypes

\* A delivery is finished; it is complete only with its row in the outbox.
LEMMA DeliveryFinishInv ==
  ASSUME EventInv, NEW state \in {"COMPLETE", "BLOCKED"}, DeliveryFinish(state)
  PROVE  EventInv'
<1> PICK o \in Originals : o = Item
  BY ItemType DEF DeliveryFinish, At
<1>1. run["worker"] \in RunRecords
  BY DEF EventInv, RunTypes, Processes
<1>2. /\ run' \in [Processes -> RunRecords]
      /\ run'["worker"].at \in {"handing", "idle"} /\ Others
  <2>1. CASE Leased(Delivery(o))
    BY <1>1, <2>1 DEF DeliveryFinish, EventInv, RunTypes, RunRecords, Processes,
                      Steps, Others
  <2>2. CASE ~Leased(Delivery(o))
    BY <2>2, StopsGoes DEF DeliveryFinish, EventInv, Processes, Others
  <2>3. QED
    BY <2>1, <2>2
<1>3. WorkerHolds'
  BY <1>2 DEF WorkerHolds
<1>4. QueueGoes(jobs', {Delivery(o)}, {state})
  BY FinishedGoes DEF DeliveryFinish, EventInv, JobStates
<1>5. SourceRowKept({Delivery(o)}, {state})
  BY WorkerKeys
<1>6. "COMPLETE" \notin {state} \/ \A k \in {Delivery(o)} : Justified(k)'
  <2>1. state = "COMPLETE" => o \in DOMAIN outbox
    BY DEF EventInv, WorkerHolds, DeliveryFinish, At
  <2>2. QED
    BY <2>1 DEF Justified, Delivery, outboxVars, DeliveryFinish
<1>7. QED
  BY <1>2, <1>3, <1>4, <1>5, <1>6, TroubleAndEnabled, WorkerQuiet
     DEF DeliveryFinish, EventInv, QueueTypes

-----------------------------------------------------------------------------
(* The surroundings *)

\* The delivery is enabled.
LEMMA EnableInv ==
  ASSUME EventInv, Enable
  PROVE  EventInv'
<1>1. WorkerHolds' /\ Others /\ run' \in [Processes -> RunRecords]
      /\ trouble' \in 0..MaxTrouble /\ enabled' \in BOOLEAN
  BY DEF EventInv, WorkerHolds, Enable, Item, outboxVars, calls, Others, RunTypes
<1>2. QED
  BY <1>1, WorkerAlone DEF Enable

\* A process dies.
LEMMA KillInv ==
  ASSUME EventInv, NEW p \in Processes, Kill(p)
  PROVE  EventInv'
<1>1. /\ run' \in [Processes -> RunRecords] /\ run'[p].at = "idle"
      /\ \A q \in Processes \ {p} : run'[q] = run[q]
  BY StopsGoes DEF Kill, EventInv
<1>2. enabled' \in BOOLEAN /\ trouble' \in 0..MaxTrouble
  BY TroubleAndEnabled DEF Kill
<1>3. QueueGoes(jobs', {}, {}) /\ SourceRowKept({}, {})
  BY SameGoes DEF EventInv, Kill, queue, SourceRowKept
<1>4. CASE p = "news"
  <2>1. NewsHolds'
    BY <1>1, <1>4 DEF NewsHolds
  <2>2. QED
    BY <1>1, <1>2, <1>3, <1>4, <2>1, NewsStep DEF Kill, queue, Processes
<1>5. CASE p = "source"
  <2>1. SourceHolds'
    BY <1>1, <1>5 DEF SourceHolds
  <2>2. RevisionIsSeen' /\ EventTypes'
    BY <1>3, EventKept DEF Kill, queue, EventInv, QueueTypes
  <2>3. Handed'
    BY <1>3, HandedKept DEF Kill, EventInv, event, outboxVars, calls, Recorded
  <2>4. seen' \subseteq Recorded /\ matched' \subseteq Originals
        /\ UNCHANGED <<members, gen>>
    BY DEF Kill, EventInv, EventTypes, event
  <2>5. QED
    BY <1>1, <1>2, <1>3, <1>5, <2>1, <2>2, <2>3, <2>4, SourceStep
       DEF Kill, queue, Processes
<1>6. CASE p = "worker"
  <2>1. WorkerHolds' /\ Others
    BY <1>1, <1>6 DEF WorkerHolds, Others, Processes
  <2>2. QED
    BY <1>1, <1>2, <2>1, WorkerAlone DEF Kill
<1>7. QED
  BY <1>4, <1>5, <1>6 DEF Processes

\* Leases lapse and rows expire.
LEMMA OutdateInv ==
  ASSUME EventInv, Outdate \/ \E k \in Keys : LeaseLapses(k)
  PROVE  EventInv'
<1>1. Outdate \/ \E k : Lapse(k)
  BY DEF LeaseLapses
<1>2. QueueGoes(jobs', DOMAIN jobs, {"EXPIRED"}) /\ over' \in BOOLEAN
      /\ (over => over')
  BY <1>1, OutdateGoes DEF EventInv
<1>3. UNCHANGED <<outboxVars, event, calls, enabled, run>>
      /\ (Trouble \/ UNCHANGED trouble)
  BY DEF Outdate, LeaseLapses
<1>4. WorkerHolds' /\ Others /\ run' \in [Processes -> RunRecords]
  BY <1>3 DEF EventInv, WorkerHolds, Item, outboxVars, calls, Others, RunTypes
<1>5. SourceRowKept(DOMAIN jobs, {"EXPIRED"})
  BY DEF SourceRowKept
<1>6. QED
  BY <1>2, <1>3, <1>4, <1>5, TroubleAndEnabled, WorkerQuiet
-----------------------------------------------------------------------------
(* The worker and the journal *)

\* A step of a paid request.
LEMMA JournalStep ==
  ASSUME EventInv, UNCHANGED <<queue, outboxVars, event, enabled>>,
         trouble' \in 0..MaxTrouble, run' \in [Processes -> RunRecords], Others,
         DOMAIN ledger \subseteq DOMAIN ledger',
         \A o \in DOMAIN ledger : ledger[o] = "VALIDATED" => ledger'[o] = "VALIDATED",
         JournalTypes', JournalAgrees', WorkerHolds'
  PROVE  EventInv'
<1>1. RunTypes'
  BY DEF EventInv, RunTypes
<1>2. WorkerSide'
  BY DEF EventInv, WorkerSide, OutboxTypes, RowsAgree, OneHot, Hot, outboxVars
<1>3. QueueGoes(jobs', {}, {}) /\ SourceRowKept({}, {})
  BY SameGoes DEF EventInv, queue, SourceRowKept
<1>4. QED
  BY <1>1, <1>2, <1>3, WorkerStep DEF EventInv, QueueTypes, outboxVars, queue, Others

\* A request is entered in the journal, within the budget, before it is made.
LEMMA ReserveInv ==
  ASSUME EventInv, Reserve
  PROVE  EventInv'
<1> PICK i \in Originals : i = Item
  BY ItemType DEF Reserve, At
<1>1. run["worker"] \in RunRecords
  BY DEF EventInv, RunTypes, Processes
<1>2. /\ run' \in [Processes -> RunRecords] /\ run'["worker"].at = "reserved"
      /\ run'["worker"].item = i /\ Others
  BY <1>1 DEF Reserve, EventInv, RunTypes, RunRecords, Processes, Steps, Others, Item
<1>3. /\ DOMAIN ledger' = DOMAIN ledger \union {i} /\ i \notin DOMAIN ledger
      /\ ledger'[i] = "RESERVED"
      /\ \A o \in DOMAIN ledger : ledger'[o] = ledger[o]
      /\ ledger' \in [DOMAIN ledger' -> LedgerStates]
      /\ paid' = paid /\ paid[i] = 0
  BY DEF Reserve, EventInv, JournalTypes, JournalAgrees, LedgerStates
<1>4. IsFiniteSet(DOMAIN ledger') /\ Cardinality(DOMAIN ledger') <= Budget
  <2>1. Cardinality(DOMAIN ledger) \in Nat /\ Budget \in Nat
    BY FS_CardinalityType, EventAssumption DEF EventInv, JournalTypes
  <2>2. ~(Cardinality(DOMAIN ledger) >= Budget)
    BY <1>3 DEF Reserve, Refused
  <2>3. IsFiniteSet(DOMAIN ledger \union {i})
        /\ Cardinality(DOMAIN ledger \union {i}) = Cardinality(DOMAIN ledger) + 1
    BY <1>3, FS_AddElement DEF EventInv, JournalTypes
  <2>4. QED
    BY <1>3, <2>1, <2>2, <2>3
<1>5. JournalTypes'
  BY <1>3, <1>4 DEF EventInv, JournalTypes
<1>6. JournalAgrees'
  BY <1>3 DEF EventInv, JournalTypes, JournalAgrees
<1>7. WorkerHolds'
  BY <1>2, <1>3 DEF WorkerHolds, Item
<1>8. trouble' \in 0..MaxTrouble
  BY TroubleAndEnabled DEF Reserve
<1>9. QED
  BY <1>2, <1>3, <1>5, <1>6, <1>7, <1>8, JournalStep DEF Reserve

\* The request is made, for the first time.
LEMMA AskInv ==
  ASSUME EventInv, Ask
  PROVE  EventInv'
<1> PICK i \in Originals : i = Item
  BY ItemType DEF Ask, At
<1>1. /\ run' \in [Processes -> RunRecords] /\ run'["worker"].at = "asked"
      /\ run'["worker"].item = i /\ Others
  BY MovesGoes DEF Ask, EventInv, Processes, Steps, Others, Item
<1>2. i \in DOMAIN ledger /\ ledger[i] = "RESERVED" /\ paid[i] = 0
  BY DEF Ask, EventInv, WorkerHolds, At
<1>3. /\ ledger' = ledger /\ paid' \in [Originals -> Nat] /\ paid'[i] = 1
      /\ \A o \in Originals \ {i} : paid'[o] = paid[o]
  BY <1>2 DEF Ask, EventInv, JournalTypes
<1>4. JournalTypes' /\ JournalAgrees'
  BY <1>2, <1>3 DEF EventInv, JournalTypes, JournalAgrees
<1>5. WorkerHolds'
  BY <1>1, <1>2, <1>3 DEF WorkerHolds, Item
<1>6. trouble' \in 0..MaxTrouble
  BY TroubleAndEnabled DEF Ask
<1>7. QED
  BY <1>1, <1>3, <1>4, <1>5, <1>6, JournalStep DEF Ask

\* The journal records what became of the request.
LEMMA FinishCallInv ==
  ASSUME EventInv, NEW status \in LedgerStates \ {"RESERVED"}, FinishCall(status)
  PROVE  EventInv'
<1> PICK i \in Originals : i = Item
  BY ItemType DEF FinishCall, At
<1> DEFINE step == IF status = "VALIDATED" THEN "answered" ELSE "refused"
<1>1. /\ run' \in [Processes -> RunRecords] /\ run'["worker"].at = step
      /\ run'["worker"].item = i /\ Others
  BY MovesGoes DEF FinishCall, EventInv, Processes, Steps, Others, Item
<1>2. i \in DOMAIN ledger /\ ledger[i] = "RESERVED"
      /\ (status = "VALIDATED" => paid[i] = 1)
  BY DEF FinishCall, EventInv, WorkerHolds, At
<1>3. /\ DOMAIN ledger' = DOMAIN ledger /\ ledger'[i] = status
      /\ \A o \in DOMAIN ledger \ {i} : ledger'[o] = ledger[o]
      /\ ledger' \in [DOMAIN ledger' -> LedgerStates] /\ paid' = paid
  BY <1>2 DEF FinishCall, EventInv, JournalTypes
<1>4. JournalTypes' /\ JournalAgrees'
  BY <1>2, <1>3 DEF EventInv, JournalTypes, JournalAgrees
<1>5. WorkerHolds'
  BY <1>1, <1>2, <1>3 DEF WorkerHolds, Item
<1>6. trouble' \in 0..MaxTrouble
  BY TroubleAndEnabled DEF FinishCall
<1>7. \A o \in DOMAIN ledger : ledger[o] = "VALIDATED" => ledger'[o] = "VALIDATED"
  BY <1>2, <1>3
<1>8. QED
  BY <1>1, <1>3, <1>4, <1>5, <1>6, <1>7, JournalStep DEF FinishCall

-----------------------------------------------------------------------------
(* The worker and the outbox *)

\* A step of the outbox.
LEMMA OutboxStep ==
  ASSUME EventInv, UNCHANGED <<queue, calls, event, enabled>>,
         trouble' \in 0..MaxTrouble, run' \in [Processes -> RunRecords], Others,
         DOMAIN outbox \subseteq DOMAIN outbox',
         OutboxTypes', RowsAgree', OneHot', WorkerHolds'
  PROVE  EventInv'
<1>1. RunTypes'
  BY DEF EventInv, RunTypes
<1>2. WorkerSide'
  BY DEF EventInv, WorkerSide, JournalTypes, JournalAgrees, calls
<1>3. QueueGoes(jobs', {}, {}) /\ SourceRowKept({}, {})
  BY SameGoes DEF EventInv, queue, SourceRowKept
<1>4. QED
  BY <1>1, <1>2, <1>3, WorkerStep DEF EventInv, QueueTypes, calls, queue, Others

\* A new row of the outbox.
LEMMA RowType == Row \in OutboxRecords /\ Row.state = "PENDING" /\ Row.tries <= MaxRetries
<1>1. MaxRetries \in Nat
  BY EventAssumption
<1>2. QED
  BY <1>1 DEF Row, OutboxRecords, RowStates, Ages

\* Inserting rows disturbs none that is there.
LEMMA InsertedGoes ==
  ASSUME EventInv, NEW ms \in SUBSET Originals, outbox' = Inserted(ms),
         UNCHANGED accepted
  PROVE  /\ DOMAIN outbox' = DOMAIN outbox \union ms
         /\ OutboxTypes' /\ RowsAgree' /\ OneHot'
<1>1. /\ DOMAIN outbox' = DOMAIN outbox \union ms
      /\ \A m \in DOMAIN outbox : outbox'[m] = outbox[m]
      /\ \A m \in ms \ DOMAIN outbox : outbox'[m] = Row
  BY DEF Inserted
<1>2. OutboxTypes'
  BY <1>1, RowType DEF Inserted, EventInv, OutboxTypes
<1>3. RowsAgree'
  BY <1>1, RowType DEF EventInv, RowsAgree, OutboxTypes
<1>4. OneHot'
  <2>1. \A m \in DOMAIN outbox' : Hot(m)' => m \in DOMAIN outbox /\ Hot(m)
    BY <1>1, RowType DEF Hot
  <2>2. QED
    BY <2>1 DEF EventInv, OneHot
<1>5. QED
  BY <1>1, <1>2, <1>3, <1>4

\* The row of a delivery is inserted.
LEMMA InsertInv ==
  ASSUME EventInv, Insert
  PROVE  EventInv'
<1> PICK i \in Originals : i = Item
  BY ItemType DEF Insert, At
<1>1. /\ run' \in [Processes -> RunRecords] /\ run'["worker"].at = "inserted"
      /\ run'["worker"].item = i /\ Others
  BY MovesGoes DEF Insert, EventInv, Processes, Steps, Others, Item
<1>2. /\ DOMAIN outbox' = DOMAIN outbox \union {i}
      /\ OutboxTypes' /\ RowsAgree' /\ OneHot'
  BY InsertedGoes DEF Insert
<1>3. WorkerHolds'
  BY <1>1, <1>2 DEF WorkerHolds, Item
<1>4. QED
  BY <1>1, <1>2, <1>3, TroubleAndEnabled, OutboxStep DEF Insert

\* The reports of the run are inserted.
LEMMA InsertReportsInv ==
  ASSUME EventInv, NEW loaded \in SUBSET run["worker"].reports, InsertReports(loaded)
  PROVE  EventInv'
<1>1. [Idle EXCEPT !.at = "sending"] \in RunRecords
  BY IdleType DEF RunRecords, Steps
<1>2. /\ run' \in [Processes -> RunRecords] /\ run'["worker"].at = "sending" /\ Others
  BY <1>1 DEF InsertReports, EventInv, RunTypes, Processes, Others, Idle
<1>3. loaded \subseteq Originals
  BY DEF EventInv, RunTypes, RunRecords, Processes
<1>4. DOMAIN outbox \subseteq DOMAIN outbox' /\ OutboxTypes' /\ RowsAgree' /\ OneHot'
  BY <1>3, InsertedGoes DEF InsertReports
<1>5. WorkerHolds'
  BY <1>2 DEF WorkerHolds
<1>6. QED
  BY <1>2, <1>4, <1>5, TroubleAndEnabled, OutboxStep DEF InsertReports

\* What a step may do to the rows: none is lost or becomes young again, and
\* unless a row is in hand ("is") it only expires while it waits, or comes
\* to be in doubt.
RowsGo(is) ==
  /\ DOMAIN outbox' = DOMAIN outbox
  /\ outbox' \in [DOMAIN outbox -> OutboxRecords]
  /\ \A m \in DOMAIN outbox \ is :
       /\ outbox'[m].tries = outbox[m].tries
       /\ outbox[m].age <= outbox'[m].age
       /\ \/ outbox'[m].state = outbox[m].state
          \/ outbox[m].state \in {"PENDING", "RETRY"} /\ outbox'[m].state = "EXPIRED"
          \/ outbox[m].state = "SENDING" /\ outbox'[m].state = "UNKNOWN"

\* The sweep at the start of a delivery.
LEMMA SweptGoes ==
  ASSUME OutboxTypes, NEW old \in SUBSET Waiting
  PROVE  /\ Swept(old) \in [DOMAIN outbox -> OutboxRecords]
         /\ \A m \in DOMAIN outbox :
              /\ Swept(old)[m].tries = outbox[m].tries
              /\ Swept(old)[m].age = outbox[m].age
              /\ \/ m \notin old /\ Swept(old)[m].state = outbox[m].state
                 \/ m \in old /\ Swept(old)[m].state = "EXPIRED"
                 \/ /\ outbox[m].state = "SENDING"
                    /\ Swept(old)[m].state = "UNKNOWN"
<1>1. \A m \in DOMAIN outbox : outbox[m] \in OutboxRecords
  BY DEF OutboxTypes
<1>2. ASSUME NEW m \in DOMAIN outbox
      PROVE  /\ Swept(old)[m] \in OutboxRecords
             /\ Swept(old)[m].tries = outbox[m].tries
             /\ Swept(old)[m].age = outbox[m].age
             /\ \/ m \notin old /\ Swept(old)[m].state = outbox[m].state
                \/ m \in old /\ Swept(old)[m].state = "EXPIRED"
                \/ outbox[m].state = "SENDING" /\ Swept(old)[m].state = "UNKNOWN"
  BY <1>1 DEF Swept, Interrupted, OutboxRecords, RowStates
<1>3. QED
  BY <1>2 DEF Swept

\* What the rows left alone keep, and the one in hand must.
LEMMA RowsKept ==
  ASSUME EventInv, NEW is \in SUBSET DOMAIN outbox, \A i, j \in is : i = j,
         RowsGo(is),
         UNCHANGED accepted \/ \E i \in is : accepted' = [accepted EXCEPT ![i] = 1],
         \A i \in is :
           /\ outbox'[i].state \in {"PENDING", "RETRY"} => outbox'[i].tries <= MaxRetries
           /\ accepted'[i] = 1 => outbox'[i].state \in {"SENDING", "SENT", "UNKNOWN"}
           /\ outbox'[i].state = "SENT" => accepted'[i] = 1
           /\ Hot(i)' => Hot(i) \/ \A p \in DOMAIN outbox \ {i} : ~Hot(p)
  PROVE  OutboxTypes' /\ RowsAgree' /\ OneHot'
<1>1. \A m \in DOMAIN outbox : outbox[m] \in OutboxRecords /\ outbox'[m] \in OutboxRecords
  BY DEF EventInv, OutboxTypes, RowsGo
<1>2. OutboxTypes'
  <2>1. \A m \in DOMAIN outbox :
          outbox'[m].state \in {"PENDING", "RETRY"} => outbox'[m].tries <= MaxRetries
    BY DEF EventInv, OutboxTypes, RowsGo
  <2>2. accepted' \in [Originals -> Nat]
    BY DEF EventInv, OutboxTypes
  <2>3. QED
    BY <2>1, <2>2 DEF EventInv, OutboxTypes, RowsGo
<1>3. RowsAgree'
  <2>1. \A m \in Originals : accepted'[m] = accepted[m] \/ (m \in is /\ accepted'[m] = 1)
    BY DEF EventInv, OutboxTypes
  <2>2. QED
    BY <2>1 DEF EventInv, OutboxTypes, RowsAgree, RowsGo
<1>4. OneHot'
  <2>1. \A m \in DOMAIN outbox \ is : Hot(m)' => Hot(m)
    BY <1>1 DEF RowsGo, Hot, OutboxRecords, Ages
  <2>2. QED
    BY <2>1 DEF EventInv, OneHot, RowsGo
<1>5. QED
  BY <1>2, <1>3, <1>4

\* A row is taken: nothing else may stand in the channel for less than an hour.
LEMMA SendInv ==
  ASSUME EventInv, NEW m \in Waiting, NEW old \in SUBSET Waiting,
         NEW state \in {"SENDING", "HELD"}, Send(m, old, state)
  PROVE  EventInv'
<1> DEFINE row == IF state = "HELD" THEN [outbox[m] EXCEPT !.state = "HELD"]
                  ELSE [state |-> "SENDING", age |-> 0, tries |-> outbox[m].tries + 1]
<1>1. /\ m \in DOMAIN outbox /\ m \in Originals /\ m \notin old
      /\ outbox[m] \in OutboxRecords /\ outbox[m].state \in {"PENDING", "RETRY"}
      /\ outbox[m].tries <= MaxRetries
      /\ accepted[m] = 0
  BY DEF EventInv, OutboxTypes, Waiting, Send, Take, RowsAgree
<1>2. Swept(old)[m] = outbox[m]
  BY <1>1 DEF Swept, Interrupted
<1>3. outbox' = [Swept(old) EXCEPT ![m] = row] /\ UNCHANGED accepted
  BY <1>2 DEF Send, Take
<1>4. /\ row \in OutboxRecords /\ row.state = state
      /\ state = "HELD" => row.age = outbox[m].age
  <2>1. CASE state = "HELD"
    BY <1>1, <2>1 DEF OutboxRecords, RowStates
  <2>2. CASE state # "HELD"
    <3>1. MaxRetries \in Nat /\ outbox[m].tries \in Nat
      BY <1>1, EventAssumption DEF OutboxRecords
    <3>2. outbox[m].tries + 1 \in 0..(MaxRetries + 1)
      BY <1>1, <3>1
    <3>3. QED
      BY <2>2, <3>2 DEF OutboxRecords, RowStates, Ages
  <2>3. QED
    BY <2>1, <2>2
<1> HIDE DEF row
<1>5. /\ DOMAIN outbox' = DOMAIN outbox /\ outbox'[m] = row
      /\ outbox' \in [DOMAIN outbox -> OutboxRecords]
      /\ \A p \in DOMAIN outbox \ {m} : outbox'[p] = Swept(old)[p]
  BY <1>1, <1>3, <1>4, SweptGoes DEF EventInv
<1>6. RowsGo({m})
  <2>1. \A p \in DOMAIN outbox \ {m} :
          /\ outbox'[p].tries = outbox[p].tries /\ outbox'[p].age = outbox[p].age
          /\ outbox[p].age \in Nat
          /\ \/ outbox'[p].state = outbox[p].state
             \/ outbox[p].state \in {"PENDING", "RETRY"} /\ outbox'[p].state = "EXPIRED"
             \/ outbox[p].state = "SENDING" /\ outbox'[p].state = "UNKNOWN"
    BY <1>5, SweptGoes DEF EventInv, Waiting, OutboxTypes, OutboxRecords, Ages
  <2>2. QED
    BY <1>5, <2>1 DEF RowsGo
<1>7. \A p \in DOMAIN outbox \ {m} : ~Hot(p)
  BY DEF Send, Take, Cooling, Hot
<1>8. OutboxTypes' /\ RowsAgree' /\ OneHot'
  <2>1. accepted'[m] = 0 /\ outbox'[m].state = state
    BY <1>1, <1>3, <1>4, <1>5
  <2>2. \A i \in {m} :
          /\ outbox'[i].state \in {"PENDING", "RETRY"} => outbox'[i].tries <= MaxRetries
          /\ accepted'[i] = 1 => outbox'[i].state \in {"SENDING", "SENT", "UNKNOWN"}
          /\ outbox'[i].state = "SENT" => accepted'[i] = 1
          /\ Hot(i)' => Hot(i) \/ \A p \in DOMAIN outbox \ {i} : ~Hot(p)
    BY <1>7, <2>1
  <2>3. QED
    BY <1>1, <1>3, <1>6, <2>2, RowsKept
<1>9. run["worker"] \in RunRecords
  BY DEF EventInv, RunTypes, Processes
<1>10. /\ run' \in [Processes -> RunRecords] /\ Others
       /\ IF state = "HELD" THEN run'["worker"].at = "sending"
          ELSE run'["worker"].at = "sent" /\ run'["worker"].item = m
  BY <1>1, <1>9 DEF Send, EventInv, RunTypes, RunRecords, Processes, Steps, Others
<1>11. WorkerHolds'
  BY <1>1, <1>3, <1>4, <1>5, <1>10 DEF WorkerHolds, Item
<1>12. QED
  BY <1>5, <1>8, <1>10, <1>11, TroubleAndEnabled, OutboxStep DEF Send

\* The run ends: rows expire or come to be in doubt.
LEMMA EndRunInv ==
  ASSUME EventInv, NEW old \in SUBSET Waiting, EndRun(old)
  PROVE  EventInv'
<1>1. /\ run' \in [Processes -> RunRecords] /\ run'["worker"].at = "idle" /\ Others
  BY StopsGoes DEF EndRun, EventInv, Processes, Others
<1>2. WorkerHolds'
  BY <1>1 DEF WorkerHolds
<1>3. RowsGo({}) /\ UNCHANGED accepted
  <2>1. CASE UNCHANGED outboxVars
    <3>1. \A m \in DOMAIN outbox : outbox[m].age \in Nat
      BY DEF EventInv, OutboxTypes, OutboxRecords, Ages
    <3>2. QED
      BY <2>1, <3>1 DEF RowsGo, EventInv, OutboxTypes, outboxVars
  <2>2. CASE TakeNone(old)
    <3>1. \A p \in DOMAIN outbox :
          /\ Swept(old)[p].tries = outbox[p].tries /\ Swept(old)[p].age = outbox[p].age
          /\ outbox[p].age \in Nat
          /\ \/ Swept(old)[p].state = outbox[p].state
             \/ outbox[p].state \in {"PENDING", "RETRY"} /\ Swept(old)[p].state = "EXPIRED"
             \/ outbox[p].state = "SENDING" /\ Swept(old)[p].state = "UNKNOWN"
      BY SweptGoes DEF EventInv, Waiting, OutboxTypes, OutboxRecords, Ages
    <3>2. Swept(old) \in [DOMAIN outbox -> OutboxRecords]
      BY SweptGoes DEF EventInv
    <3>3. QED
      BY <2>2, <3>1, <3>2 DEF RowsGo, TakeNone
  <2>3. QED
    BY <2>1, <2>2 DEF EndRun
<1>4. OutboxTypes' /\ RowsAgree' /\ OneHot'
  BY <1>3, RowsKept
<1>5. QED
  BY <1>1, <1>2, <1>3, <1>4, TroubleAndEnabled, OutboxStep DEF EndRun, RowsGo

\* The message stands in the channel, once.
LEMMA ShownInv ==
  ASSUME EventInv, Shown
  PROVE  EventInv'
<1> PICK i \in Originals : i = Item
  BY ItemType DEF Shown, At
<1>1. i \in DOMAIN outbox /\ outbox[i].state = "SENDING" /\ accepted[i] = 0
  BY DEF Shown, EventInv, WorkerHolds, At
<1>2. accepted' = [accepted EXCEPT ![i] = 1] /\ UNCHANGED outbox
  BY <1>1 DEF Shown, Accept
<1>3. /\ run' \in [Processes -> RunRecords] /\ run'["worker"].at = "shown"
      /\ run'["worker"].item = i /\ Others
  BY MovesGoes DEF Shown, EventInv, Processes, Steps, Others, Item
<1>4. OutboxTypes' /\ OneHot'
  BY <1>2 DEF EventInv, OutboxTypes, OneHot, Hot
<1>5. RowsAgree'
  BY <1>1, <1>2 DEF EventInv, OutboxTypes, RowsAgree
<1>6. WorkerHolds'
  BY <1>1, <1>2, <1>3 DEF WorkerHolds, Item, EventInv, OutboxTypes
<1>7. QED
  BY <1>2, <1>3, <1>4, <1>5, <1>6, TroubleAndEnabled, OutboxStep DEF Shown

\* The answer is recorded.
LEMMA AnsweredInv ==
  ASSUME EventInv, NEW state \in RowStates, Answered(state)
  PROVE  EventInv'
<1> PICK i \in Originals : i = Item
  BY ItemType DEF Answered, At
<1>1. /\ i \in DOMAIN outbox /\ outbox[i].state = "SENDING"
      /\ outbox[i] \in OutboxRecords
      /\ accepted[i] = IF At("worker", "shown") THEN 1 ELSE 0
  BY DEF Answered, EventInv, WorkerHolds, At, OutboxTypes
<1>2. outbox' = [outbox EXCEPT ![i].state = state] /\ UNCHANGED accepted
  BY <1>1 DEF Answered, Answer
<1>3. /\ state \in {"SENT", "UNKNOWN", "HELD", "FAILED", "RETRY"}
      /\ state = "RETRY" => outbox[i].tries <= MaxRetries
      /\ accepted[i] = 1 => state \in {"SENT", "UNKNOWN"}
      /\ state = "SENT" => accepted[i] = 1
  BY <1>1 DEF Answered, Answers
<1>4. /\ DOMAIN outbox' = DOMAIN outbox
      /\ outbox' \in [DOMAIN outbox -> OutboxRecords]
      /\ outbox'[i].state = state /\ outbox'[i].tries = outbox[i].tries
      /\ outbox'[i].age = outbox[i].age
      /\ \A m \in DOMAIN outbox \ {i} : outbox'[m] = outbox[m]
  BY <1>1, <1>2 DEF EventInv, OutboxTypes, OutboxRecords
<1>5. RowsGo({i})
  BY <1>4 DEF RowsGo, EventInv, OutboxTypes, OutboxRecords, Ages
<1>6. \A j \in {i} :
        /\ outbox'[j].state \in {"PENDING", "RETRY"} => outbox'[j].tries <= MaxRetries
        /\ accepted'[j] = 1 => outbox'[j].state \in {"SENDING", "SENT", "UNKNOWN"}
        /\ outbox'[j].state = "SENT" => accepted'[j] = 1
        /\ Hot(j)' => Hot(j) \/ \A p \in DOMAIN outbox \ {j} : ~Hot(p)
  BY <1>1, <1>2, <1>3, <1>4 DEF Hot
<1>7. OutboxTypes' /\ RowsAgree' /\ OneHot'
  BY <1>1, <1>2, <1>5, <1>6, RowsKept
<1>8. run["worker"] \in RunRecords
  BY DEF EventInv, RunTypes, Processes
<1>9. /\ run' \in [Processes -> RunRecords] /\ run'["worker"].at = "sending" /\ Others
  BY <1>8 DEF Answered, EventInv, RunTypes, RunRecords, Processes, Steps, Others
<1>10. WorkerHolds'
  BY <1>9 DEF WorkerHolds
<1>11. QED
  BY <1>4, <1>7, <1>9, <1>10, TroubleAndEnabled, OutboxStep DEF Answered

\* Time passes.
LEMMA AgeInv ==
  ASSUME EventInv, NEW m \in Originals, Age(m)
  PROVE  EventInv'
<1>1. /\ m \in DOMAIN outbox /\ outbox[m].age < 2 /\ outbox[m] \in OutboxRecords
      /\ outbox' = [outbox EXCEPT ![m].age = @ + 1] /\ UNCHANGED accepted
  BY DEF Age, GetOlder, EventInv, OutboxTypes
<1>2. outbox[m].age + 1 \in Ages
  BY <1>1 DEF OutboxRecords, Ages
<1>3. /\ DOMAIN outbox' = DOMAIN outbox
      /\ outbox' \in [DOMAIN outbox -> OutboxRecords]
      /\ \A p \in DOMAIN outbox :
           outbox'[p].state = outbox[p].state /\ outbox'[p].tries = outbox[p].tries
      /\ outbox'[m].age = outbox[m].age + 1
      /\ \A p \in DOMAIN outbox \ {m} : outbox'[p].age = outbox[p].age
  BY <1>1, <1>2 DEF EventInv, OutboxTypes, OutboxRecords
<1>4. RowsGo({})
  BY <1>3 DEF RowsGo, EventInv, OutboxTypes, OutboxRecords, Ages
<1>5. OutboxTypes' /\ RowsAgree' /\ OneHot'
  BY <1>1, <1>4, RowsKept
<1>6. WorkerHolds' /\ Others /\ run' \in [Processes -> RunRecords]
  BY <1>1, <1>3 DEF EventInv, WorkerHolds, Age, Item, calls, Others, RunTypes
<1>7. QED
  BY <1>3, <1>5, <1>6, TroubleAndEnabled, OutboxStep DEF Age
-----------------------------------------------------------------------------
(* The invariant *)

\* It holds at the start.
LEMMA InitInv == Init => EventInv
<1> SUFFICES ASSUME Init
             PROVE  EventInv
  OBVIOUS
<1>1. QueueTypes /\ OutboxTypes /\ EventTypes
  <2>1. QueueTypes
    <3>1. jobs = << >> /\ over = FALSE
      BY DEF Init, QueueInit
    <3>2. DOMAIN jobs \subseteq Keys /\ jobs \in [DOMAIN jobs -> JobRecords]
      BY <3>1
    <3>3. QED
      BY <3>1, <3>2, Zenon DEF QueueTypes
  <2>2. OutboxTypes
    BY DEF Init, OutboxTypes
  <2>3. EventTypes
    BY DEF Init, EventTypes, IsInjective
  <2>4. QED
    BY <2>1, <2>2, <2>3
<1>2. JournalTypes
  BY FS_EmptySet, EventAssumption DEF Init, JournalTypes
<1>3. RunTypes
  BY IdleType DEF Init, RunTypes
<1>4. \A p \in Processes : run[p].at = "idle"
  BY IdleType DEF Init
<1>5. NewsHolds /\ SourceHolds /\ WorkerHolds
  BY <1>4 DEF NewsHolds, SourceHolds, WorkerHolds, Processes
<1>6. Handed /\ RevisionIsSeen /\ JournalAgrees /\ RowsAgree /\ OneHot
  BY DEF Init, QueueInit, Handed, RevisionIsSeen, IsIn, JournalAgrees, RowsAgree, OneHot
<1>7. QED
  BY <1>1, <1>2, <1>3, <1>5, <1>6 DEF EventInv

\* A step in which nothing happens.
LEMMA StutterInv ==
  ASSUME EventInv, UNCHANGED vars
  PROVE  EventInv'
<1>1. WorkerHolds' /\ Others /\ run' \in [Processes -> RunRecords]
      /\ trouble' \in 0..MaxTrouble /\ enabled' \in BOOLEAN
  BY DEF vars, EventInv, WorkerHolds, Item, outboxVars, calls, Others, RunTypes
<1>2. QED
  BY <1>1, WorkerAlone DEF vars

\* Every step of the news lane keeps it.
LEMMA NewsInv ==
  ASSUME EventInv, News
  PROVE  EventInv'
  BY NewsClaimInv, NewsRejectInv, RecordMemberInv, EnqueueSourceInv, NewsFinishInv
     DEF News

\* Every step of the source lane keeps it.
LEMMA SourceInv ==
  ASSUME EventInv, Source
  PROVE  EventInv'
  BY SourceClaimInv, ReadMembersInv, SourceRejectInv, MatchInv, EnqueueAnalysisInv,
     SourceFinishInv
     DEF Source

\* Every step of the worker's cycle keeps it.
LEMMA CycleInv ==
  ASSUME EventInv, Cycle
  PROVE  EventInv'
  BY StartInv, AnalysisClaimInv, AnalysisRejectInv, BlockInv, ReuseInv, DeferInv,
     ReserveInv, AskInv, FinishCallInv, LoseAnswerInv, FailReportInv, HandOffInv,
     CompleteInv
     DEF Cycle

\* Every step of the worker's delivery keeps it.
LEMMA NotifyInv ==
  ASSUME EventInv, Notify
  PROVE  EventInv'
  BY EndCycleInv, RecoverInv, DeliveryClaimInv, InsertInv, DeliveryFinishInv,
     InsertReportsInv, SendInv, EndRunInv, ShownInv, AnsweredInv
     DEF Notify

\* The invariant of the pipeline.
THEOREM EventInvariant == Spec => []EventInv
<1>1. EventInv /\ [Next]_vars => EventInv'
  BY DiscoverInv, NewsInv, SourceInv, CycleInv, NotifyInv, EnableInv, KillInv,
     OutdateInv, AgeInv, StutterInv
     DEF Next, Worker
<1>2. QED
  BY InitInv, <1>1, PTL DEF Spec

\* Revisions recorded once each are no more than there are.
LEMMA MembersAreFew ==
  ASSUME EventTypes
  PROVE  Len(members) <= Cardinality(Revisions) /\ Cardinality(Revisions) \in Nat
<1>1. Versions \in Nat /\ IsFiniteSet(Documents)
  BY EventAssumption
<1>2. IsFiniteSet(1..Versions)
  BY <1>1, FS_Interval
<1>3. IsFiniteSet(Revisions)
  BY <1>1, <1>2, FS_Product DEF Revisions
<1>4. Len(members) \in Nat /\ members \in Injection(1..Len(members), Revisions)
  BY DEF EventTypes, Injection, IsInjective
<1>5. Cardinality(1..Len(members)) = Len(members)
  <2>1. Cardinality(1..Len(members)) = IF 1 > Len(members) THEN 0 ELSE Len(members) - 1 + 1
    BY <1>4, FS_Interval
  <2>2. QED
    BY <1>4, <2>1
<1>6. QED
  BY <1>3, <1>4, <1>5, FS_Injection, FS_CardinalityType

\* Every variable has its type: the queue and the outbox their rows, the
\* generation no more than the recorded revisions, the journal no more
\* requests than the budget.
THEOREM EventTyping == Spec => []EventTypeOK
<1>1. EventInv => EventTypeOK
  <2> SUFFICES ASSUME EventInv
               PROVE  EventTypeOK
    OBVIOUS
  <2>1. gen \in 0..Cardinality(Revisions)
    BY MembersAreFew DEF EventInv, EventTypes
  <2>2. Recorded \subseteq Revisions /\ IsInjective(members)
        /\ seen \subseteq Recorded /\ matched \subseteq Originals
    BY DEF EventInv, EventTypes, Recorded, Range
  <2>3. DOMAIN ledger \subseteq Originals /\ Cardinality(DOMAIN ledger) <= Budget
        /\ Range(ledger) \subseteq LedgerStates
    BY DEF EventInv, JournalTypes, Range
  <2>4. QED
    BY <2>1, <2>2, <2>3
       DEF EventTypeOK, EventInv, QueueTypes, JobRecords, OutboxTypes,
           OutboxRecords, RunTypes
<1>2. QED
  BY <1>1, EventInvariant, PTL

\* No completed stage has dropped its result and no revision recorded while
\* the sources were fetched is overlooked, whatever is killed when.
THEOREM NothingIsDropped == Spec => []NothingFallsThrough
<1>1. EventInv => NothingFallsThrough
  BY HandedSame DEF EventInv, NothingFallsThrough
<1>2. QED
  BY <1>1, EventInvariant, PTL

\* Of the messages in the channel at most one is younger than an hour.
THEOREM CooldownIsKept == Spec => []CommentaryCooldown
<1>1. EventInv => CommentaryCooldown
  <2> SUFFICES ASSUME EventInv
               PROVE  CommentaryCooldown
    OBVIOUS
  <2> DEFINE young == {m \in DOMAIN outbox : accepted[m] > 0 /\ outbox[m].age < 2}
  <2>1. \A m \in young : Hot(m)
    BY DEF EventInv, OutboxTypes, RowsAgree, Hot
  <2>2. \A m, p \in young : m = p
    BY <2>1 DEF EventInv, OneHot
  <2>3. young = {} \/ \E m : young = {m}
    BY <2>2
  <2> HIDE DEF young
  <2>4. Cardinality(young) \in {0, 1}
    BY <2>3, FS_EmptySet, FS_Singleton, Zenon
  <2>5. Cardinality(young) <= 1
    BY <2>4
  <2>6. QED
    BY <2>5 DEF CommentaryCooldown, young
<1>2. QED
  BY <1>1, EventInvariant, PTL
-----------------------------------------------------------------------------
(* At most once *)

\* Nothing happens outside, and what the journal and the outbox say changes
\* only where it was open.
Records ==
  /\ UNCHANGED <<paid, accepted>>
  /\ DOMAIN ledger \subseteq DOMAIN ledger' /\ DOMAIN outbox \subseteq DOMAIN outbox'
  /\ \A o \in DOMAIN ledger : ledger'[o] = ledger[o] \/ ledger[o] = "RESERVED"
  /\ \A m \in DOMAIN outbox :
       \/ outbox'[m].state = outbox[m].state
       \/ outbox[m].state \in {"PENDING", "RETRY", "SENDING"}

\* A request nobody paid for is paid for; a message not shown is shown.
Pays(o) ==
  /\ UNCHANGED <<ledger, outbox, accepted>>
  /\ paid[o] = 0 /\ CallOutcome(o) = "undecided"
  /\ paid' = [paid EXCEPT ![o] = 1]

Shows(m) ==
  /\ UNCHANGED <<ledger, outbox, paid>>
  /\ accepted[m] = 0 /\ RowOutcome(m) = "undecided"
  /\ accepted' = [accepted EXCEPT ![m] = 1]

\* Most steps touch neither table.
LEMMA QuietRecords ==
  ASSUME UNCHANGED <<outboxVars, calls>>
  PROVE  Records
  BY DEF outboxVars, calls, Records

\* The journal's steps.
LEMMA JournalMoves ==
  ASSUME EventInv
  PROVE  /\ Reserve => Records
         /\ \A status : FinishCall(status) => Records
         /\ Ask => \E o \in Originals : Pays(o)
<1>1. Reserve => Records
  BY DEF Reserve, Records, outboxVars
<1>2. ASSUME NEW status, FinishCall(status)
      PROVE  Records
  <2>1. \/ ledger' = ledger
        \/ ledger[Item] = "RESERVED" /\ ledger' = [ledger EXCEPT ![Item] = status]
    BY <1>2 DEF FinishCall
  <2>2. UNCHANGED <<paid, outbox, accepted>>
    BY <1>2 DEF FinishCall, outboxVars
  <2>3. QED
    BY <2>1, <2>2 DEF Records
<1>3. ASSUME Ask
      PROVE  \E o \in Originals : Pays(o)
  <2> PICK i \in Originals : i = Item
    BY <1>3, ItemType DEF Ask, At
  <2>1. i \in DOMAIN ledger /\ ledger[i] = "RESERVED" /\ paid[i] = 0
    BY <1>3 DEF Ask, EventInv, WorkerHolds, At
  <2>2. CallOutcome(i) = "undecided"
    BY <2>1 DEF CallOutcome
  <2>3. paid' = [paid EXCEPT ![i] = 1] /\ UNCHANGED <<ledger, outbox, accepted>>
    BY <1>3, <2>1 DEF Ask, outboxVars
  <2>4. Pays(i)
    BY <2>1, <2>2, <2>3 DEF Pays
  <2>5. QED
    BY <2>4
<1>4. QED
  BY <1>1, <1>2, <1>3

\* The outbox's steps.
LEMMA OutboxMoves ==
  ASSUME EventInv
  PROVE  /\ Insert => Records
         /\ \A loaded : InsertReports(loaded) => Records
         /\ \A old \in SUBSET Waiting, m \in Waiting : \A state :
              Send(m, old, state) => Records
         /\ \A old \in SUBSET Waiting : EndRun(old) => Records
         /\ \A state : Answered(state) => Records
         /\ \A m : Age(m) => Records
         /\ Shown => \E m \in Originals : Shows(m)
<1>1. Insert => Records
  BY DEF Insert, Inserted, Records, calls
<1>2. ASSUME NEW loaded, InsertReports(loaded)
      PROVE  Records
  BY <1>2 DEF InsertReports, Inserted, Records, calls
<1>3. ASSUME NEW old \in SUBSET Waiting
      PROVE  /\ DOMAIN Swept(old) = DOMAIN outbox
             /\ \A m \in DOMAIN outbox :
                  \/ Swept(old)[m].state = outbox[m].state
                  \/ outbox[m].state \in {"PENDING", "RETRY", "SENDING"}
  <2>1. DOMAIN Swept(old) = DOMAIN outbox
    BY DEF Swept
  <2>2. QED
    BY <2>1, SweptGoes DEF EventInv, Waiting
<1>4. ASSUME NEW old \in SUBSET Waiting, NEW m \in Waiting, NEW state,
             Send(m, old, state)
      PROVE  Records
  <2>1. DOMAIN outbox' = DOMAIN outbox
        /\ \A p \in DOMAIN outbox \ {m} : outbox'[p] = Swept(old)[p]
    BY <1>3, <1>4 DEF Send, Take
  <2>2. outbox[m].state \in {"PENDING", "RETRY"}
    BY DEF Waiting
  <2>3. UNCHANGED <<ledger, paid, accepted>>
    BY <1>4 DEF Send, Take, calls
  <2>4. QED
    BY <1>3, <2>1, <2>2, <2>3 DEF Records
<1>5. ASSUME NEW old \in SUBSET Waiting, EndRun(old)
      PROVE  Records
  <2>1. (outbox' = outbox \/ outbox' = Swept(old)) /\ UNCHANGED <<ledger, paid, accepted>>
    BY <1>5 DEF EndRun, TakeNone, outboxVars, calls
  <2>2. QED
    BY <1>3, <2>1 DEF Records
<1>6. ASSUME NEW state, Answered(state)
      PROVE  Records
  <2>1. \/ outbox' = outbox
        \/ /\ outbox[Item].state = "SENDING"
           /\ outbox' = [outbox EXCEPT ![Item].state = state]
    BY <1>6 DEF Answered, Answer
  <2>2. UNCHANGED <<ledger, paid, accepted>>
    BY <1>6 DEF Answered, Answer, calls
  <2>3. QED
    BY <2>1, <2>2 DEF Records
<1>7. ASSUME NEW m, Age(m)
      PROVE  Records
  <2>1. m \in DOMAIN outbox /\ outbox' = [outbox EXCEPT ![m].age = @ + 1]
        /\ UNCHANGED <<ledger, paid, accepted>>
    BY <1>7 DEF Age, GetOlder, calls
  <2>2. outbox[m].state \in {"PENDING", "RETRY", "SENDING"} \/ outbox'[m].state = outbox[m].state
    BY <2>1 DEF EventInv, OutboxTypes, OutboxRecords
  <2>3. QED
    BY <2>1, <2>2 DEF Records
<1>8. ASSUME Shown
      PROVE  \E m \in Originals : Shows(m)
  <2> PICK i \in Originals : i = Item
    BY <1>8, ItemType DEF Shown, At
  <2>1. i \in DOMAIN outbox /\ outbox[i].state = "SENDING" /\ accepted[i] = 0
    BY <1>8 DEF Shown, EventInv, WorkerHolds, At
  <2>2. RowOutcome(i) = "undecided"
    BY <2>1 DEF RowOutcome
  <2>3. accepted' = [accepted EXCEPT ![i] = 1] /\ UNCHANGED <<ledger, outbox, paid>>
    BY <1>8, <2>1 DEF Shown, Accept, calls
  <2>4. Shows(i)
    BY <2>1, <2>2, <2>3 DEF Shows
  <2>5. QED
    BY <2>4
<1>9. QED
  BY <1>1, <1>2, <1>4, <1>5, <1>6, <1>7, <1>8

\* A step of the worker's cycle.
LEMMA CycleMoves ==
  ASSUME EventInv, Cycle
  PROVE  Records \/ \E o \in Originals : Pays(o)
<1>1. \/ UNCHANGED <<outboxVars, calls>>
      \/ Reserve \/ Ask \/ \E status : FinishCall(status)
  BY DEF Cycle, Start, AnalysisClaim, AnalysisReject, Block, Reuse, Defer, LoseAnswer,
         FailReport, HandOff, Complete
<1>2. QED
  BY <1>1, QuietRecords, JournalMoves

\* A step of its delivery.
LEMMA NotifyMoves ==
  ASSUME EventInv, Notify
  PROVE  Records \/ \E m \in Originals : Shows(m)
<1>1. \/ UNCHANGED <<outboxVars, calls>>
      \/ Insert \/ \E loaded : InsertReports(loaded)
      \/ \E m \in Waiting, old \in SUBSET Waiting : \E state : Send(m, old, state)
      \/ \E old \in SUBSET Waiting : EndRun(old)
      \/ Shown
      \/ \E state : Answered(state)
  BY DEF Notify, EndCycle, Recover, DeliveryClaim, DeliveryFinish
<1>2. QED
  BY <1>1, QuietRecords, OutboxMoves

\* Every step is one of the three.
LEMMA StepMoves ==
  ASSUME EventInv, [Next]_vars
  PROVE  Records \/ \E o \in Originals : Pays(o) \/ Shows(o)
<1>1. News \/ Source => UNCHANGED <<outboxVars, calls>>
  BY DEF News, NewsClaim, NewsReject, RecordMember, EnqueueSource, NewsFinish,
         Source, SourceClaim, ReadMembers, SourceReject, Match, EnqueueAnalysis,
         SourceFinish
<1>2. \/ UNCHANGED <<outboxVars, calls>> \/ News \/ Source \/ Cycle \/ Notify
      \/ \E m : Age(m)
  BY DEF Next, Worker, vars, Discover, Enable, Kill, LeaseLapses, Outdate
<1>3. QED
  BY <1>1, <1>2, QuietRecords, CycleMoves, NotifyMoves, OutboxMoves

\* A record decides what the promise allows.
LEMMA RecordsDecide ==
  ASSUME EventInv, EventInv', Records
  PROVE  Promise!Decide
<1>1. ASSUME NEW o \in Originals
      PROVE  /\ CallOutcome(o)' \in Promise!Outcomes
             /\ CallOutcome(o) # "undecided" => CallOutcome(o)' = CallOutcome(o)
             /\ CallOutcome(o)' = "delivered" => paid[o] = 1
             /\ CallOutcome(o)' # "suppressed"
  BY DEF CallOutcome, Records, EventInv, JournalTypes, JournalAgrees,
         Promise!Outcomes
<1>2. ASSUME NEW m \in Originals
      PROVE  /\ RowOutcome(m)' \in Promise!Outcomes
             /\ RowOutcome(m) # "undecided" => RowOutcome(m)' = RowOutcome(m)
             /\ RowOutcome(m)' = "delivered" => accepted[m] = 1
             /\ RowOutcome(m)' = "suppressed" => accepted[m] = 0
  <2>1. accepted'[m] = accepted[m] /\ accepted[m] \in {0, 1}
    BY DEF Records, EventInv, RowsAgree
  <2>2. m \in DOMAIN outbox' => outbox'[m].state \in RowStates
    BY DEF EventInv, OutboxTypes, OutboxRecords
  <2>3. RowOutcome(m)' \in Promise!Outcomes
    BY <2>2 DEF RowOutcome, Promise!Outcomes, RowStates
  <2>4. RowOutcome(m) # "undecided" => RowOutcome(m)' = RowOutcome(m)
    BY DEF RowOutcome, Records
  <2>5. RowOutcome(m)' = "delivered" => accepted[m] = 1
    BY <2>1, <2>2 DEF RowOutcome, EventInv, RowsAgree, RowStates
  <2>6. RowOutcome(m)' = "suppressed" => accepted[m] = 0
    BY <2>1, <2>2 DEF RowOutcome, EventInv, RowsAgree, RowStates
  <2>7. QED
    BY <2>3, <2>4, <2>5, <2>6
<1>3. ASSUME NEW x \in Outside
      PROVE  /\ Outcome'[x] \in Promise!Outcomes
             /\ Outcome[x] # "undecided" => Outcome'[x] = Outcome[x]
             /\ Outcome'[x] = "delivered" => Created[x] = 1
             /\ Outcome'[x] = "suppressed" => Created[x] = 0
  BY <1>1, <1>2 DEF Outcome, Created, Outside
<1>4. Outcome' \in [Outside -> Promise!Outcomes]
  BY <1>3 DEF Outcome
<1>5. Created' = Created
  BY DEF Created, Records
<1>6. QED
  BY <1>3, <1>4, <1>5 DEF Promise!Decide

\* A request that is made is a message that is created.
LEMMA PaysCreates ==
  ASSUME EventInv, NEW o \in Originals, Pays(o)
  PROVE  Promise!Create(<<"paid", o>>)
<1> DEFINE x == <<"paid", o>>
<1>1. x \in Outside /\ Created[x] = 0 /\ Outcome[x] = "undecided"
  BY DEF Outside, Created, Outcome, Pays
<1>2. Created' = [Created EXCEPT ![x] = 1]
  <2>1. Created = [y \in Outside |-> Created[y]]
        /\ Created' = [y \in Outside |-> Created'[y]]
    BY DEF Created
  <2>2. \A p \in Originals : paid'[p] = IF p = o THEN 1 ELSE paid[p]
    BY DEF Pays, EventInv, JournalTypes
  <2>3. \A y \in Outside : Created'[y] = IF y = x THEN 1 ELSE Created[y]
    BY <2>2 DEF Created, Outside, Pays
  <2> HIDE DEF x
  <2>4. QED
    BY <2>1, <2>3
<1>3. Outcome' = Outcome
  BY DEF Outcome, CallOutcome, RowOutcome, Pays
<1>4. QED
  BY <1>1, <1>2, <1>3 DEF Promise!Create

\* And so is a message that is shown.
LEMMA ShowsCreates ==
  ASSUME EventInv, NEW o \in Originals, Shows(o)
  PROVE  Promise!Create(<<"shown", o>>)
<1> DEFINE x == <<"shown", o>>
<1>1. x \in Outside /\ Created[x] = 0 /\ Outcome[x] = "undecided"
  BY DEF Outside, Created, Outcome, Shows
<1>2. Created' = [Created EXCEPT ![x] = 1]
  <2>1. Created = [y \in Outside |-> Created[y]]
        /\ Created' = [y \in Outside |-> Created'[y]]
    BY DEF Created
  <2>2. \A p \in Originals : accepted'[p] = IF p = o THEN 1 ELSE accepted[p]
    BY DEF Shows, EventInv, OutboxTypes
  <2>3. \A y \in Outside : Created'[y] = IF y = x THEN 1 ELSE Created[y]
    BY <2>2 DEF Created, Outside, Shows
  <2> HIDE DEF x
  <2>4. QED
    BY <2>1, <2>3
<1>3. Outcome' = Outcome
  BY DEF Outcome, CallOutcome, RowOutcome, Shows
<1>4. QED
  BY <1>1, <1>2, <1>3 DEF Promise!Create

\* The paid journal and the outbox together are an at-most-once delivery: a
\* text is paid for once and posted once, and what they record is what
\* happened, through kills, lapsed leases and retries.
THEOREM PaidAndShownOnce == Spec => OnceOutside
<1>1. Init => Promise!Init
  <2> SUFFICES ASSUME Init
               PROVE  Promise!Init
    OBVIOUS
  <2>1. Created = [x \in Outside |-> 0]
    BY DEF Init, Created, Outside
  <2>2. Outcome = [x \in Outside |-> "undecided"]
    BY DEF Init, Outcome, CallOutcome, RowOutcome
  <2>3. QED
    BY <2>1, <2>2 DEF Promise!Init
<1>2. EventInv /\ EventInv' /\ [Next]_vars => Promise!Next
  <2> SUFFICES ASSUME EventInv, EventInv', [Next]_vars
               PROVE  Promise!Next
    OBVIOUS
  <2>1. CASE Records
    BY <2>1, RecordsDecide DEF Promise!Next
  <2>2. ASSUME NEW o \in Originals, Pays(o) \/ Shows(o)
        PROVE  Promise!Next
    <3>1. <<"paid", o>> \in Outside /\ <<"shown", o>> \in Outside
      BY DEF Outside
    <3>2. QED
      BY <2>2, <3>1, PaysCreates, ShowsCreates DEF Promise!Next
  <2>3. QED
    BY <2>1, <2>2, StepMoves
<1>3. QED
  BY <1>1, <1>2, EventInvariant, PTL DEF Spec, OnceOutside, Promise!Spec
=============================================================================
