------------------------- MODULE BacktestTasksProofs -------------------------
(***************************************************************************)
(* BacktestTasks for every set of tasks, universes and requests, every     *)
(* size of the pool and any number of restarts: the types, that an active  *)
(* row has a job behind it, and that a contract is frozen, although        *)
(* update_task writes a row it has read in an earlier transaction and the  *)
(* monitor does the same for the tasks it fails.                           *)
(***************************************************************************)
EXTENDS BacktestTasks, TLAPS

\* The job has pinned a contract.
Pinned == {"starting", "loading", "composing", "computing"}

\* What holds of a row of t, stored or about to be: it runs only on a
\* contract, its request is the one of its universe, and a watchlist task that
\* waits without a contract waits for that request.
SoundRow(t, row) ==
  /\ row.status \in {"running", "success"} => row.contract # 0
  /\ row.request \in {NoRequest, Source[t]}
  /\ IsNamed(t) => row.request = NoRequest
  /\ ~IsNamed(t) /\ row.contract = 0 /\ row.status = "waiting" =>
       row.request = Source[t]

\* A waiting row whose request has not succeeded.
Unanswered(row) ==
  /\ row.status = "waiting"
  /\ row.request \in Requests
  /\ verdict[row.request] # "success"

RowsAreSound ==
  \A t \in Tasks :
    /\ SoundRow(t, rows[t])
    /\ at[t] = "new" => rows[t] = NoRow
    /\ at[t] \in Pinned /\ rows[t] # NoRow => rows[t].contract # 0
    /\ at[t] # "none" /\ Unanswered(rows[t]) => rows[t].contract # 0

\* A job that is about to put a row puts one that still fits: it has the
\* contract the row has, and the job goes on unless the row is settled.
DraftsAreSound ==
  \A t \in Tasks : at[t] = "putting" =>
    /\ SoundRow(t, draft[t])
    /\ rows[t].contract # 0 => draft[t].contract = rows[t].contract
    /\ then[t] = "none" => draft[t].status \in {"waiting", "success", "failed"}
    /\ then[t] # "none" => draft[t].contract # 0

\* Whatever the job of t puts next, it does not pin a contract any more.
Settled(t) ==
  /\ rows[t] # NoRow => rows[t].contract # 0
  /\ at[t] = "putting" => draft[t].contract # 0

\* The monitor's snapshot may be old, but a task it can still fail has no job
\* or a contract, and one it saw without a request has a contract.
SnapshotIsSound ==
  \A t \in Tasks :
    /\ seen[t] \in {Unseen, NoRequest, Source[t]}
    /\ at[t] = "new" => seen[t] = Unseen
    /\ seen[t] \in Requests /\ verdict[seen[t]] # "success" =>
         at[t] = "none" \/ Settled(t)
    /\ seen[t] = NoRequest /\ ~IsNamed(t) => Settled(t)

\* The row the monitor is about to fail has the contract of the stored one,
\* unless that was deleted, and of the one a job is about to put.
DoomIsSound ==
  doomed # Nothing =>
    LET t == doomed.task
    IN /\ t \in Tasks
       /\ at[t] # "new"
       /\ at[t] # "none" => doomed.row.contract # 0
       /\ at[t] = "putting" => draft[t].contract = doomed.row.contract
       /\ doomed.row.status = "failed"
       /\ SoundRow(t, doomed.row)
       /\ rows[t] # NoRow => rows[t].contract = doomed.row.contract
       /\ seen[t] = Unseen

\* The inductive invariant.
TasksInv ==
  /\ TasksTypeOK
  /\ RowsAreSound
  /\ DraftsAreSound
  /\ SnapshotIsSound
  /\ DoomIsSound
  /\ ActiveIsBacked

-----------------------------------------------------------------------------
(* Facts the steps share *)

\* Types of what the tasks read but do not own.
WorldTypeOK ==
  /\ verdict \in [Requests -> Queue!Verdicts] /\ published \subseteq Requests
  /\ data \in [Named \cup Requests -> 0..MaxVersion]
  /\ research \in [Named -> 0..MaxVersion]
  /\ fits \in [Tasks -> SUBSET (1..MaxVersion)]

\* No step takes back that a request has succeeded.
SuccessStays ==
  \A r \in Requests : verdict[r] = "success" => verdict'[r] = "success"

\* A named task reads a named universe and any other the one of its request.
LEMMA SourceType ==
  ASSUME NEW t \in Tasks
  PROVE  /\ Source[t] \in Named \cup Requests
         /\ ~IsNamed(t) => Source[t] \in Requests /\ Source[t] # NoRequest
         /\ IsNamed(t) => Source[t] \notin Requests
         /\ Unseen \notin Requests /\ NoRequest \notin Requests
         /\ NoRequest # Unseen
  BY TasksAssumption DEF IsNamed

\* An absent row is sound.
LEMMA NoRowIsSound ==
  ASSUME NEW t \in Tasks
  PROVE  NoRow \in Rows /\ SoundRow(t, NoRow) /\ ~Unanswered(NoRow)
  BY TasksAssumption DEF NoRow, Row, Rows, Statuses, SoundRow, Unanswered

\* A row that is failed stays sound.
LEMMA FailedRow ==
  ASSUME TasksInv, NEW t \in Tasks
  PROVE  LET row == [rows[t] EXCEPT !.status = "failed"]
         IN /\ row \in Rows /\ SoundRow(t, row)
            /\ row.status = "failed" /\ row.contract = rows[t].contract
<1> DEFINE row == [rows[t] EXCEPT !.status = "failed"]
<1>1. rows[t] \in Rows /\ SoundRow(t, rows[t])
  BY DEF TasksInv, TasksTypeOK, RowsAreSound
<1>2. /\ row \in Rows /\ row.status = "failed"
      /\ row.contract = rows[t].contract /\ row.request = rows[t].request
  BY <1>1 DEF Rows, Statuses
<1> HIDE DEF row
<1>3. SoundRow(t, row)
  BY <1>1, <1>2 DEF SoundRow
<1>4. QED
  BY <1>2, <1>3 DEF row

\* Asking for a request opens it at most.
LEMMA AskWorld ==
  ASSUME WorldTypeOK, NEW r \in Requests, Queue!Ask(r),
         UNCHANGED <<data, research, fits>>
  PROVE  WorldTypeOK' /\ SuccessStays
  BY DEF Queue!Ask, Queue!Verdicts, WorldTypeOK, SuccessStays

\* The load of update_task: the draft fits the row it was made from, so the
\* invariant survives whatever the job does next.
LEMMA UpdateInv ==
  ASSUME TasksInv, NEW t \in Tasks, NEW row, NEW next,
         Update(t, row, next), WorldTypeOK', SuccessStays,
         at[t] \notin {"none", "new", "putting"},
         next \in {"none", "starting", "loading", "computing"},
         Exists(t) =>
           /\ row \in Rows /\ SoundRow(t, row)
           /\ rows[t].contract # 0 => row.contract = rows[t].contract
           /\ next = "none" => row.status \in {"waiting", "success", "failed"}
           /\ next # "none" => row.contract # 0
  PROVE  TasksInv'
<1> USE SourceType, NoRowIsSound
<1>1. /\ at' = [at EXCEPT ![t] = IF Exists(t) THEN "putting" ELSE "none"]
      /\ draft' = [draft EXCEPT ![t] = IF Exists(t) THEN row ELSE NoRow]
      /\ then' = [then EXCEPT ![t] = IF Exists(t) THEN next ELSE "none"]
      /\ UNCHANGED <<rows, deleting, seen, doomed, up, restarts>>
  BY DEF Update, monitor
<1>2. TasksTypeOK'
  BY <1>1 DEF TasksInv, TasksTypeOK, WorldTypeOK
<1>3. RowsAreSound'
  BY <1>1 DEF TasksInv, TasksTypeOK, RowsAreSound, SoundRow, Unanswered,
              SuccessStays, Pinned, Exists, Rows
<1>4. DraftsAreSound'
  BY <1>1 DEF TasksInv, TasksTypeOK, DraftsAreSound, SoundRow, Unanswered,
              SuccessStays, Exists, Rows
<1>5. SnapshotIsSound'
  BY <1>1 DEF TasksInv, TasksTypeOK, SnapshotIsSound, Settled, SuccessStays,
     Exists
<1>6. DoomIsSound'
  BY <1>1 DEF TasksInv, TasksTypeOK, DoomIsSound, SoundRow, Exists
<1>7. ActiveIsBacked'
  BY <1>1 DEF TasksInv, TasksTypeOK, ActiveIsBacked, In, Exists, NoRow, Row
<1>8. QED
  BY <1>2, <1>3, <1>4, <1>5, <1>6, <1>7 DEF TasksInv

-----------------------------------------------------------------------------
(* The steps of a job *)

\* Preparing a watchlist task: it pins what covers it or waits for its request,
\* on the contract it may have.
LEMMA PrepareWatchlistInv ==
  ASSUME TasksInv, NEW t \in Tasks, PrepareWatchlist(t)
  PROVE  TasksInv'
<1> USE SourceType
<1>1. at[t] = "preparing" /\ ~IsNamed(t) /\ WorldTypeOK
  BY DEF PrepareWatchlist, TasksInv, TasksTypeOK, WorldTypeOK
<1>2. CASE Covers(t, Version(t))
  <2>1. Update(t, Row(rows[t].status, NoRequest, Version(t)), "starting")
        /\ UNCHANGED world
    BY <1>2 DEF PrepareWatchlist, Pin
  <2>2. WorldTypeOK' /\ SuccessStays
    BY <1>1, <2>1 DEF world, WorldTypeOK, SuccessStays
  <2>3. Version(t) \in 1..MaxVersion
    BY <1>1, <1>2 DEF Covers, WorldTypeOK
  <2>4. Row(rows[t].status, NoRequest, Version(t)) \in Rows
    BY <2>3, TasksAssumption DEF Row, TasksInv, TasksTypeOK, Rows
  <2>5. SoundRow(t, Row(rows[t].status, NoRequest, Version(t)))
    BY <1>1, <2>3 DEF SoundRow, Row
  <2>6. QED
    BY <1>1, <2>1, <2>2, <2>3, <2>4, <2>5, UpdateInv DEF Row, Version
<1>3. CASE ~Covers(t, Version(t))
  <2>1. /\ Queue!Ask(Source[t]) /\ UNCHANGED <<data, research, fits>>
        /\ Update(t, Row("waiting", Source[t], rows[t].contract), "none")
    BY <1>3 DEF PrepareWatchlist, Wait
  <2>2. WorldTypeOK' /\ SuccessStays
    BY <1>1, <2>1, AskWorld
  <2>3. /\ Row("waiting", Source[t], rows[t].contract) \in Rows
        /\ SoundRow(t, Row("waiting", Source[t], rows[t].contract))
    BY <1>1 DEF Row, TasksInv, TasksTypeOK, Rows, Statuses, SoundRow
  <2>4. QED
    BY <1>1, <2>1, <2>2, <2>3, UpdateInv DEF Row
<1>4. QED
  BY <1>2, <1>3

\* Preparing a named task: it pins or waits, on the contract it may have.
LEMMA PrepareNamedInv ==
  ASSUME TasksInv, NEW t \in Tasks, PrepareNamed(t)
  PROVE  TasksInv'
<1> USE SourceType
<1>1. /\ at[t] = "preparing" /\ IsNamed(t) /\ Version(t) # 0
      /\ WorldTypeOK' /\ SuccessStays
  BY DEF PrepareNamed, TasksInv, TasksTypeOK, WorldTypeOK, SuccessStays, world
<1>2. Version(t) \in 0..MaxVersion
  BY <1>1 DEF Version, TasksInv, TasksTypeOK, Rows
<1>3. CASE Pin(t)
  <2>1. /\ Row(rows[t].status, NoRequest, Version(t)) \in Rows
        /\ SoundRow(t, Row(rows[t].status, NoRequest, Version(t)))
    BY <1>1, <1>2 DEF Row, TasksInv, TasksTypeOK, Rows, SoundRow
  <2>2. QED
    BY <1>1, <1>3, <2>1, UpdateInv DEF Pin, Row, Version
<1>4. CASE Wait(t, NoRequest)
  <2>1. /\ Row("waiting", NoRequest, rows[t].contract) \in Rows
        /\ SoundRow(t, Row("waiting", NoRequest, rows[t].contract))
    BY <1>1 DEF Row, TasksInv, TasksTypeOK, Rows, Statuses, SoundRow
  <2>2. QED
    BY <1>1, <1>4, <2>1, UpdateInv DEF Wait, Row
<1>5. QED
  BY <1>3, <1>4 DEF PrepareNamed

\* A pinned job writes its row with another status, on the same contract.
LEMMA RestatusInv ==
  ASSUME TasksInv, NEW t \in Tasks, UNCHANGED world,
         NEW status \in {"running", "success", "failed"},
         NEW next \in {"none", "loading"},
         Update(t, [rows[t] EXCEPT !.status = status], next),
         status # "running" <=> next = "none",
         at[t] \in Pinned \cup {"preparing"},
         status # "failed" => at[t] \in Pinned
  PROVE  TasksInv'
<1> DEFINE row == [rows[t] EXCEPT !.status = status]
<1>1. WorldTypeOK' /\ SuccessStays
  BY DEF TasksInv, TasksTypeOK, WorldTypeOK, SuccessStays, world
<1>2. /\ row \in Rows
      /\ row.contract = rows[t].contract /\ row.request = rows[t].request
      /\ row.status = status
  BY DEF TasksInv, TasksTypeOK, Rows, Statuses
<1>3. Exists(t) /\ status # "failed" => rows[t].contract # 0
  BY DEF TasksInv, RowsAreSound, Exists
<1>4. Exists(t) => SoundRow(t, row)
  BY <1>2, <1>3 DEF SoundRow, TasksInv, RowsAreSound
<1>5. QED
  <2> HIDE DEF row
  <2>1. Update(t, row, next)
    BY DEF row
  <2>2. at[t] \notin {"none", "new", "putting"}
    BY DEF Pinned
  <2>3. QED
    BY <1>1, <1>2, <1>3, <1>4, <2>1, <2>2, UpdateInv

\* Becoming running changes the status only.
LEMMA BecomeRunningInv ==
  ASSUME TasksInv, NEW t \in Tasks, BecomeRunning(t)
  PROVE  TasksInv'
  BY RestatusInv DEF BecomeRunning, Pinned

\* Loading changes the row only to let it wait again, on its contract.
LEMMA LoadInv ==
  ASSUME TasksInv, NEW t \in Tasks, Load(t)
  PROVE  TasksInv'
<1> USE SourceType
<1>1. CASE Wait(t, NoRequest)
  <2>1. /\ WorldTypeOK' /\ SuccessStays
        /\ at[t] = "loading" /\ rows[t].contract # 0
    BY DEF Load, Exists, TasksInv, TasksTypeOK, RowsAreSound, Pinned,
       WorldTypeOK, SuccessStays, world
  <2>2. /\ Row("waiting", NoRequest, rows[t].contract) \in Rows
        /\ SoundRow(t, Row("waiting", NoRequest, rows[t].contract))
    BY <2>1 DEF Row, TasksInv, TasksTypeOK, Rows, Statuses, SoundRow
  <2>3. QED
    BY <1>1, <2>1, <2>2, UpdateInv DEF Wait, Row
<1>2. CASE /\ at' = [at EXCEPT ![t] = "composing"]
           /\ UNCHANGED <<rows, draft, then, deleting, monitor, up, restarts>>
  BY <1>2 DEF Load, world, monitor, TasksInv, TasksTypeOK, RowsAreSound,
     DraftsAreSound, SnapshotIsSound, Settled, DoomIsSound, ActiveIsBacked,
     SoundRow, Unanswered, Pinned, In, IsNamed
<1>3. QED
  BY <1>1, <1>2 DEF Load

\* Composing the request fails the task or goes on to compute on its contract.
LEMMA ComposeInv ==
  ASSUME TasksInv, NEW t \in Tasks, Compose(t)
  PROVE  TasksInv'
<1>1. CASE Failed(t)
  BY <1>1, RestatusInv DEF Compose, Failed, Pinned
<1>2. CASE Update(t, rows[t], "computing")
  <2>1. WorldTypeOK' /\ SuccessStays /\ at[t] = "composing"
    BY DEF Compose, TasksInv, TasksTypeOK, WorldTypeOK, SuccessStays, world
  <2>2. Exists(t) => /\ rows[t] \in Rows /\ SoundRow(t, rows[t])
                     /\ rows[t].contract # 0
    BY <2>1 DEF Exists, TasksInv, TasksTypeOK, RowsAreSound, Pinned
  <2>3. QED
    BY <1>2, <2>1, <2>2, UpdateInv
<1>3. QED
  BY <1>1, <1>2 DEF Compose

\* Finishing changes the status only.
LEMMA FinishInv ==
  ASSUME TasksInv, NEW t \in Tasks, Finish(t)
  PROVE  TasksInv'
  BY RestatusInv DEF Finish, Pinned

\* So does failing.
LEMMA FailInv ==
  ASSUME TasksInv, NEW t \in Tasks, Fail(t)
  PROVE  TasksInv'
  BY RestatusInv DEF Fail, Failed, Pinned

\* The upsert: the draft still has the contract of the row it replaces.
LEMMA PutInv ==
  ASSUME TasksInv, NEW t \in Tasks, Put(t)
  PROVE  TasksInv'
<1> USE SourceType, NoRowIsSound
<1>1. /\ at[t] = "putting"
      /\ rows' = [rows EXCEPT ![t] = draft[t]]
      /\ at' = [at EXCEPT ![t] = then[t]]
      /\ draft' = [draft EXCEPT ![t] = NoRow]
      /\ then' = [then EXCEPT ![t] = "none"]
      /\ UNCHANGED <<deleting, seen, doomed, up, restarts, verdict, published,
                     data, research, fits>>
  BY DEF Put, monitor, world
<1>2. TasksTypeOK'
  BY <1>1 DEF TasksInv, TasksTypeOK
<1>3. RowsAreSound'
  BY <1>1 DEF TasksInv, TasksTypeOK, RowsAreSound, DraftsAreSound, SoundRow,
              Unanswered, Pinned
<1>4. DraftsAreSound'
  BY <1>1 DEF TasksInv, TasksTypeOK, DraftsAreSound, SoundRow, Unanswered
<1>5. SnapshotIsSound'
  BY <1>1 DEF TasksInv, TasksTypeOK, SnapshotIsSound, Settled
<1>6. DoomIsSound'
  BY <1>1 DEF TasksInv, TasksTypeOK, DoomIsSound, SoundRow
<1>7. ActiveIsBacked'
  BY <1>1 DEF TasksInv, TasksTypeOK, DraftsAreSound, ActiveIsBacked, In
<1>8. QED
  BY <1>2, <1>3, <1>4, <1>5, <1>6, <1>7 DEF TasksInv

-----------------------------------------------------------------------------
(* Requests of the Web process *)

\* A new row has neither contract nor request, and its job follows.
LEMMA CreateInv ==
  ASSUME TasksInv, NEW t \in Tasks, Create(t)
  PROVE  TasksInv'
<1> USE SourceType, NoRowIsSound
<1>1. /\ at[t] = "new" /\ rows[t] = NoRow
      /\ rows' = [rows EXCEPT ![t] = Row("pending", NoRequest, 0)]
      /\ at' = [at EXCEPT ![t] = "created"]
      /\ UNCHANGED <<draft, then, deleting, seen, doomed, up, restarts,
                     verdict, published, data, research, fits>>
  BY DEF Create, monitor, world, TasksInv, RowsAreSound
<1>2. /\ Row("pending", NoRequest, 0) \in Rows
      /\ SoundRow(t, Row("pending", NoRequest, 0))
      /\ ~Unanswered(Row("pending", NoRequest, 0))
  BY TasksAssumption DEF Row, Rows, Statuses, SoundRow, Unanswered
<1>3. TasksTypeOK'
  BY <1>1, <1>2 DEF TasksInv, TasksTypeOK
<1>4. RowsAreSound' /\ DraftsAreSound'
  BY <1>1, <1>2 DEF TasksInv, TasksTypeOK, RowsAreSound, DraftsAreSound,
     SoundRow, Unanswered, Pinned
<1>5. SnapshotIsSound'
  BY <1>1 DEF TasksInv, TasksTypeOK, SnapshotIsSound, Settled
<1>6. DoomIsSound' /\ ActiveIsBacked'
  BY <1>1 DEF TasksInv, TasksTypeOK, DoomIsSound, ActiveIsBacked, SoundRow,
     In
<1>7. QED
  BY <1>3, <1>4, <1>5, <1>6 DEF TasksInv

\* Submitting and starting a job only move it on.
LEMMA SubmitInv ==
  ASSUME TasksInv, NEW t \in Tasks, Submit(t)
  PROVE  TasksInv'
  BY DEF Submit, monitor, world, TasksInv, TasksTypeOK, RowsAreSound,
     DraftsAreSound, SnapshotIsSound, Settled, DoomIsSound, ActiveIsBacked,
     SoundRow, Unanswered, Pinned, In, IsNamed

\* Starting a thread changes no row.
LEMMA StartInv ==
  ASSUME TasksInv, NEW t \in Tasks, Start(t)
  PROVE  TasksInv'
  BY DEF Start, monitor, world, TasksInv, TasksTypeOK, RowsAreSound,
     DraftsAreSound, SnapshotIsSound, Settled, DoomIsSound, ActiveIsBacked,
     SoundRow, Unanswered, Pinned, In, IsNamed

\* Looking whether a task may be deleted changes no row.
LEMMA CheckDeleteInv ==
  ASSUME TasksInv, NEW t \in Tasks, CheckDelete(t)
  PROVE  TasksInv'
  BY DEF CheckDelete, work, monitor, world, TasksInv, TasksTypeOK,
     RowsAreSound, DraftsAreSound, SnapshotIsSound, Settled, DoomIsSound,
     ActiveIsBacked, SoundRow, Unanswered, Pinned, In, IsNamed

\* The deletion may hit a job in flight, whose draft then brings a row back.
LEMMA DeleteInv ==
  ASSUME TasksInv, NEW t \in Tasks, Delete(t)
  PROVE  TasksInv'
<1> USE SourceType, NoRowIsSound
<1>1. /\ rows' = [rows EXCEPT ![t] = NoRow]
      /\ deleting' \subseteq Tasks
      /\ UNCHANGED <<at, draft, then, seen, doomed, up, restarts, verdict,
                     published, data, research, fits>>
  BY DEF Delete, work, monitor, world, TasksInv, TasksTypeOK
<1>2. NoRow.contract = 0 /\ NoRow.status = "absent"
  BY DEF NoRow, Row
<1>3. TasksTypeOK'
  BY <1>1 DEF TasksInv, TasksTypeOK
<1>4. RowsAreSound' /\ DraftsAreSound'
  BY <1>1, <1>2 DEF TasksInv, TasksTypeOK, RowsAreSound, DraftsAreSound,
     SoundRow, Unanswered
<1>5. SnapshotIsSound' /\ DoomIsSound' /\ ActiveIsBacked'
  BY <1>1, <1>2 DEF TasksInv, TasksTypeOK, SnapshotIsSound, Settled,
     DoomIsSound, ActiveIsBacked, SoundRow, In
<1>6. QED
  BY <1>3, <1>4, <1>5 DEF TasksInv

-----------------------------------------------------------------------------
(* The monitor *)

\* A waiting row in the snapshot shows its request: one that has not succeeded
\* belongs to a task without a job, none to a task with a contract.
LEMMA PollInv ==
  ASSUME TasksInv, Poll
  PROVE  TasksInv'
<1> USE SourceType
<1>1. /\ seen' = [t \in Tasks |-> IF In(t, {"waiting"}) THEN rows[t].request
                                  ELSE Unseen]
      /\ doomed = Nothing
      /\ UNCHANGED <<rows, at, draft, then, deleting, doomed, up, restarts,
                     verdict, published, data, research, fits>>
  BY DEF Poll, work, world
<1>2. TasksTypeOK'
  BY <1>1 DEF TasksInv, TasksTypeOK, Rows
<1>3. RowsAreSound' /\ DraftsAreSound' /\ DoomIsSound' /\ ActiveIsBacked'
  BY <1>1 DEF TasksInv, RowsAreSound, DraftsAreSound, DoomIsSound,
     ActiveIsBacked, SoundRow, Unanswered, In, IsNamed
<1>4. SnapshotIsSound'
  <2> SUFFICES ASSUME NEW t \in Tasks
               PROVE  /\ seen'[t] \in {Unseen, NoRequest, Source[t]}
                      /\ at[t] = "new" => seen'[t] = Unseen
                      /\ seen'[t] \in Requests /\ verdict[seen'[t]] # "success"
                           => at[t] = "none" \/ Settled(t)
                      /\ seen'[t] = NoRequest /\ ~IsNamed(t) => Settled(t)
    BY <1>1 DEF SnapshotIsSound, Settled, IsNamed
  <2>1. CASE rows[t].status = "waiting"
    <3>1. seen'[t] = rows[t].request /\ rows[t] # NoRow
      BY <1>1, <2>1 DEF In, NoRow, Row
    <3>2. /\ SoundRow(t, rows[t]) /\ at[t] # "new"
          /\ at[t] # "none" /\ Unanswered(rows[t]) => rows[t].contract # 0
      BY <3>1 DEF TasksInv, RowsAreSound
    <3>3. rows[t].contract # 0 => Settled(t)
      BY DEF TasksInv, DraftsAreSound, Settled
    <3>4. QED
      BY <2>1, <3>1, <3>2, <3>3 DEF SoundRow, Unanswered
  <2>2. CASE rows[t].status # "waiting"
    BY <1>1, <2>2 DEF In
  <2>3. QED
    BY <2>1, <2>2
<1>5. QED
  BY <1>2, <1>3, <1>4 DEF TasksInv

\* Only a task without a job is started again; its request has succeeded, or
\* it has a contract.
LEMMA ResubmitInv ==
  ASSUME TasksInv, NEW t \in Tasks, Resubmit(t)
  PROVE  TasksInv'
<1> USE SourceType
<1>1. /\ doomed = Nothing /\ seen[t] # Unseen
      /\ seen[t] = NoRequest
           \/ (seen[t] \in Requests /\ verdict[seen[t]] = "success")
      /\ seen' = [seen EXCEPT ![t] = Unseen]
      /\ at' = [at EXCEPT ![t] = IF @ = "none" THEN "queued" ELSE @]
      /\ UNCHANGED <<rows, draft, then, deleting, doomed, up, restarts,
                     verdict, published, data, research, fits>>
  BY DEF Resubmit, Ready, Visited, world
<1>2. TasksTypeOK'
  BY <1>1 DEF TasksInv, TasksTypeOK
<1>3. at[t] # "new" /\ (Unanswered(rows[t]) => rows[t].contract # 0)
  <2>1. /\ SoundRow(t, rows[t])
        /\ seen[t] \in {NoRequest, Source[t]} /\ at[t] # "new"
        /\ seen[t] = NoRequest /\ ~IsNamed(t) => Settled(t)
    BY <1>1 DEF TasksInv, TasksTypeOK, RowsAreSound, SnapshotIsSound
  <2>2. CASE Unanswered(rows[t])
    <3>1. /\ rows[t] # NoRow /\ ~IsNamed(t)
          /\ rows[t].request = Source[t] /\ verdict[Source[t]] # "success"
      BY <2>1, <2>2 DEF SoundRow, Unanswered, NoRow, Row
    <3>2. QED
      BY <1>1, <2>1, <3>1 DEF Settled
  <2>3. QED
    BY <2>1, <2>2
<1>4. RowsAreSound'
  BY <1>1, <1>3 DEF TasksInv, TasksTypeOK, RowsAreSound, SoundRow, Unanswered,
     Pinned
<1>5. DraftsAreSound' /\ SnapshotIsSound' /\ DoomIsSound' /\ ActiveIsBacked'
  BY <1>1 DEF TasksInv, TasksTypeOK, DraftsAreSound, SnapshotIsSound, Settled,
     DoomIsSound, ActiveIsBacked, SoundRow, Unanswered, In
<1>6. QED
  BY <1>2, <1>4, <1>5 DEF TasksInv

\* The monitor leaves a waiting row and only notes its visit.
LEMMA LeaveWaitingInv ==
  ASSUME TasksInv, NEW t \in Tasks, LeaveWaiting(t)
  PROVE  TasksInv'
  BY SourceType DEF LeaveWaiting, Visited, work, world, TasksInv, TasksTypeOK,
     RowsAreSound, DraftsAreSound, SnapshotIsSound, Settled, DoomIsSound,
     ActiveIsBacked, SoundRow, Unanswered, Pinned, In, IsNamed

\* A task whose request has failed has no job that could pin a contract.
LEMMA DoomInv ==
  ASSUME TasksInv, NEW t \in Tasks, Doom(t)
  PROVE  TasksInv'
<1> USE SourceType
<1>1. /\ doomed = Nothing
      /\ seen[t] \in Requests /\ verdict[seen[t]] # "success"
      /\ UNCHANGED <<rows, at, draft, then, deleting, up, restarts, verdict,
                     published, data, research, fits>>
  BY DEF Doom, Doomed, work, world, TasksInv, TasksTypeOK
<1>2. at[t] # "new" /\ (at[t] = "none" \/ Settled(t))
  BY <1>1 DEF TasksInv, SnapshotIsSound
<1>3. RowsAreSound' /\ DraftsAreSound' /\ ActiveIsBacked'
  BY <1>1 DEF TasksInv, RowsAreSound, DraftsAreSound, ActiveIsBacked, SoundRow,
     Unanswered, In, IsNamed
<1>4. CASE Exists(t)
  <2> DEFINE row == [rows[t] EXCEPT !.status = "failed"]
  <2>1. /\ doomed' = [task |-> t, row |-> row]
        /\ seen' = [seen EXCEPT ![t] = Unseen]
    BY <1>4 DEF Doom, Visited
  <2>2. /\ row \in Rows /\ SoundRow(t, row)
        /\ row.status = "failed" /\ row.contract = rows[t].contract
    BY FailedRow
  <2> HIDE DEF row
  <2>3. TasksTypeOK'
    BY <1>1, <2>1, <2>2 DEF TasksInv, TasksTypeOK
  <2>4. SnapshotIsSound'
    BY <1>1, <2>1 DEF TasksInv, TasksTypeOK, SnapshotIsSound, Settled
  <2>5. DoomIsSound'
    <3>1. /\ doomed'.task = t /\ doomed'.row = row
          /\ seen'[t] = Unseen /\ rows[t] # NoRow
          /\ UNCHANGED <<rows, at, draft>>
      BY <1>1, <1>4, <2>1 DEF Exists, TasksInv, TasksTypeOK
    <3>2. at[t] # "none" => rows[t].contract # 0
      BY <1>2, <3>1 DEF Settled
    <3>3. at[t] = "putting" => draft[t].contract = rows[t].contract
      BY <3>2 DEF TasksInv, DraftsAreSound
    <3>4. SoundRow(t, doomed'.row)
      BY <2>2, <3>1
    <3>5. QED
      BY <1>2, <2>2, <3>1, <3>2, <3>3, <3>4 DEF DoomIsSound, SoundRow, IsNamed
  <2>6. QED
    BY <1>3, <2>3, <2>4, <2>5 DEF TasksInv
<1>5. CASE ~Exists(t)
  <2>1. doomed' = doomed /\ seen' = [u \in Tasks |-> Unseen]
    BY <1>5 DEF Doom
  <2>2. TasksTypeOK' /\ SnapshotIsSound' /\ DoomIsSound'
    BY <1>1, <2>1 DEF TasksInv, TasksTypeOK, SnapshotIsSound, Settled,
       DoomIsSound
  <2>3. QED
    BY <1>3, <2>2 DEF TasksInv
<1>6. QED
  BY <1>4, <1>5

\* The row the monitor puts has the contract of the one it replaces and of the
\* one a job may put; if it was deleted meanwhile it is back, failed.
LEMMA PutDoomedInv ==
  ASSUME TasksInv, PutDoomed
  PROVE  TasksInv'
<1> USE SourceType
<1> DEFINE t == doomed.task
<1>1. /\ rows' = [rows EXCEPT ![t] = doomed.row]
      /\ doomed' = Nothing
      /\ UNCHANGED <<at, draft, then, deleting, seen, up, restarts, verdict,
                     published, data, research, fits>>
  BY DEF PutDoomed, work, world
<1>2. /\ t \in Tasks /\ at[t] # "new" /\ seen[t] = Unseen
      /\ at[t] # "none" => doomed.row.contract # 0
      /\ at[t] = "putting" => draft[t].contract = doomed.row.contract
      /\ rows[t] # NoRow => rows[t].contract = doomed.row.contract
      /\ doomed.row \in Rows /\ doomed.row.status = "failed"
      /\ SoundRow(t, doomed.row)
  BY DEF PutDoomed, TasksInv, TasksTypeOK, DoomIsSound
<1>3. Nothing \in [task : Tasks \cup {Unseen}, row : Rows]
  BY NoRowIsSound, <1>2 DEF Nothing
<1> HIDE DEF t
<1>4. TasksTypeOK'
  BY <1>1, <1>2, <1>3 DEF TasksInv, TasksTypeOK
<1>5. RowsAreSound' /\ DraftsAreSound'
  BY <1>1, <1>2 DEF TasksInv, TasksTypeOK, RowsAreSound, DraftsAreSound,
     SoundRow, Unanswered, Pinned
<1>6. SnapshotIsSound' /\ DoomIsSound' /\ ActiveIsBacked'
  BY <1>1, <1>2 DEF TasksInv, TasksTypeOK, SnapshotIsSound, Settled,
     DoomIsSound, ActiveIsBacked, In
<1>7. QED
  BY <1>4, <1>5, <1>6 DEF TasksInv

-----------------------------------------------------------------------------
(* Restarts and the writers of the data *)

\* With the process every job, snapshot and half-done update is gone.
LEMMA CrashInv ==
  ASSUME TasksInv, Crash
  PROVE  TasksInv'
<1> USE SourceType, NoRowIsSound, TasksAssumption
<1>1. /\ up' = FALSE /\ restarts' = restarts + 1 /\ restarts < MaxRestarts
      /\ at' = [t \in Tasks |-> IF at[t] = "new" THEN "new" ELSE "none"]
      /\ draft' = [t \in Tasks |-> NoRow]
      /\ then' = [t \in Tasks |-> "none"]
      /\ deleting' = {}
      /\ seen' = [t \in Tasks |-> Unseen]
      /\ doomed' = Nothing
      /\ UNCHANGED <<rows, verdict, published, data, research, fits>>
  BY DEF Crash, world
<1>2. Nothing \in [task : Tasks \cup {Unseen}, row : Rows]
  BY DEF Nothing, NoRow, Row, Rows, Statuses
<1>3. TasksTypeOK'
  <2>1. draft' \in [Tasks -> Rows]
    BY <1>1
  <2>2. up' \in BOOLEAN
    BY <1>1
  <2>3. restarts \in 0..MaxRestarts /\ MaxRestarts \in Nat
    BY DEF TasksInv, TasksTypeOK
  <2>4. restarts' \in 0..MaxRestarts
    BY <1>1, <2>3
  <2>5. at' \in [Tasks -> {"new", "none"}]
    BY <1>1
  <2>6. QED
    BY <1>1, <1>2, <2>1, <2>2, <2>4, <2>5 DEF TasksInv, TasksTypeOK
<1>4. RowsAreSound' /\ DraftsAreSound'
  BY <1>1 DEF TasksInv, RowsAreSound, DraftsAreSound, SoundRow, Unanswered,
     Pinned, IsNamed
<1>5. SnapshotIsSound' /\ DoomIsSound' /\ ActiveIsBacked'
  BY <1>1 DEF SnapshotIsSound, Settled, DoomIsSound, ActiveIsBacked, IsNamed
<1>6. QED
  BY <1>3, <1>4, <1>5 DEF TasksInv

\* startup_recovery fails an interrupted task on its contract.
LEMMA RecoverInv ==
  ASSUME TasksInv, NEW t \in Tasks, Recover(t)
  PROVE  TasksInv'
<1> USE SourceType
<1> DEFINE row == [rows[t] EXCEPT !.status = "failed"]
<1>1. /\ ~up /\ rows[t].status \in {"pending", "running"}
      /\ rows' = [rows EXCEPT ![t] = row]
      /\ UNCHANGED <<at, draft, then, deleting, seen, doomed, up, restarts,
                     verdict, published, data, research, fits>>
  BY DEF Recover, Interrupted, Recovered, In, work, monitor, world
<1>2. /\ row \in Rows /\ SoundRow(t, row)
      /\ row.status = "failed" /\ row.contract = rows[t].contract
  BY FailedRow
<1>3. rows[t] # NoRow
  BY <1>1 DEF NoRow, Row
<1> HIDE DEF row
<1>4. TasksTypeOK'
  BY <1>1, <1>2 DEF TasksInv, TasksTypeOK
<1>5. RowsAreSound' /\ DraftsAreSound'
  BY <1>1, <1>2, <1>3 DEF TasksInv, TasksTypeOK, RowsAreSound, DraftsAreSound,
     SoundRow, Unanswered, Pinned
<1>6. SnapshotIsSound' /\ DoomIsSound' /\ ActiveIsBacked'
  BY <1>1, <1>2, <1>3 DEF TasksInv, TasksTypeOK, SnapshotIsSound, Settled,
     DoomIsSound, ActiveIsBacked, SoundRow, In
<1>7. QED
  BY <1>4, <1>5, <1>6 DEF TasksInv

\* The service is up again once no row is active any more.
LEMMA ServeInv ==
  ASSUME TasksInv, Serve
  PROVE  TasksInv'
  BY DEF Serve, Interrupted, work, monitor, world, TasksInv, TasksTypeOK,
     RowsAreSound, DraftsAreSound, SnapshotIsSound, Settled, DoomIsSound,
     ActiveIsBacked, SoundRow, Unanswered, Pinned, In, IsNamed

\* Steps of the world take back no success and touch nothing of the process.
LEMMA WorldInv ==
  ASSUME TasksInv, WorldTypeOK', SuccessStays,
         UNCHANGED <<rows, work, deleting, monitor, up, restarts>>
  PROVE  TasksInv'
<1> USE SourceType
<1>1. UNCHANGED <<rows, at, draft, then, deleting, seen, doomed, up, restarts>>
  BY DEF work, monitor
<1>2. TasksTypeOK'
  BY <1>1 DEF TasksInv, TasksTypeOK, WorldTypeOK
<1>3. RowsAreSound' /\ DraftsAreSound'
  BY <1>1 DEF TasksInv, TasksTypeOK, RowsAreSound, DraftsAreSound, SoundRow,
     Unanswered, SuccessStays, Pinned, IsNamed
<1>4. SnapshotIsSound' /\ DoomIsSound' /\ ActiveIsBacked'
  BY <1>1 DEF TasksInv, TasksTypeOK, SnapshotIsSound, Settled, DoomIsSound,
     SoundRow, SuccessStays, ActiveIsBacked, In, IsNamed
<1>5. QED
  BY <1>2, <1>3, <1>4 DEF TasksInv

\* A new version is a number within the bound, for whichever tasks it covers.
LEMMA GrowTypes ==
  ASSUME TasksTypeOK, NEW u \in Named \cup Requests, Grow(u)
  PROVE  /\ data' \in [Named \cup Requests -> 0..MaxVersion]
         /\ fits' \in [Tasks -> SUBSET (1..MaxVersion)]
<1>1. /\ data \in [Named \cup Requests -> 0..MaxVersion]
      /\ fits \in [Tasks -> SUBSET (1..MaxVersion)]
      /\ data[u] < MaxVersion /\ MaxVersion \in Nat
      /\ data' = [data EXCEPT ![u] = @ + 1]
  BY TasksAssumption DEF Grow, TasksTypeOK
<1>2. data[u] + 1 \in 1..MaxVersion
  BY <1>1
<1>3. PICK served \in SUBSET Readers(u) :
        fits' = [t \in Tasks |-> fits[t] \cup
                   IF t \in served THEN {data[u] + 1} ELSE {}]
  BY DEF Grow
<1>4. QED
  BY <1>1, <1>2, <1>3

\* A new data version does not take back what a request was answered with.
LEMMA NewVersionInv ==
  ASSUME TasksInv, NEW u \in Named \cup Requests, NewVersion(u)
  PROVE  TasksInv'
<1>1. WorldTypeOK' /\ SuccessStays
  BY GrowTypes
     DEF NewVersion, TasksInv, TasksTypeOK, WorldTypeOK, SuccessStays
<1>2. QED
  BY <1>1, WorldInv DEF NewVersion

\* Neither does a new research publication.
LEMMA NewResearchInv ==
  ASSUME TasksInv, NEW u \in Named, NewResearch(u)
  PROVE  TasksInv'
<1>1. WorldTypeOK' /\ SuccessStays
  BY DEF NewResearch, TasksInv, TasksTypeOK, WorldTypeOK, SuccessStays
<1>2. QED
  BY <1>1, WorldInv DEF NewResearch

\* What a worker publishes for a request covers what it does and leaves every
\* verdict as it is.
LEMMA PublishForInv ==
  ASSUME TasksInv, NEW r \in Requests, PublishFor(r)
  PROVE  TasksInv'
<1>1. WorldTypeOK' /\ SuccessStays
  BY GrowTypes
     DEF PublishFor, Queue!Publish, TasksInv, TasksTypeOK, WorldTypeOK,
         SuccessStays
<1>2. QED
  BY <1>1, WorldInv DEF PublishFor

\* Only an open request gets a verdict.
LEMMA AnswerInv ==
  ASSUME TasksInv, NEW r \in Requests, Answer(r)
  PROVE  TasksInv'
<1>1. WorldTypeOK' /\ SuccessStays
  BY DEF Answer, Queue!Succeed, Queue!Fail, Queue!Open, Queue!Verdicts,
     TasksInv, TasksTypeOK, WorldTypeOK, SuccessStays
<1>2. QED
  BY <1>1, WorldInv DEF Answer

\* Nor does a session that passes touch a row.
LEMMA ExpireInv ==
  ASSUME TasksInv, NEW t \in Tasks, Expire(t)
  PROVE  TasksInv'
<1>1. WorldTypeOK' /\ SuccessStays
  BY DEF Expire, TasksInv, TasksTypeOK, WorldTypeOK, SuccessStays
<1>2. QED
  BY <1>1, WorldInv DEF Expire

-----------------------------------------------------------------------------
(* The theorems *)

\* No task, no request and no data satisfy the invariant.
LEMMA TasksInitInv == TasksInit => TasksInv
<1> SUFFICES ASSUME TasksInit
             PROVE  TasksInv
  OBVIOUS
<1> USE SourceType, NoRowIsSound, TasksAssumption
<1>1. Nothing \in [task : Tasks \cup {Unseen}, row : Rows]
  BY DEF Nothing, NoRow, Row, Rows, Statuses
<1>2. TasksTypeOK
  <2>1. rows \in [Tasks -> Rows] /\ draft \in [Tasks -> Rows]
    BY DEF TasksInit
  <2>2. QED
    BY <1>1, <2>1 DEF TasksInit, TasksTypeOK, Queue!Init, Queue!Verdicts
<1>3. RowsAreSound /\ DraftsAreSound /\ SnapshotIsSound /\ DoomIsSound
  BY DEF TasksInit, RowsAreSound, DraftsAreSound, SnapshotIsSound, Settled,
     DoomIsSound, Pinned
<1>4. ActiveIsBacked
  BY DEF TasksInit, ActiveIsBacked, In, NoRow, Row
<1>5. QED
  BY <1>2, <1>3, <1>4 DEF TasksInv

\* Every step of the routes, the jobs, the monitor, a restart or the writers
\* keeps it.
LEMMA TasksNextInv == TasksInv /\ [TasksNext]_taskVars => TasksInv'
<1> SUFFICES ASSUME TasksInv, [TasksNext]_taskVars
             PROVE  TasksInv'
  OBVIOUS
<1>1. CASE UNCHANGED taskVars
  <2>1. WorldTypeOK' /\ SuccessStays
    BY <1>1 DEF taskVars, world, TasksInv, TasksTypeOK, WorldTypeOK,
       SuccessStays
  <2>2. QED
    BY <1>1, <2>1, WorldInv DEF taskVars
<1>2. ASSUME NEW t \in Tasks,
             \/ Create(t) \/ Submit(t) \/ CheckDelete(t) \/ Delete(t)
             \/ Start(t) \/ Expire(t)
      PROVE  TasksInv'
  BY <1>2, CreateInv, SubmitInv, CheckDeleteInv, DeleteInv, StartInv,
     ExpireInv
<1>3. ASSUME NEW t \in Tasks, Job(t)
      PROVE  TasksInv'
  BY <1>3, PutInv, PrepareWatchlistInv, PrepareNamedInv, BecomeRunningInv,
     LoadInv, ComposeInv, FinishInv, FailInv DEF Job
<1>4. CASE Monitor
  BY <1>4, PollInv, PutDoomedInv, ResubmitInv, LeaveWaitingInv, DoomInv
     DEF Monitor
<1>5. CASE Crash \/ Restart
  BY <1>5, CrashInv, ServeInv, RecoverInv DEF Restart
<1>6. ASSUME \/ \E u \in Named \cup Requests : NewVersion(u)
             \/ \E u \in Named : NewResearch(u)
      PROVE  TasksInv'
  BY <1>6, NewVersionInv, NewResearchInv
<1>7. ASSUME NEW r \in Requests, PublishFor(r) \/ Answer(r)
      PROVE  TasksInv'
  BY <1>7, PublishForInv, AnswerInv
<1>8. QED
  BY <1>1, <1>2, <1>3, <1>4, <1>5, <1>6, <1>7 DEF TasksNext

\* The inductive invariant holds in every reachable state of every instance of
\* the task store, its runner and its monitor.
THEOREM TasksInvariant == TasksSpec => []TasksInv
  BY TasksInitInv, TasksNextInv, PTL DEF TasksSpec

\* The rows, the jobs, the snapshot of the monitor and the data requests keep
\* their types.
THEOREM TasksTyping == TasksSpec => []TasksTypeOK
  BY TasksInvariant, PTL DEF TasksInv

\* While the service is up, a row that says pending or running has a job: no
\* kill, deletion, late upsert or monitor round leaves one that nobody moves.
THEOREM ActiveRowsAreBacked == TasksSpec => []ActiveIsBacked
  BY TasksInvariant, PTL DEF TasksInv

\* A task runs only on a contract, and no later step gives its row another
\* one, although jobs and monitor both write whole rows they have read before.
THEOREM ContractsAreFrozen == TasksSpec => ContractIsFrozen
<1> DEFINE Frozen ==
      \A t \in Tasks :
        /\ In(t, {"running", "success"}) => rows[t].contract # 0
        /\ rows[t].contract # 0 /\ rows'[t] # NoRow
             => rows'[t].contract = rows[t].contract
<1>1. TasksInv /\ [TasksNext]_taskVars => [Frozen]_taskVars
  <2> SUFFICES ASSUME TasksInv, TasksNext
               PROVE  Frozen
    OBVIOUS
  <2>1. \A t \in Tasks : In(t, {"running", "success"}) => rows[t].contract # 0
    BY DEF TasksInv, RowsAreSound, SoundRow, In
  <2>2. CASE rows' = rows
    BY <2>1, <2>2
  <2>3. ASSUME NEW t \in Tasks, Create(t)
        PROVE  Frozen
    BY <2>1, <2>3 DEF Create, TasksInv, TasksTypeOK, RowsAreSound, NoRow, Row
  <2>4. ASSUME NEW t \in Tasks, Delete(t)
        PROVE  Frozen
    BY <2>1, <2>4 DEF Delete, TasksInv, TasksTypeOK
  <2>5. ASSUME NEW t \in Tasks, Put(t)
        PROVE  Frozen
    BY <2>1, <2>5 DEF Put, TasksInv, TasksTypeOK, DraftsAreSound
  <2>6. CASE PutDoomed
    BY <2>1, <2>6 DEF PutDoomed, TasksInv, TasksTypeOK, DoomIsSound, NoRow, Row
  <2>7. ASSUME NEW t \in Tasks, Recover(t)
        PROVE  Frozen
    BY <2>1, <2>7 DEF Recover, Recovered, TasksInv, TasksTypeOK, Rows
  <2>8. ASSUME NEW t \in Tasks,
               \/ Submit(t) \/ CheckDelete(t) \/ Start(t) \/ Expire(t)
               \/ (Job(t) /\ ~Put(t))
               \/ Resubmit(t) \/ LeaveWaiting(t) \/ Doom(t)
        PROVE  rows' = rows
    BY <2>8 DEF Submit, CheckDelete, Start, Job, PrepareWatchlist,
       PrepareNamed,
       BecomeRunning, Load, Compose, Finish, Fail, Failed, Wait, Pin, Update,
       Expire, Resubmit, LeaveWaiting, Doom
  <2>9. ASSUME \/ Poll \/ Crash \/ Serve
               \/ \E u \in Named \cup Requests : NewVersion(u)
               \/ \E u \in Named : NewResearch(u)
               \/ \E r \in Requests : PublishFor(r) \/ Answer(r)
        PROVE  rows' = rows
    BY <2>9 DEF Poll, Crash, Serve, NewVersion, NewResearch, PublishFor, Answer
  <2>10. QED
    BY <2>2, <2>3, <2>4, <2>5, <2>6, <2>7, <2>8, <2>9
       DEF TasksNext, Job, Monitor, Restart
<1>2. QED
  BY <1>1, TasksInvariant, PTL DEF TasksSpec, ContractIsFrozen
=============================================================================
