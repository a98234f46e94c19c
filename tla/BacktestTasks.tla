---------------------------- MODULE BacktestTasks ----------------------------
(***************************************************************************)
(* Backtest tasks in the Web process (backtest/runner.py, backtest/store.py*)
(* and the routes and the lifespan of webapp/): the request handlers that  *)
(* create and delete tasks, the thread pool that runs them, the monitor    *)
(* that resubmits the ones that wait for data, and the recovery after a    *)
(* restart.  They share the task rows, and update_task is not atomic: it   *)
(* reads a row in one transaction and upserts the whole of it in another.  *)
(*                                                                         *)
(* A watchlist task reads the data its own request makes the worker        *)
(* publish (DataRequests); a named one reads the versions of its universe  *)
(* and the factor research that is published for them.  Versions are       *)
(* numbered; a contract is the number of the version it pins, 0 is none.   *)
(* Whether a version passes the preflight of a task depends on what it     *)
(* holds (sessions, tickers, length of the history), so each publication   *)
(* covers whichever tasks it does, the one it was made for included or not.*)
(***************************************************************************)
EXTENDS Naturals, FiniteSets

CONSTANTS
  Tasks,
  Named,        \* named universes
  Requests,     \* request keys, each with a data universe of its own
  Source,       \* [Tasks -> Named \cup Requests]
  MaxVersion,   \* bound on the versions of a universe
  PoolSize,     \* thread_pool_workers
  MaxRestarts,  \* bound on the restarts of the Web process
  NoRequest,
  Unseen        \* not in the monitor's snapshot

ASSUME TasksAssumption ==
  /\ Named \cap Requests = {}
  /\ Source \in [Tasks -> Named \cup Requests]
  /\ MaxVersion \in Nat /\ PoolSize \in Nat \ {0} /\ MaxRestarts \in Nat
  /\ {NoRequest, Unseen} \cap Requests = {} /\ NoRequest # Unseen

VARIABLES
  rows,       \* [Tasks -> Rows], the backtest records
  at,         \* [Tasks -> where the job of the task is], "none" without one
  draft,      \* [Tasks -> Rows], the row update_task is about to upsert
  then,       \* [Tasks -> where the job goes after the upsert]
  deleting,   \* tasks whose DELETE has passed its check
  seen,       \* [Tasks -> data_request_id], the waiting tasks of the snapshot
  doomed,     \* [task, row] the monitor is about to fail, or Nothing
  up,         \* the Web process serves requests
  restarts,
  verdict, published,  \* the data requests
  data,       \* [Named \cup Requests -> Nat], the latest published version
  research,   \* [Named -> Nat], the version the factor research is made from
  fits        \* [Tasks -> set of versions that pass the task's preflight]

work    == <<at, draft, then>>
monitor == <<seen, doomed>>
world   == <<verdict, published, data, research, fits>>
taskVars == <<rows, work, deleting, monitor, up, restarts, world>>

Queue == INSTANCE DataRequests

Row(status, request, contract) ==
  [status |-> status, request |-> request, contract |-> contract]
NoRow == Row("absent", NoRequest, 0)
Nothing == [task |-> Unseen, row |-> NoRow]

Exists(t) == rows[t] # NoRow
In(t, statuses) == rows[t].status \in statuses
IsNamed(t) == Source[t] \in Named

-----------------------------------------------------------------------------
(* Creating and deleting a task *)

\* create_task: the row is there before the job is submitted.
Create(t) ==
  /\ up /\ at[t] = "new"
  /\ rows' = [rows EXCEPT ![t] = Row("pending", NoRequest, 0)]
  /\ at' = [at EXCEPT ![t] = "created"]
  /\ UNCHANGED <<draft, then, deleting, monitor, up, restarts, world>>

\* BacktestRunner.submit from the route.
Submit(t) ==
  /\ at[t] = "created"
  /\ at' = [at EXCEPT ![t] = "queued"]
  /\ UNCHANGED <<rows, draft, then, deleting, monitor, up, restarts, world>>

\* api_delete_backtest: the check and the deletion are two transactions.
CheckDelete(t) ==
  /\ up /\ Exists(t) /\ t \notin deleting
  /\ ~In(t, {"pending", "running"})
  /\ deleting' = deleting \cup {t}
  /\ UNCHANGED <<rows, work, monitor, up, restarts, world>>

Delete(t) ==
  /\ t \in deleting
  /\ rows' = [rows EXCEPT ![t] = NoRow]
  /\ deleting' = deleting \ {t}
  /\ UNCHANGED <<work, monitor, up, restarts, world>>

-----------------------------------------------------------------------------
(* The job of a task: _run_task_safely in a thread of the pool *)

Waiting == {"none", "new", "created", "queued"}
Running == {t \in Tasks : at[t] \notin Waiting}

Start(t) ==
  /\ at[t] = "queued"
  /\ Cardinality(Running) < PoolSize
  /\ at' = [at EXCEPT ![t] = "preparing"]
  /\ UNCHANGED <<rows, draft, then, deleting, monitor, up, restarts, world>>

\* The load of update_task; a row that is gone ends the job.
Update(t, row, next) ==
  /\ at' = [at EXCEPT ![t] = IF Exists(t) THEN "putting" ELSE "none"]
  /\ draft' = [draft EXCEPT ![t] = IF Exists(t) THEN row ELSE NoRow]
  /\ then' = [then EXCEPT ![t] = IF Exists(t) THEN next ELSE "none"]
  /\ UNCHANGED <<rows, deleting, monitor, up, restarts>>

\* The upsert of update_task.
Put(t) ==
  /\ at[t] = "putting"
  /\ rows' = [rows EXCEPT ![t] = draft[t]]
  /\ at' = [at EXCEPT ![t] = then[t]]
  /\ draft' = [draft EXCEPT ![t] = NoRow]
  /\ then' = [then EXCEPT ![t] = "none"]
  /\ UNCHANGED <<deleting, monitor, up, restarts, world>>

\* The handlers of _run_task_safely.
Wait(t, request) ==
  Update(t, Row("waiting", request, rows[t].contract), "none")
Failed(t) == Update(t, [rows[t] EXCEPT !.status = "failed"], "none")

\* Mutant of Version: the latest version, whatever the task has pinned.
LatestVersion(t) == data[Source[t]]
\* A pinned version is read again; without one the latest is.
Version(t) == IF rows[t].contract # 0 THEN rows[t].contract
              ELSE data[Source[t]]

Covers(t, v) == v \in fits[t]

Pin(t) == Update(t, Row(rows[t].status, NoRequest, Version(t)), "starting")

\* A row that is gone ends the job (Fail).
PrepareWatchlist(t) ==
  /\ at[t] = "preparing" /\ ~IsNamed(t) /\ Exists(t)
  /\ IF Covers(t, Version(t))
       THEN Pin(t) /\ UNCHANGED world
       ELSE /\ Queue!Ask(Source[t])
            /\ Wait(t, Source[t])
            /\ UNCHANGED <<data, research, fits>>

\* Without a contract only the identities are resolved, not the coverage.
PrepareNamed(t) ==
  /\ at[t] = "preparing" /\ IsNamed(t) /\ Exists(t) /\ Version(t) # 0
  /\ IF /\ research[Source[t]] = Version(t)
        /\ rows[t].contract # 0 => Covers(t, Version(t))
       THEN Pin(t)
       ELSE Wait(t, NoRequest)
  /\ UNCHANGED world

BecomeRunning(t) ==
  /\ at[t] = "starting"
  /\ Update(t, [rows[t] EXCEPT !.status = "running"], "loading")
  /\ UNCHANGED world

\* load_published_bundle with the contract of the row: an immutable version,
\* but a session may have passed since it was pinned, and the research
\* published for it may be another one by now.  Here nothing is requested.
Load(t) ==
  /\ at[t] = "loading"
  /\ Exists(t)
  /\ IF \/ ~Covers(t, rows[t].contract)
        \/ IsNamed(t) /\ research[Source[t]] # rows[t].contract
       THEN Wait(t, NoRequest)
       ELSE /\ at' = [at EXCEPT ![t] = "composing"]
            /\ UNCHANGED <<rows, draft, then, deleting, monitor, up, restarts>>
  /\ UNCHANGED world

\* Composition refuses research that has been replaced; then the diagnostics
\* of the plan are written into the row.
Compose(t) ==
  /\ at[t] = "composing"
  /\ IF IsNamed(t) /\ research[Source[t]] # rows[t].contract
       THEN Failed(t)
       ELSE Update(t, rows[t], "computing")
  /\ UNCHANGED world

Finish(t) ==
  /\ at[t] = "computing"
  /\ Update(t, [rows[t] EXCEPT !.status = "success"], "none")
  /\ UNCHANGED world

\* Any other exception, at any point.
Fail(t) ==
  /\ at[t] \in {"preparing", "starting", "loading", "composing", "computing"}
  /\ Failed(t)
  /\ UNCHANGED world

-----------------------------------------------------------------------------
(* The monitor: reconcile_waiting *)

Idle == \A t \in Tasks : seen[t] = Unseen

Poll ==
  /\ up /\ Idle /\ doomed = Nothing
  /\ seen' = [t \in Tasks |-> IF In(t, {"waiting"}) THEN rows[t].request
                              ELSE Unseen]
  /\ UNCHANGED <<rows, work, deleting, doomed, up, restarts, world>>

\* Mutant of Doomed: a failed request does not fail its tasks.
NeverDoomed(r) == FALSE
Doomed(r) == r # NoRequest /\ verdict[r] \in {"failed", "absent"}
Ready(r) == r \in {NoRequest} \cup {q \in Requests : verdict[q] = "success"}

Visited(t) == seen' = [seen EXCEPT ![t] = Unseen]

\* submit(): not while the future of the task is not done.
Resubmit(t) ==
  /\ doomed = Nothing
  /\ seen[t] # Unseen /\ ~Doomed(seen[t]) /\ Ready(seen[t])
  /\ Visited(t)
  /\ at' = [at EXCEPT ![t] = IF @ = "none" THEN "queued" ELSE @]
  /\ UNCHANGED <<rows, draft, then, deleting, doomed, up, restarts, world>>

LeaveWaiting(t) ==
  /\ doomed = Nothing
  /\ seen[t] # Unseen /\ ~Doomed(seen[t]) /\ ~Ready(seen[t])
  /\ Visited(t)
  /\ UNCHANGED <<rows, work, deleting, doomed, up, restarts, world>>

\* update_task raises when the row is gone, and the round ends.
Doom(t) ==
  /\ doomed = Nothing
  /\ seen[t] # Unseen /\ Doomed(seen[t])
  /\ IF Exists(t)
       THEN /\ doomed' = [task |-> t,
                          row  |-> [rows[t] EXCEPT !.status = "failed"]]
            /\ Visited(t)
       ELSE /\ seen' = [u \in Tasks |-> Unseen]
            /\ UNCHANGED doomed
  /\ UNCHANGED <<rows, work, deleting, up, restarts, world>>

PutDoomed ==
  /\ doomed # Nothing
  /\ rows' = [rows EXCEPT ![doomed.task] = doomed.row]
  /\ doomed' = Nothing
  /\ UNCHANGED <<work, deleting, seen, up, restarts, world>>

-----------------------------------------------------------------------------
(* Restarting the Web process *)

Crash ==
  /\ up /\ restarts < MaxRestarts
  /\ restarts' = restarts + 1
  /\ up' = FALSE
  /\ at' = [t \in Tasks |-> IF at[t] = "new" THEN "new" ELSE "none"]
  /\ draft' = [t \in Tasks |-> NoRow]
  /\ then' = [t \in Tasks |-> "none"]
  /\ deleting' = {}
  /\ seen' = [t \in Tasks |-> Unseen]
  /\ doomed' = Nothing
  /\ UNCHANGED <<rows, world>>

\* Mutant of Interrupted: only what was running.
InterruptedRunning(t) == In(t, {"running"})
Interrupted(t) == In(t, {"pending", "running"})

\* Mutant of Recovered: a status of its own.
RecoveredAsInterrupted(t) == [rows[t] EXCEPT !.status = "interrupted"]
Recovered(t) == [rows[t] EXCEPT !.status = "failed"]

\* startup_recovery, task by task, before anything else runs.  The lifespan
\* only logs an error of it; that the store fails is not modelled.
Recover(t) ==
  /\ ~up /\ Interrupted(t)
  /\ rows' = [rows EXCEPT ![t] = Recovered(t)]
  /\ UNCHANGED <<work, deleting, monitor, up, restarts, world>>

Serve ==
  /\ ~up /\ \A t \in Tasks : ~Interrupted(t)
  /\ up' = TRUE
  /\ UNCHANGED <<rows, work, deleting, monitor, restarts, world>>

-----------------------------------------------------------------------------
(* The writers of the data *)

Readers(u) == {t \in Tasks : Source[t] = u}

Grow(u) ==
  /\ data[u] < MaxVersion
  /\ data' = [data EXCEPT ![u] = @ + 1]
  /\ \E served \in SUBSET Readers(u) :
       fits' = [t \in Tasks |-> fits[t] \cup
                  IF t \in served THEN {data[u] + 1} ELSE {}]

\* The nightly pipeline, or a request with another key (other dates, a paper
\* account) for the same watchlist.
NewVersion(u) ==
  /\ Grow(u)
  /\ UNCHANGED <<rows, work, deleting, monitor, up, restarts, verdict,
                 published, research>>

NewResearch(u) ==
  /\ research[u] # data[u]
  /\ research' = [research EXCEPT ![u] = data[u]]
  /\ UNCHANGED <<rows, work, deleting, monitor, up, restarts, verdict,
                 published, data, fits>>

\* One attempt at a request publishes a version; at the bound it repeats the
\* latest one.
PublishFor(r) ==
  /\ Queue!Publish(r)
  /\ \/ Grow(r)
     \/ data[r] = MaxVersion /\ UNCHANGED <<data, fits>>
  /\ UNCHANGED <<rows, work, deleting, monitor, up, restarts, research>>

Answer(r) ==
  /\ Queue!Succeed(r) \/ Queue!Fail({r})
  /\ UNCHANGED <<rows, work, deleting, monitor, up, restarts, data, research,
                 fits>>

\* A session passes that a task with a later end expects: every version
\* published so far is now too old for it.
Expire(t) ==
  /\ fits[t] # {}
  /\ fits' = [fits EXCEPT ![t] = {}]
  /\ UNCHANGED <<rows, work, deleting, monitor, up, restarts, verdict,
                 published, data, research>>

-----------------------------------------------------------------------------
\* Some tasks are never created, and the universes may have versions already.
TasksInit ==
  /\ rows = [t \in Tasks |-> NoRow]
  /\ at \in [Tasks -> {"new", "none"}]
  /\ draft = [t \in Tasks |-> NoRow]
  /\ then = [t \in Tasks |-> "none"]
  /\ deleting = {}
  /\ seen = [t \in Tasks |-> Unseen]
  /\ doomed = Nothing
  /\ up = TRUE /\ restarts \in 0..MaxRestarts
  /\ Queue!Init
  /\ data \in [Named \cup Requests -> 0..MaxVersion]
  /\ research = [u \in Named |-> 0]
  /\ fits \in [Tasks -> SUBSET (1..MaxVersion)]
  /\ \A t \in Tasks : fits[t] \subseteq 1..data[Source[t]]

Job(t) ==
  \/ Put(t) \/ PrepareWatchlist(t) \/ PrepareNamed(t) \/ BecomeRunning(t)
  \/ Load(t) \/ Compose(t) \/ Finish(t) \/ Fail(t)

Monitor ==
  \/ Poll \/ PutDoomed
  \/ \E t \in Tasks : Resubmit(t) \/ LeaveWaiting(t) \/ Doom(t)

Restart == Serve \/ \E t \in Tasks : Recover(t)

TasksNext ==
  \/ \E t \in Tasks : \/ Create(t) \/ Submit(t) \/ CheckDelete(t) \/ Delete(t)
                      \/ Start(t) \/ Job(t) \/ Expire(t)
  \/ Monitor \/ Crash \/ Restart
  \/ \E u \in Named \cup Requests : NewVersion(u)
  \/ \E u \in Named : NewResearch(u)
  \/ \E r \in Requests : PublishFor(r) \/ Answer(r)

\* Threads run on, the pool is first in first out, the monitor polls for ever,
\* systemd restarts the service, and every data request gets a verdict
\* (EveryRequestSettles of DataRequestQueue).
TasksFairness ==
  /\ \A t \in Tasks : /\ WF_taskVars(Submit(t))
                      /\ SF_taskVars(Start(t))
                      /\ WF_taskVars(Job(t))
  /\ WF_taskVars(Monitor)
  /\ WF_taskVars(Restart)
  /\ \A r \in Requests : WF_taskVars(Answer(r))

TasksSpec == TasksInit /\ [][TasksNext]_taskVars /\ TasksFairness

-----------------------------------------------------------------------------
(* Properties *)

Statuses == {"absent", "pending", "waiting", "running", "success", "failed"}
Rows == [status : Statuses, request : Requests \cup {NoRequest},
         contract : 0..MaxVersion]

\* Rows, jobs, the monitor's snapshot and the requests have their types, and a
\* row that says it runs or has succeeded says on which data.
TasksTypeOK ==
  /\ rows \in [Tasks -> Rows] /\ draft \in [Tasks -> Rows]
  /\ at \in [Tasks -> {"new", "created", "queued", "preparing", "putting",
                       "starting", "loading", "composing", "computing",
                       "none"}]
  /\ then \in [Tasks -> {"none", "starting", "loading", "computing"}]
  /\ deleting \subseteq Tasks
  /\ seen \in [Tasks -> Requests \cup {NoRequest, Unseen}]
  /\ doomed \in [task : Tasks \cup {Unseen}, row : Rows]
  /\ up \in BOOLEAN /\ restarts \in 0..MaxRestarts
  /\ verdict \in [Requests -> Queue!Verdicts] /\ published \subseteq Requests
  /\ data \in [Named \cup Requests -> 0..MaxVersion]
  /\ research \in [Named -> 0..MaxVersion]
  /\ fits \in [Tasks -> SUBSET (1..MaxVersion)]

\* A task that claims to be pending or running has a job that will move it on,
\* after every restart and every race: nothing else ever looks at such a row
\* (the monitor only knows waiting tasks, and the route refuses to delete it).
ActiveIsBacked ==
  \A t \in Tasks : up /\ In(t, {"pending", "running"}) => at[t] # "none"

\* research_universe_redesign_implementation.md: the contract is frozen before
\* the task runs, and however often it is resubmitted it never changes.
ContractIsFrozen ==
  [][\A t \in Tasks :
       /\ In(t, {"running", "success"}) => rows[t].contract # 0
       /\ rows[t].contract # 0 /\ rows'[t] # NoRow
            => rows'[t].contract = rows[t].contract]_taskVars

\* The request of the task has succeeded, and the version the task would read
\* does not pass its preflight.
Unserved(t) ==
  verdict[Source[t]] = "success" /\ ~Covers(t, Version(t))

\* A watchlist task hangs for one reason only.  A request that succeeded is
\* never opened again, so a task that is still not covered then, or no longer,
\* waits and is resubmitted round after round.  Unless it stays so for good or
\* comes back again and again, the task ends or is deleted, whatever becomes
\* of its request, of the Web process and of the tasks around it.
WatchlistSettles ==
  \A t \in Tasks : ~IsNamed(t) /\ <>[]~Unserved(t) =>
    (Exists(t) ~> ~Exists(t) \/ In(t, {"success", "failed"}))

\* routes_v2.py: "a running backtest cannot be deleted, wait for its end".
RunningIsNotDeleted ==
  [][\A t \in Tasks :
       In(t, {"pending", "running"}) => rows'[t] # NoRow]_taskVars

\* access.py: a consumer that is not ready "cannot run until the centralized
\* writer publishes data".  If so, once data that cover a named task and the
\* research made from them are published for good, it does not wait for ever.
Published(t) ==
  Covers(t, data[Source[t]]) /\ research[Source[t]] = data[Source[t]]
PublishedDataUnblocks ==
  \A t \in Tasks : IsNamed(t) /\ <>[]Published(t) =>
    (In(t, {"waiting"}) ~> ~In(t, {"waiting"}))
=============================================================================
