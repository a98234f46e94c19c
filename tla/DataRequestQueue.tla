-------------------------- MODULE DataRequestQueue --------------------------
(***************************************************************************)
(* The queue of market-data requests (storage/app_db.py) and the one-shot  *)
(* workers that serve it (data/request_worker.py).  A consumer that finds  *)
(* no usable published data enqueues a request; a worker recovers what an  *)
(* earlier worker abandoned, claims a batch and lets the market data       *)
(* writer publish a version for each of its requests in turn.              *)
(*                                                                         *)
(* Each queue operation is one SQLite transaction, hence one action.  No   *)
(* row says which worker holds it: a claim is held in the memory of the    *)
(* worker, and given up only by age.                                       *)
(***************************************************************************)
EXTENDS Naturals, FiniteSets, FiniteSetsExt

CONSTANTS
  Requests,     \* request rows, named by request_key
  Workers,      \* worker processes that may run at the same time
  MaxAttempts,  \* max_attempts of the retry cap
  ClaimLimit,   \* --limit: requests claimed at once
  MaxKills,     \* bound on the kills of workers
  NoRequest

ASSUME QueueAssumption ==
  /\ MaxAttempts \in Nat \ {0}
  /\ ClaimLimit \in Nat \ {0}
  /\ MaxKills \in Nat
  /\ NoRequest \notin Requests

Statuses == {"ABSENT", "PENDING", "RUNNING", "SUCCESS", "FAILED"}
Terminal == {"SUCCESS", "FAILED"}

VARIABLES
  status,     \* [Requests -> Statuses], "ABSENT" when there is no row
  attempts,   \* [Requests -> Nat]
  aged,       \* requests whose started_at is older than the stale cutoff
  pc,         \* [Workers -> phase of the process]
  batch,      \* [Workers -> SUBSET Requests], claimed and not yet served
  current,    \* [Workers -> Requests \cup {NoRequest}], being served
  published,  \* requests for which a version has been published
  tried,      \* requests the writer has been asked for
  kills       \* kills so far

rows == <<status, attempts, aged>>
process == <<pc, batch, current>>
queueVars == <<rows, process, published, tried, kills>>

In(s) == {r \in Requests : status[r] = s}

-----------------------------------------------------------------------------
(* Consumers *)

\* Mutant of Reopened: a consumer reopens every failed request.
ReopenedAlways == In("FAILED")
\* A failed row is reopened only while it has attempts left.
Reopened == {r \in In("FAILED") : attempts[r] < MaxAttempts}

\* enqueue_data_request: one row per request key; a row that is neither new
\* nor reopened is returned as it is.
Enqueue(r) ==
  /\ r \in In("ABSENT") \cup Reopened
  /\ status' = [status EXCEPT ![r] = "PENDING"]
  /\ UNCHANGED <<attempts, aged, process, published, tried, kills>>

\* Time passes: a running request reaches the stale cutoff.
GrowOld(r) ==
  /\ status[r] = "RUNNING"
  /\ r \notin aged
  /\ aged' = aged \cup {r}
  /\ UNCHANGED <<status, attempts, process, published, tried, kills>>

-----------------------------------------------------------------------------
(* Workers *)

\* Mutant of Stale: the last attempt is not recovered.
StaleWithAttempts ==
  {r \in In("RUNNING") \cap aged : attempts[r] < MaxAttempts}
\* recover_stale_data_requests: what has run for too long is requeued, or
\* fails when it has no attempts left.
Stale == In("RUNNING") \cap aged
\* Mutant of AfterRecovery: a status of its own.
AfterRecoveryTimedOut(r) ==
  IF attempts[r] >= MaxAttempts THEN "TIMED_OUT" ELSE "PENDING"
AfterRecovery(r) == IF attempts[r] >= MaxAttempts THEN "FAILED" ELSE "PENDING"

Recover(w) ==
  /\ pc[w] = "idle"
  /\ pc' = [pc EXCEPT ![w] = "recovered"]
  /\ status' = [r \in Requests |->
                  IF r \in Stale THEN AfterRecovery(r) ELSE status[r]]
  /\ UNCHANGED <<attempts, aged, batch, current, published, tried, kills>>

\* The transaction of claim_data_requests.  It takes the oldest rows; no
\* property depends on which, so the choice is left open.
ClaimSize == Min({ClaimLimit, Cardinality(In("PENDING"))})

ClaimBatch(w) ==
  /\ pc[w] = "recovered"
  /\ \E claimed \in SUBSET In("PENDING") :
       /\ Cardinality(claimed) = ClaimSize
       /\ status' = [r \in Requests |->
                       IF r \in claimed THEN "RUNNING" ELSE status[r]]
       /\ attempts' = [r \in Requests |->
                         IF r \in claimed THEN attempts[r] + 1
                         ELSE attempts[r]]
       /\ aged' = aged \ claimed
       /\ batch' = [batch EXCEPT ![w] = claimed]
  /\ pc' = [pc EXCEPT ![w] = "serving"]
  /\ UNCHANGED <<current, published, tried, kills>>

\* process_data_request: ask the writer for the next request of the batch.
Serve(w) ==
  /\ pc[w] = "serving"
  /\ \E r \in batch[w] :
       /\ current' = [current EXCEPT ![w] = r]
       /\ batch' = [batch EXCEPT ![w] = @ \ {r}]
       /\ tried' = tried \cup {r}
  /\ pc' = [pc EXCEPT ![w] = "writing"]
  /\ UNCHANGED <<rows, published, kills>>

\* update_universe returns: a new immutable version is published.
Publish(w) ==
  /\ pc[w] = "writing"
  /\ pc' = [pc EXCEPT ![w] = "published"]
  /\ published' = published \cup {current[w]}
  /\ UNCHANGED <<rows, batch, current, tried, kills>>

Served(w) ==
  /\ pc' = [pc EXCEPT ![w] = "serving"]
  /\ current' = [current EXCEPT ![w] = NoRequest]
  /\ UNCHANGED <<batch, published, tried, kills>>

\* Mutant of Finish: success is recorded before the version is published.
FinishFirst(w) ==
  /\ pc[w] \in {"writing", "published"}
  /\ status' = [status EXCEPT ![current[w]] = "SUCCESS"]
  /\ UNCHANGED <<attempts, aged>>
  /\ Served(w)

\* finish_data_request: the row is updated whatever its status is by now.
Finish(w) ==
  /\ pc[w] = "published"
  /\ status' = [status EXCEPT ![current[w]] = "SUCCESS"]
  /\ UNCHANGED <<attempts, aged>>
  /\ Served(w)

\* retry_or_fail_data_request after any exception: the data are refused or
\* unavailable, or only the update of the row has failed.  It, too, updates
\* the row whatever its status is by now.
RetryOrFail(w) ==
  /\ pc[w] \in {"writing", "published"}
  /\ status' = [status EXCEPT ![current[w]] = AfterRecovery(current[w])]
  /\ UNCHANGED <<attempts, aged>>
  /\ Served(w)

Stop(w) ==
  /\ pc' = [pc EXCEPT ![w] = "idle"]
  /\ batch' = [batch EXCEPT ![w] = {}]
  /\ current' = [current EXCEPT ![w] = NoRequest]
  /\ UNCHANGED <<rows, published, tried>>

Done(w) ==
  /\ pc[w] = "serving"
  /\ batch[w] = {}
  /\ Stop(w)
  /\ UNCHANGED kills

\* The process is killed (TimeoutStartSec, OOM, reboot) with its claims.
Kill(w) ==
  /\ pc[w] # "idle"
  /\ kills < MaxKills
  /\ kills' = kills + 1
  /\ Stop(w)

-----------------------------------------------------------------------------
QueueInit ==
  /\ status = [r \in Requests |-> "ABSENT"]
  /\ attempts = [r \in Requests |-> 0]
  /\ aged = {}
  /\ pc = [w \in Workers |-> "idle"]
  /\ batch = [w \in Workers |-> {}]
  /\ current = [w \in Workers |-> NoRequest]
  /\ published = {} /\ tried = {}
  /\ kills = 0

Work(w) ==
  \/ Recover(w) \/ ClaimBatch(w)
  \/ Serve(w) \/ Publish(w) \/ Finish(w) \/ RetryOrFail(w) \/ Done(w)

QueueNext ==
  \/ \E r \in Requests : Enqueue(r) \/ GrowOld(r)
  \/ \E w \in Workers : Work(w) \/ Kill(w)

\* The timer starts a worker again and again, a started worker runs on, and
\* time passes.
QueueFairness ==
  /\ \A w \in Workers : WF_queueVars(Work(w))
  /\ \A r \in Requests : WF_queueVars(GrowOld(r))

QueueSpec == QueueInit /\ [][QueueNext]_queueVars /\ QueueFairness

-----------------------------------------------------------------------------
(* The promise this queue implements *)

Verdict(r) ==
  CASE status[r] = "ABSENT"  -> "absent"
    [] status[r] = "SUCCESS" -> "success"
    [] status[r] = "FAILED"  -> "failed"
    [] OTHER                 -> "open"

Promise == INSTANCE DataRequests WITH
             verdict <- [r \in Requests |-> Verdict(r)]

-----------------------------------------------------------------------------
(* Properties *)

\* The rows and the workers have the types of the table data_requests and of
\* the lists of request_worker.py.
QueueTypeOK ==
  /\ status \in [Requests -> Statuses]
  /\ attempts \in [Requests -> Nat]
  /\ aged \subseteq Requests
  /\ pc \in [Workers ->
               {"idle", "recovered", "serving", "writing", "published"}]
  /\ batch \in [Workers -> SUBSET Requests]
  /\ current \in [Workers -> Requests \cup {NoRequest}]
  /\ published \subseteq Requests /\ tried \subseteq Requests
  /\ kills \in Nat

\* The retry cap holds through claims, kills and recoveries, and nobody waits
\* in the queue without an attempt left: the next claim is within the cap.
AttemptsCapped ==
  \A r \in Requests :
    /\ attempts[r] <= MaxAttempts
    /\ status[r] = "PENDING" => attempts[r] < MaxAttempts

\* unified_data_storage.md: a version is published before the request becomes
\* success, and a request fails only at the retry limit.
VerdictsAreEarned ==
  /\ In("SUCCESS") \subseteq published
  /\ \A r \in In("FAILED") : attempts[r] = MaxAttempts

\* With one worker process at a time the queue keeps the promise its consumers
\* rely on: however requests are requeued, recovered and retried, success comes
\* after publication and a verdict is never taken back.
QueuePromise == Promise!Spec

\* Every request that is ever enqueued reaches a verdict, however often its
\* worker is killed.
EveryRequestSettles ==
  \A r \in Requests : status[r] = "PENDING" ~> status[r] \in Terminal
=============================================================================
