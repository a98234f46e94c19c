----------------------- MODULE DataRequestQueueProofs -----------------------
(***************************************************************************)
(* DataRequestQueue for every set of requests, every retry cap and claim   *)
(* limit.  For any number of worker processes at a time: type correctness, *)
(* the retry cap and earned verdicts.  For one worker at a time, as the    *)
(* systemd unit runs it: the queue implements DataRequests.                *)
(***************************************************************************)
EXTENDS DataRequestQueue, TLAPS

\* A row that does not exist has not been tried.
AbsentIsUntried == \A r \in In("ABSENT") : attempts[r] = 0

\* A worker in the middle of a request knows which, and has a published
\* version once the writer has returned.
ServingIsKnown ==
  \A w \in Workers :
    /\ pc[w] \in {"writing", "published"} => current[w] \in Requests
    /\ pc[w] = "published" => current[w] \in published

\* The inductive invariant, for any number of workers.
QueueInv ==
  /\ QueueTypeOK
  /\ AbsentIsUntried
  /\ AttemptsCapped
  /\ ServingIsKnown
  /\ VerdictsAreEarned

-----------------------------------------------------------------------------
\* The empty table satisfies the invariant.
LEMMA QueueInitInv == QueueInit => QueueInv
  BY QueueAssumption
     DEF QueueInit, QueueInv, QueueTypeOK, AbsentIsUntried, AttemptsCapped,
         ServingIsKnown, VerdictsAreEarned, In, Statuses

\* A new row has not been tried, and a reopened one has an attempt left.
LEMMA EnqueueInv ==
  ASSUME QueueInv, NEW r \in Requests, Enqueue(r)
  PROVE  QueueInv'
  BY QueueAssumption
     DEF Enqueue, Reopened, process, QueueInv, QueueTypeOK, AbsentIsUntried,
         AttemptsCapped, ServingIsKnown, VerdictsAreEarned, In, Statuses

\* Age is not part of the invariant.
LEMMA GrowOldInv ==
  ASSUME QueueInv, NEW r \in Requests, GrowOld(r)
  PROVE  QueueInv'
  BY DEF GrowOld, process, QueueInv, QueueTypeOK, AbsentIsUntried,
         AttemptsCapped, ServingIsKnown, VerdictsAreEarned, In

\* A stale request is requeued with an attempt left, or fails at the cap.
LEMMA RecoverInv ==
  ASSUME QueueInv, NEW w \in Workers, Recover(w)
  PROVE  QueueInv'
  BY QueueAssumption
     DEF Recover, AfterRecovery, Stale, QueueInv, QueueTypeOK, AbsentIsUntried,
         AttemptsCapped, ServingIsKnown, VerdictsAreEarned, In, Statuses

\* A pending request has an attempt left for the claim to count.
LEMMA ClaimBatchInv ==
  ASSUME QueueInv, NEW w \in Workers, ClaimBatch(w)
  PROVE  QueueInv'
<1> PICK claimed \in SUBSET In("PENDING") :
      /\ status' = [r \in Requests |->
                      IF r \in claimed THEN "RUNNING" ELSE status[r]]
      /\ attempts' = [r \in Requests |->
                        IF r \in claimed THEN attempts[r] + 1
                        ELSE attempts[r]]
      /\ aged' = aged \ claimed
      /\ batch' = [batch EXCEPT ![w] = claimed]
  BY DEF ClaimBatch
<1>1. /\ claimed \subseteq Requests
      /\ \A r \in claimed : status[r] = "PENDING"
  BY DEF In
<1>2. /\ pc' = [pc EXCEPT ![w] = "serving"]
      /\ UNCHANGED <<current, published, tried, kills>>
  BY DEF ClaimBatch
<1>3. QueueTypeOK'
  BY <1>1, <1>2 DEF QueueInv, QueueTypeOK, Statuses
<1>4. AbsentIsUntried' /\ AttemptsCapped'
  BY <1>1, QueueAssumption
     DEF QueueInv, QueueTypeOK, AbsentIsUntried, AttemptsCapped, In
<1>5. ServingIsKnown'
  BY <1>2 DEF QueueInv, QueueTypeOK, ServingIsKnown
<1>6. VerdictsAreEarned'
  BY <1>1, <1>2 DEF QueueInv, QueueTypeOK, VerdictsAreEarned, In
<1> QED
  BY <1>3, <1>4, <1>5, <1>6 DEF QueueInv

\* The served request comes from the batch.
LEMMA ServeInv ==
  ASSUME QueueInv, NEW w \in Workers, Serve(w)
  PROVE  QueueInv'
  BY DEF Serve, rows, QueueInv, QueueTypeOK, AbsentIsUntried,
         AttemptsCapped, ServingIsKnown, VerdictsAreEarned, In

\* Publication is what the worker then knows of.
LEMMA PublishInv ==
  ASSUME QueueInv, NEW w \in Workers, Publish(w)
  PROVE  QueueInv'
  BY DEF Publish, rows, QueueInv, QueueTypeOK, AbsentIsUntried,
         AttemptsCapped, ServingIsKnown, VerdictsAreEarned, In

\* Success is recorded for what has been published.
LEMMA FinishInv ==
  ASSUME QueueInv, NEW w \in Workers, Finish(w)
  PROVE  QueueInv'
  BY DEF Finish, Served, QueueInv, QueueTypeOK, AbsentIsUntried,
         AttemptsCapped, ServingIsKnown, VerdictsAreEarned, In, Statuses

\* Whatever the status of the row by now, it is requeued only with an attempt
\* left and fails only at the cap.
LEMMA RetryOrFailInv ==
  ASSUME QueueInv, NEW w \in Workers, RetryOrFail(w)
  PROVE  QueueInv'
  BY QueueAssumption
     DEF RetryOrFail, Served, AfterRecovery, QueueInv, QueueTypeOK,
         AbsentIsUntried, AttemptsCapped, ServingIsKnown, VerdictsAreEarned,
         In, Statuses

\* A worker that ends or is killed leaves the rows alone.
LEMMA StopInv ==
  ASSUME QueueInv, NEW w \in Workers, Done(w) \/ Kill(w)
  PROVE  QueueInv'
  BY QueueAssumption
     DEF Done, Kill, Stop, rows, QueueInv, QueueTypeOK, AbsentIsUntried,
         AttemptsCapped, ServingIsKnown, VerdictsAreEarned, In

\* Nothing changes in a stuttering step.
LEMMA QueueStutterInv == QueueInv /\ UNCHANGED queueVars => QueueInv'
  BY DEF queueVars, rows, process, QueueInv, QueueTypeOK, AbsentIsUntried,
         AttemptsCapped, ServingIsKnown, VerdictsAreEarned, In

\* Every step of any number of workers keeps the invariant.
LEMMA QueueNextInv == QueueInv /\ [QueueNext]_queueVars => QueueInv'
<1> SUFFICES ASSUME QueueInv, [QueueNext]_queueVars
             PROVE  QueueInv'
  OBVIOUS
<1>1. CASE UNCHANGED queueVars
  BY <1>1, QueueStutterInv
<1>2. ASSUME NEW r \in Requests, Enqueue(r) \/ GrowOld(r)
      PROVE  QueueInv'
  BY <1>2, EnqueueInv, GrowOldInv
<1>3. ASSUME NEW w \in Workers, Work(w) \/ Kill(w)
      PROVE  QueueInv'
  BY <1>3, RecoverInv, ClaimBatchInv, ServeInv, PublishInv, FinishInv,
     RetryOrFailInv, StopInv DEF Work
<1> QED
  BY <1>1, <1>2, <1>3 DEF QueueNext

\* The inductive invariant holds throughout.
THEOREM QueueInvariant == QueueSpec => []QueueInv
  BY QueueInitInv, QueueNextInv, PTL DEF QueueSpec

\* The rows and the workers keep their types.
THEOREM QueueTypes == QueueSpec => []QueueTypeOK
  BY QueueInvariant, PTL DEF QueueInv

\* The retry cap of claim_data_requests holds for any number of workers.
THEOREM RetryCap == QueueSpec => []AttemptsCapped
  BY QueueInvariant, PTL DEF QueueInv

\* Success comes after publication and failure at the cap, even when a worker
\* answers for a row that another has recovered.
THEOREM EarnedVerdicts == QueueSpec => []VerdictsAreEarned
  BY QueueInvariant, PTL DEF QueueInv

-----------------------------------------------------------------------------
(* One worker process at a time *)

\* With one worker, what it holds is running and held once; between batches
\* it holds nothing.
ClaimsAreHeld ==
  \A w \in Workers :
    /\ pc[w] \in {"idle", "recovered"} => batch[w] = {}
    /\ batch[w] \subseteq In("RUNNING")
    /\ pc[w] \in {"writing", "published"} =>
         current[w] \in In("RUNNING") \ batch[w]

\* No request is held when the queue is created.
LEMMA HeldInit == QueueInit => ClaimsAreHeld
  BY DEF QueueInit, ClaimsAreHeld, In

\* Only the worker that holds a request changes its row, and it recovers only
\* what nobody holds: it recovers before it claims.
LEMMA HeldNext ==
  ASSUME \A v, w \in Workers : v = w, QueueInv, ClaimsAreHeld,
         [QueueNext]_queueVars
  PROVE  ClaimsAreHeld'
<1> USE DEF QueueInv, QueueTypeOK, ClaimsAreHeld, In
<1>1. CASE UNCHANGED queueVars
  BY <1>1 DEF queueVars, rows, process
<1>2. ASSUME NEW r \in Requests, Enqueue(r) PROVE ClaimsAreHeld'
  BY <1>2 DEF Enqueue, Reopened, process
<1>3. ASSUME NEW r \in Requests, GrowOld(r) PROVE ClaimsAreHeld'
  BY <1>3 DEF GrowOld, process
<1>4. ASSUME NEW w \in Workers, Recover(w) PROVE ClaimsAreHeld'
  BY <1>4 DEF Recover
<1>5. ASSUME NEW w \in Workers, ClaimBatch(w) PROVE ClaimsAreHeld'
  BY <1>5 DEF ClaimBatch
<1>6. ASSUME NEW w \in Workers, Serve(w) PROVE ClaimsAreHeld'
  BY <1>6 DEF Serve, rows
<1>7. ASSUME NEW w \in Workers, Publish(w) PROVE ClaimsAreHeld'
  BY <1>7 DEF Publish, rows
<1>8. ASSUME NEW w \in Workers, Finish(w) \/ RetryOrFail(w)
      PROVE  ClaimsAreHeld'
  BY <1>8 DEF Finish, RetryOrFail, Served
<1>9. ASSUME NEW w \in Workers, Done(w) \/ Kill(w) PROVE ClaimsAreHeld'
  BY <1>9 DEF Done, Kill, Stop, rows
<1> QED
  BY <1>1, <1>2, <1>3, <1>4, <1>5, <1>6, <1>7, <1>8, <1>9
     DEF QueueNext, Work

-----------------------------------------------------------------------------
(* Refinement of DataRequests *)

\* The verdicts of the empty table are those of the promise.
LEMMA PromiseInit == QueueInit => Promise!Init
  BY DEF QueueInit, Promise!Init, Verdict

\* A row is open exactly while it waits or runs.
LEMMA OpenRows ==
  ASSUME QueueInv
  PROVE  Promise!Open = In("PENDING") \cup In("RUNNING")
  BY DEF QueueInv, QueueTypeOK, Promise!Open, Promise!Verdicts, Verdict, In,
         Statuses

\* The columns and the memory of the worker that no verdict depends on.
LEMMA PromiseStutter ==
  ASSUME UNCHANGED <<status, published>>
  PROVE  UNCHANGED <<[r \in Requests |-> Verdict(r)], published>>
  BY DEF Verdict

\* Recovery opens nothing that is closed, and gives up the stale requests
\* that have no attempt left.
LEMMA RecoverKeepsPromise ==
  ASSUME QueueInv, NEW w \in Workers, Recover(w)
  PROVE  [Promise!Next]_<<[r \in Requests |-> Verdict(r)], published>>
<1> DEFINE lost == {r \in Stale : attempts[r] >= MaxAttempts}
<1>1. lost \subseteq Promise!Open
  BY OpenRows DEF Stale
<1>2. lost \in SUBSET Requests
  BY DEF Stale, In
<1>3. [r \in Requests |-> Verdict(r)]' =
        [r \in Requests |-> IF r \in lost THEN "failed" ELSE Verdict(r)]
  BY DEF Recover, AfterRecovery, Stale, In, Verdict, QueueInv, QueueTypeOK
<1>4. UNCHANGED published
  BY DEF Recover
<1>5. CASE lost = {}
  <2>1. [r \in Requests |-> Verdict(r)]' = [r \in Requests |-> Verdict(r)]
    BY <1>3, <1>5
  <2> QED
    BY <2>1, <1>4
<1>6. CASE lost # {}
  <2>1. Promise!Fail(lost)
    BY <1>1, <1>3, <1>4, <1>6 DEF Promise!Fail
  <2> QED
    BY <2>1, <1>2 DEF Promise!Next
<1> QED
  BY <1>5, <1>6

\* Claiming a waiting request leaves it open.
LEMMA ClaimKeepsPromise ==
  ASSUME QueueInv, NEW w \in Workers, ClaimBatch(w)
  PROVE  UNCHANGED <<[r \in Requests |-> Verdict(r)], published>>
  BY DEF ClaimBatch, In, Verdict, QueueInv, QueueTypeOK

\* The verdict on the request being served is the first it gets.
LEMMA AnswerKeepsPromise ==
  ASSUME QueueInv, ClaimsAreHeld, NEW w \in Workers,
         Finish(w) \/ RetryOrFail(w)
  PROVE  [Promise!Next]_<<[r \in Requests |-> Verdict(r)], published>>
<1> DEFINE served == current[w]
<1>1. served \in Requests /\ status[served] = "RUNNING"
  BY DEF ClaimsAreHeld, Finish, RetryOrFail, In
<1>2. served \in Promise!Open
  BY <1>1, OpenRows DEF In
<1>3. UNCHANGED published
  BY DEF Finish, RetryOrFail, Served
<1>4. CASE Finish(w)
  <2>1. served \in published
    BY <1>4 DEF Finish, QueueInv, ServingIsKnown
  <2>2. [r \in Requests |-> Verdict(r)]' =
          [[r \in Requests |-> Verdict(r)] EXCEPT ![served] = "success"]
    BY <1>1, <1>4 DEF Finish, Verdict, QueueInv, QueueTypeOK
  <2>3. Promise!Succeed(served)
    BY <1>2, <1>3, <2>1, <2>2 DEF Promise!Succeed
  <2> QED
    BY <1>1, <2>3 DEF Promise!Next
<1>5. CASE RetryOrFail(w) /\ attempts[served] >= MaxAttempts
  <2>1. [r \in Requests |-> Verdict(r)]' =
          [r \in Requests |-> IF r \in {served} THEN "failed" ELSE Verdict(r)]
    BY <1>1, <1>5
       DEF RetryOrFail, AfterRecovery, Verdict, QueueInv, QueueTypeOK
  <2>2. Promise!Fail({served})
    BY <1>2, <1>3, <2>1 DEF Promise!Fail
  <2> QED
    BY <1>1, <2>2 DEF Promise!Next
<1>6. CASE RetryOrFail(w) /\ ~(attempts[served] >= MaxAttempts)
  <2>1. [r \in Requests |-> Verdict(r)]' = [r \in Requests |-> Verdict(r)]
    BY <1>1, <1>6
       DEF RetryOrFail, AfterRecovery, Verdict, QueueInv, QueueTypeOK
  <2> QED
    BY <1>3, <2>1
<1> QED
  BY <1>4, <1>5, <1>6

\* A new row opens its request; at the cap no failed row is reopened.
LEMMA EnqueueKeepsPromise ==
  ASSUME QueueInv, NEW r \in Requests, Enqueue(r)
  PROVE  Promise!Ask(r)
<1>1. status[r] = "ABSENT"
  BY QueueAssumption
     DEF Enqueue, Reopened, In, QueueInv, QueueTypeOK, VerdictsAreEarned
<1>2. [q \in Requests |-> Verdict(q)]' =
        [[q \in Requests |-> Verdict(q)] EXCEPT ![r] = "open"]
  BY <1>1 DEF Enqueue, Verdict, QueueInv, QueueTypeOK
<1>3. UNCHANGED published
  BY DEF Enqueue
<1> QED
  BY <1>1, <1>2, <1>3 DEF Promise!Ask, Verdict

\* A version is published for a request that is open.
LEMMA PublishKeepsPromise ==
  ASSUME QueueInv, ClaimsAreHeld, NEW w \in Workers, Publish(w)
  PROVE  Promise!Publish(current[w])
<1>1. current[w] \in Promise!Open
  BY OpenRows DEF ClaimsAreHeld, Publish
<1>2. [r \in Requests |-> Verdict(r)]' = [r \in Requests |-> Verdict(r)]
  BY DEF Publish, rows, Verdict
<1> QED
  BY <1>1, <1>2 DEF Publish, Promise!Publish

\* Every step of the queue is a step of the promise or leaves it alone.
LEMMA PromiseNext ==
  ASSUME QueueInv, ClaimsAreHeld, [QueueNext]_queueVars
  PROVE  [Promise!Next]_<<[r \in Requests |-> Verdict(r)], published>>
<1>1. CASE UNCHANGED queueVars
  BY <1>1, PromiseStutter DEF queueVars, rows
<1>2. ASSUME NEW r \in Requests, Enqueue(r)
      PROVE  Promise!Next
  BY <1>2, EnqueueKeepsPromise DEF Promise!Next
<1>3. ASSUME NEW r \in Requests, GrowOld(r)
      PROVE  UNCHANGED <<status, published>>
  BY <1>3 DEF GrowOld
<1>4. ASSUME NEW w \in Workers, Publish(w)
      PROVE  Promise!Next
  <2>1. current[w] \in Requests
    BY <1>4 DEF Publish, QueueInv, ServingIsKnown
  <2> QED
    BY <1>4, <2>1, PublishKeepsPromise DEF Promise!Next
<1>5. ASSUME NEW w \in Workers, Serve(w) \/ Done(w) \/ Kill(w)
      PROVE  UNCHANGED <<status, published>>
  BY <1>5 DEF Serve, Done, Kill, Stop, rows
<1> QED
  BY <1>1, <1>2, <1>3, <1>4, <1>5, PromiseStutter, RecoverKeepsPromise,
     ClaimKeepsPromise, AnswerKeepsPromise DEF QueueNext, Work

\* With one worker process at a time the queue keeps the promise its consumers
\* rely on, for any number of requests and whatever the caps: success comes
\* after publication and no verdict is taken back.
THEOREM QueueKeepsPromise ==
  ASSUME \A v, w \in Workers : v = w
  PROVE  QueueSpec => QueuePromise
<1>1. QueueInit => ClaimsAreHeld
  BY HeldInit
<1>2. QueueInv /\ ClaimsAreHeld /\ [QueueNext]_queueVars => ClaimsAreHeld'
  BY HeldNext
<1>3. QueueInit => Promise!Init
  BY PromiseInit
<1>4. QueueInv /\ ClaimsAreHeld /\ [QueueNext]_queueVars
        => [Promise!Next]_<<[r \in Requests |-> Verdict(r)], published>>
  BY PromiseNext
<1> QED
  BY <1>1, <1>2, <1>3, <1>4, QueueInvariant, PTL
     DEF QueueSpec, QueuePromise, Promise!Spec
=============================================================================
