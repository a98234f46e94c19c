---------------------- MODULE NotificationOutboxProofs ----------------------
(***************************************************************************)
(* NotificationOutbox for every set of fills, dailies, contents, workers   *)
(* and every retry and batch limit: type correctness, exclusive ownership  *)
(* of the row in flight, at-most-once delivery, and that the outbox        *)
(* implements AtMostOnceDelivery.                                          *)
(***************************************************************************)
EXTENDS NotificationOutbox, TLAPS

\* Only the holder of the file lock is running, so at most one process is.
LockDiscipline == \A w \in Workers : pc[w] # "idle" => lock = w

\* What the process knows agrees with what the channel did.
AnswerMatchesChannel ==
  \A w \in Workers :
    /\ pc[w] = "sending" => accepted[claim[w]] = 0
    /\ pc[w] = "answered" =>
         /\ reply[w] # "none"
         /\ reply[w] = "confirmed" => accepted[claim[w]] = 1
         /\ reply[w] \in {"retryable", "rejected"} => accepted[claim[w]] = 0

\* A claim is only taken while the batch has room for it.
BatchHasRoom ==
  \A w \in Workers :
    pc[w] \in {"sending", "answered"} => batch[w] < BatchLimit

\* The inductive invariant.
OutboxInv ==
  /\ OutboxTypeOK
  /\ BatchHasRoom
  /\ LockDiscipline
  /\ InFlightIsOwned
  /\ AnswerMatchesChannel
  /\ RecordIsHonest
  /\ AtMostOnce
  /\ AttemptsBounded

-----------------------------------------------------------------------------
\* The empty outbox satisfies the invariant.
LEMMA InitInv == OutboxInit => OutboxInv
  BY OutboxAssumption
     DEF OutboxInit, OutboxInv, OutboxTypeOK, BatchHasRoom, LockDiscipline,
         InFlightIsOwned, AnswerMatchesChannel, RecordIsHonest, AtMostOnce, AttemptsBounded,
         Statuses, Modes, Replies, Deliveries

\* Taking the free lock keeps the invariant: no other process is active.
LEMMA BeginInv ==
  ASSUME OutboxInv, NEW w \in Workers, NEW m \in Modes, Begin(w, m)
  PROVE  OutboxInv'
  BY OutboxAssumption
     DEF Begin, rows, OutboxInv, OutboxTypeOK, BatchHasRoom,
         LockDiscipline, InFlightIsOwned, AnswerMatchesChannel, RecordIsHonest, AtMostOnce,
         AttemptsBounded, Statuses, Modes, Replies, Deliveries

\* A staged row is PENDING or BASELINED and has never been tried.
LEMMA StageNewInv ==
  ASSUME OutboxInv, NEW w \in Workers, NEW d \in Deliveries, NEW c \in Contents,
         StageNew(w, d, c)
  PROVE  OutboxInv'
  BY OutboxAssumption
     DEF StageNew, StageKind, process, OutboxInv, OutboxTypeOK, BatchHasRoom,
         LockDiscipline, InFlightIsOwned, AnswerMatchesChannel, RecordIsHonest, AtMostOnce,
         AttemptsBounded, Statuses, Modes, Replies, Deliveries

\* A payload conflict ends the process before it claims anything.
LEMMA StageConflictInv ==
  ASSUME OutboxInv, NEW w \in Workers, NEW d \in Deliveries, NEW c \in Contents,
         StageConflict(w, d, c)
  PROVE  OutboxInv'
  BY OutboxAssumption
     DEF StageConflict, Exit, rows, OutboxInv, OutboxTypeOK, BatchHasRoom,
         LockDiscipline, InFlightIsOwned, AnswerMatchesChannel, RecordIsHonest, AtMostOnce,
         AttemptsBounded, Statuses, Modes, Replies, Deliveries

\* The drain starts with an empty claim.
LEMMA EndStagingInv ==
  ASSUME OutboxInv, NEW w \in Workers, EndStaging(w)
  PROVE  OutboxInv'
  BY OutboxAssumption
     DEF EndStaging, Exit, rows, OutboxInv, OutboxTypeOK, BatchHasRoom,
         LockDiscipline, InFlightIsOwned, AnswerMatchesChannel, RecordIsHonest, AtMostOnce,
         AttemptsBounded, Statuses, Modes, Replies, Deliveries

\* claim_next first settles the rows an interrupted process left, then marks
\* one row SENDING for its caller: no row is SENDING for two.
LEMMA ClaimInv ==
  ASSUME OutboxInv, NEW w \in Workers, Claim(w)
  PROVE  OutboxInv'
<1> USE OutboxAssumption
<1>1. PICK d \in Claimable(w) :
         /\ status' = [e \in Deliveries |->
                         IF e = d THEN "SENDING" ELSE AfterInterrupt(e)]
         /\ retryable' = [e \in Deliveries |->
                            IF e = d THEN FALSE ELSE RetryableAfterInterrupt(e)]
         /\ attempts' = [attempts EXCEPT ![d] = @ + 1]
         /\ claim' = [claim EXCEPT ![w] = d]
  BY DEF Claim
<1>2. /\ d \in Deliveries
      /\ status[d] \in {"PENDING", "FAILED"}
      /\ status[d] = "FAILED" => attempts[d] < MaxAttempts
      /\ batch[w] < BatchLimit
  BY DEF Claim, Claimable, DrainKinds, Deliveries
<1>3. /\ pc[w] = "draining" /\ lock = w
      /\ pc' = [pc EXCEPT ![w] = "sending"]
      /\ UNCHANGED <<content, lock, mode, reply, batch, accepted>>
  BY DEF Claim, OutboxInv, LockDiscipline
<1>4. \A v \in Workers : v # w => pc[v] = "idle" /\ pc'[v] = "idle"
  BY <1>3 DEF OutboxInv, OutboxTypeOK, LockDiscipline
<1>5. OutboxTypeOK'
  <2>1. status' \in [Deliveries -> Statuses]
    BY <1>1 DEF OutboxInv, OutboxTypeOK, Statuses, AfterInterrupt
  <2>2. retryable' \in [Deliveries -> BOOLEAN]
    <3>1. \A e \in Deliveries : RetryableAfterInterrupt(e) \in BOOLEAN
      BY DEF OutboxInv, OutboxTypeOK, RetryableAfterInterrupt
    <3>2. QED
      BY <1>1, <3>1
  <2>3. attempts' \in [Deliveries -> Nat]
    BY <1>1, <1>2 DEF OutboxInv, OutboxTypeOK
  <2>4. claim' \in [Workers -> Deliveries \cup {None}]
    BY <1>1, <1>2 DEF OutboxInv, OutboxTypeOK
  <2>5. QED
    BY <2>1, <2>2, <2>3, <2>4, <1>3 DEF OutboxInv, OutboxTypeOK
<1>6. LockDiscipline'
  BY <1>3, <1>4 DEF LockDiscipline
<1>7. InFlightIsOwned'
  BY <1>1, <1>2, <1>3, <1>4 DEF InFlightIsOwned, OutboxInv, OutboxTypeOK
<1>8. AnswerMatchesChannel'
  BY <1>1, <1>2, <1>3, <1>4
     DEF AnswerMatchesChannel, RecordIsHonest, OutboxInv, OutboxTypeOK
<1>9. RecordIsHonest' /\ AtMostOnce'
  BY <1>1, <1>2, <1>3
     DEF RecordIsHonest, AtMostOnce, AfterInterrupt, OutboxInv, OutboxTypeOK
<1>10. AttemptsBounded'
  BY <1>1, <1>2, <1>3
     DEF AttemptsBounded, AfterInterrupt, OutboxInv, OutboxTypeOK
<1>11. BatchHasRoom'
  BY <1>2, <1>3, <1>4 DEF BatchHasRoom, OutboxInv, OutboxTypeOK
<1>12. QED
  BY <1>5, <1>6, <1>7, <1>8, <1>9, <1>10, <1>11 DEF OutboxInv

\* A claim_next that finds nothing has settled the interrupted rows all the same.
LEMMA NothingToClaimInv ==
  ASSUME OutboxInv, NEW w \in Workers, NothingToClaim(w)
  PROVE  OutboxInv'
<1> USE OutboxAssumption
<1>1. /\ lock = w /\ pc[w] = "draining"
      /\ \A v \in Workers : v # w => pc[v] = "idle"
  BY DEF NothingToClaim, OutboxInv, LockDiscipline
<1>2. /\ status' = [e \in Deliveries |-> AfterInterrupt(e)]
      /\ retryable' = [e \in Deliveries |-> RetryableAfterInterrupt(e)]
      /\ UNCHANGED <<attempts, content, mode, batch, accepted>>
      /\ lock' = None
      /\ pc' = [pc EXCEPT ![w] = "idle"]
      /\ claim' = [claim EXCEPT ![w] = None]
      /\ reply' = [reply EXCEPT ![w] = "none"]
  BY <1>1 DEF NothingToClaim, Exit
<1>3. \A v \in Workers : pc'[v] = "idle"
  BY <1>1, <1>2 DEF OutboxInv, OutboxTypeOK
<1>4. OutboxTypeOK'
  <2>1. status' \in [Deliveries -> Statuses]
    BY <1>2 DEF OutboxInv, OutboxTypeOK, Statuses, AfterInterrupt
  <2>2. retryable' \in [Deliveries -> BOOLEAN]
    <3>1. \A e \in Deliveries : RetryableAfterInterrupt(e) \in BOOLEAN
      BY DEF OutboxInv, OutboxTypeOK, RetryableAfterInterrupt
    <3>2. QED
      BY <1>2, <3>1
  <2>3. QED
    BY <2>1, <2>2, <1>2 DEF OutboxInv, OutboxTypeOK, Replies
<1>5. /\ LockDiscipline' /\ InFlightIsOwned' /\ AnswerMatchesChannel'
      /\ BatchHasRoom'
  BY <1>3 DEF LockDiscipline, InFlightIsOwned, AnswerMatchesChannel,
              BatchHasRoom
<1>6. RecordIsHonest' /\ AtMostOnce' /\ AttemptsBounded'
  BY <1>2 DEF RecordIsHonest, AtMostOnce, AttemptsBounded, AfterInterrupt,
              OutboxInv, OutboxTypeOK
<1>7. QED
  BY <1>4, <1>5, <1>6 DEF OutboxInv

\* The process leaves the lock with nothing in flight.
LEMMA BatchExhaustedInv ==
  ASSUME OutboxInv, NEW w \in Workers, BatchExhausted(w)
  PROVE  OutboxInv'
  BY OutboxAssumption
     DEF BatchExhausted, Exit, rows, OutboxInv, OutboxTypeOK, BatchHasRoom,
         LockDiscipline, InFlightIsOwned, AnswerMatchesChannel, RecordIsHonest, AtMostOnce,
         AttemptsBounded, Statuses, Modes, Replies, Deliveries

\* Discord creates at most the message of the row that is in flight.
LEMMA SendInv ==
  ASSUME OutboxInv, NEW w \in Workers, Send(w)
  PROVE  OutboxInv'
  BY OutboxAssumption
     DEF Send, rows, OutboxInv, OutboxTypeOK, BatchHasRoom,
         LockDiscipline, InFlightIsOwned, AnswerMatchesChannel, RecordIsHonest, AtMostOnce,
         AttemptsBounded, Statuses, Modes, Replies, Deliveries

\* mark_sent finds its row SENDING with its message created.
LEMMA MarkSentInv ==
  ASSUME OutboxInv, NEW w \in Workers, MarkSent(w)
  PROVE  OutboxInv'
<1> USE OutboxAssumption
<1>1. /\ pc[w] = "answered" /\ lock = w
      /\ claim[w] \in Deliveries
      /\ status[claim[w]] = "SENDING"
      /\ accepted[claim[w]] = 1
      /\ batch[w] < BatchLimit
      /\ \A v \in Workers : v # w => pc[v] = "idle"
  BY DEF MarkSent, OutboxInv, LockDiscipline, InFlightIsOwned, BatchHasRoom,
         AnswerMatchesChannel
<1>2. /\ status' = [status EXCEPT ![claim[w]] = "SENT"]
      /\ retryable' = [retryable EXCEPT ![claim[w]] = FALSE]
      /\ UNCHANGED <<attempts, content, lock, mode, accepted>>
      /\ pc' = [pc EXCEPT ![w] = "draining"]
      /\ claim' = [claim EXCEPT ![w] = None]
      /\ reply' = [reply EXCEPT ![w] = "none"]
      /\ batch' = [batch EXCEPT ![w] = @ + 1]
  BY <1>1 DEF MarkSent
<1>3. \A v \in Workers : pc'[v] \notin {"sending", "answered"}
  BY <1>1, <1>2 DEF OutboxInv, OutboxTypeOK
<1>4. OutboxTypeOK'
  <2>1. status' \in [Deliveries -> Statuses]
    BY <1>1, <1>2 DEF OutboxInv, OutboxTypeOK, Statuses
  <2>2. retryable' \in [Deliveries -> BOOLEAN]
    BY <1>2, Zenon DEF OutboxInv, OutboxTypeOK
  <2>3. batch' \in [Workers -> 0..BatchLimit]
    BY <1>1, <1>2 DEF OutboxInv, OutboxTypeOK
  <2>4. QED
    BY <2>1, <2>2, <2>3, <1>2 DEF OutboxInv, OutboxTypeOK, Replies
<1>5. LockDiscipline'
  BY <1>1, <1>2 DEF LockDiscipline, OutboxInv, OutboxTypeOK
<1>6. InFlightIsOwned' /\ AnswerMatchesChannel' /\ BatchHasRoom'
  BY <1>3 DEF InFlightIsOwned, AnswerMatchesChannel, BatchHasRoom
<1>7. RecordIsHonest' /\ AtMostOnce' /\ AttemptsBounded'
  BY <1>1, <1>2 DEF RecordIsHonest, AtMostOnce, AttemptsBounded, OutboxInv,
                    OutboxTypeOK
<1>8. QED
  BY <1>4, <1>5, <1>6, <1>7 DEF OutboxInv

\* mark_failed records FAILED only when no message was created, else UNKNOWN.
LEMMA MarkFailedInv ==
  ASSUME OutboxInv, NEW w \in Workers, MarkFailed(w)
  PROVE  OutboxInv'
<1> USE OutboxAssumption
<1>1. /\ pc[w] = "answered" /\ lock = w
      /\ claim[w] \in Deliveries
      /\ status[claim[w]] = "SENDING"
      /\ reply[w] \in {"uncertain", "retryable", "rejected"}
      /\ \A v \in Workers : v # w => pc[v] = "idle"
  BY DEF MarkFailed, OutboxInv, LockDiscipline, InFlightIsOwned
<1>2. /\ status' = [status EXCEPT ![claim[w]] = StatusAfter(reply[w])]
      /\ retryable' = [retryable EXCEPT ![claim[w]] = (reply[w] = "retryable")]
      /\ UNCHANGED <<attempts, content, mode, batch, accepted>>
      /\ lock' = None
      /\ pc' = [pc EXCEPT ![w] = "idle"]
      /\ claim' = [claim EXCEPT ![w] = None]
      /\ reply' = [reply EXCEPT ![w] = "none"]
  BY <1>1 DEF MarkFailed, Exit
<1>3. \A v \in Workers : pc'[v] = "idle"
  BY <1>1, <1>2 DEF OutboxInv, OutboxTypeOK
<1>4. OutboxTypeOK'
  <2>1. status' \in [Deliveries -> Statuses]
    BY <1>1, <1>2 DEF StatusAfter, OutboxInv, OutboxTypeOK, Statuses
  <2>2. retryable' \in [Deliveries -> BOOLEAN]
    <3>1. (reply[w] = "retryable") \in BOOLEAN
      OBVIOUS
    <3>2. QED
      BY <1>2, <3>1, Zenon DEF OutboxInv, OutboxTypeOK
  <2>3. QED
    BY <2>1, <2>2, <1>2 DEF OutboxInv, OutboxTypeOK, Replies
<1>5. /\ LockDiscipline' /\ InFlightIsOwned' /\ AnswerMatchesChannel'
      /\ BatchHasRoom'
  BY <1>3 DEF LockDiscipline, InFlightIsOwned, AnswerMatchesChannel,
              BatchHasRoom
<1>6. RecordIsHonest'
  BY <1>1, <1>2 DEF StatusAfter, RecordIsHonest, AnswerMatchesChannel,
                    OutboxInv, OutboxTypeOK
<1>7. AtMostOnce' /\ AttemptsBounded'
  BY <1>1, <1>2 DEF StatusAfter, AtMostOnce, AttemptsBounded, OutboxInv, OutboxTypeOK
<1>8. QED
  BY <1>4, <1>5, <1>6, <1>7 DEF OutboxInv

\* A kill leaves the row SENDING without an owner, whatever Discord has done.
LEMMA CrashInv ==
  ASSUME OutboxInv, NEW w \in Workers, Crash(w)
  PROVE  OutboxInv'
<1> USE OutboxAssumption
<1>1. /\ lock = w /\ pc[w] # "idle"
      /\ \A v \in Workers : v # w => pc[v] = "idle"
  BY DEF Crash, OutboxInv, LockDiscipline
<1>2. /\ UNCHANGED <<status, attempts, retryable, content, mode, batch>>
      /\ lock' = None
      /\ pc' = [pc EXCEPT ![w] = "idle"]
      /\ claim' = [claim EXCEPT ![w] = None]
      /\ reply' = [reply EXCEPT ![w] = "none"]
  BY <1>1 DEF Crash, Exit, rows
<1>3. \A v \in Workers : pc'[v] = "idle"
  BY <1>1, <1>2 DEF OutboxInv, OutboxTypeOK
<1>4. \/ accepted' = accepted
      \/ /\ claim[w] \in Deliveries
         /\ status[claim[w]] = "SENDING"
         /\ accepted[claim[w]] = 0
         /\ accepted' = [accepted EXCEPT ![claim[w]] = @ + 1]
  BY DEF Crash, OutboxInv, InFlightIsOwned, AnswerMatchesChannel
<1>5. OutboxTypeOK'
  <2>1. accepted' \in [Deliveries -> Nat]
    BY <1>4 DEF OutboxInv, OutboxTypeOK
  <2>2. QED
    BY <2>1, <1>2 DEF OutboxInv, OutboxTypeOK, Replies
<1>6. /\ LockDiscipline' /\ InFlightIsOwned' /\ AnswerMatchesChannel'
      /\ BatchHasRoom'
  BY <1>3 DEF LockDiscipline, InFlightIsOwned, AnswerMatchesChannel,
              BatchHasRoom
<1>7. RecordIsHonest' /\ AtMostOnce' /\ AttemptsBounded'
  BY <1>2, <1>4 DEF RecordIsHonest, AtMostOnce, AttemptsBounded, OutboxInv,
                    OutboxTypeOK
<1>8. QED
  BY <1>5, <1>6, <1>7 DEF OutboxInv

-----------------------------------------------------------------------------
\* Every step of every process keeps the invariant.
LEMMA NextInv == OutboxInv /\ [OutboxNext]_outboxVars => OutboxInv'
<1> SUFFICES ASSUME OutboxInv, [OutboxNext]_outboxVars
             PROVE  OutboxInv'
  OBVIOUS
<1>1. ASSUME NEW w \in Workers, WorkerStep(w)
      PROVE  OutboxInv'
  BY <1>1, BeginInv, StageNewInv, StageConflictInv, EndStagingInv, ClaimInv,
     NothingToClaimInv, BatchExhaustedInv, SendInv, MarkSentInv, MarkFailedInv,
     CrashInv DEF WorkerStep
<1>2. CASE UNCHANGED outboxVars
  BY <1>2 DEF outboxVars, rows, process, OutboxInv, OutboxTypeOK,
              BatchHasRoom, LockDiscipline, InFlightIsOwned,
              AnswerMatchesChannel, RecordIsHonest, AtMostOnce, AttemptsBounded
<1>3. QED
  BY <1>1, <1>2 DEF OutboxNext

\* The strengthened invariant holds in every reachable state of every instance
\* of the outbox (notification_state.py under run_paper_notifications.py).
THEOREM OutboxInvariant == OutboxSpec => []OutboxInv
  BY InitInv, NextInv, PTL DEF OutboxSpec

\* The types of the outbox rows and of the worker processes, for every
\* instance of the constants.
THEOREM OutboxTyping == OutboxSpec => []OutboxTypeOK
  BY OutboxInvariant, PTL DEF OutboxInv

\* No message is created twice in the channel, for any number of rows and
\* worker processes, any answers, kills and retries (the promise in the first
\* line of notification_state.py).
THEOREM DeliveredAtMostOnce == OutboxSpec => []AtMostOnce
  BY OutboxInvariant, PTL DEF OutboxInv

\* The status column agrees with the channel, and a live claim is never taken
\* over, so mark_sent and mark_failed always find the row they claimed.
THEOREM HonestRecords == OutboxSpec => [](RecordIsHonest /\ InFlightIsOwned)
  BY OutboxInvariant, PTL DEF OutboxInv

\* No row is tried more than MaxAttempts times.
THEOREM BoundedAttempts == OutboxSpec => []AttemptsBounded
  BY OutboxInvariant, PTL DEF OutboxInv

-----------------------------------------------------------------------------
(* Refinement *)

\* Each step changes the outcomes and the created messages as the promise
\* allows: a created message was undecided and new, an outcome is decided once.
StepKeepsPromise ==
  /\ \A d \in Deliveries :
       /\ Outcome(d) # "undecided" => Outcome(d)' = Outcome(d)
       /\ Outcome(d)' = "delivered" /\ Outcome(d) # "delivered"
            => accepted[d] = 1
       /\ Outcome(d)' = "suppressed" /\ Outcome(d) # "suppressed"
            => accepted[d] = 0
  /\ \/ accepted' = accepted
     \/ /\ status' = status
        /\ \E d \in Deliveries :
             /\ accepted[d] = 0
             /\ Outcome(d) = "undecided"
             /\ accepted' = [accepted EXCEPT ![d] = 1]

\* Every step either leaves created messages and outcomes alone, or creates one
\* message that nobody had, or decides what was undecided.
LEMMA StepPromise ==
  ASSUME OutboxInv, [OutboxNext]_outboxVars
  PROVE  StepKeepsPromise
<1> USE DEF OutboxInv, OutboxTypeOK
<1>1. CASE UNCHANGED outboxVars
  BY <1>1 DEF outboxVars, rows, process, Outcome, StepKeepsPromise
<1>2. ASSUME NEW w \in Workers, WorkerStep(w)
      PROVE  StepKeepsPromise
  <2>1. CASE UNCHANGED <<status, accepted>>
    BY <2>1 DEF Outcome, StepKeepsPromise
  <2>2. CASE \E d \in Deliveries, c \in Contents : StageNew(w, d, c)
    BY <2>2 DEF StageNew, RecordIsHonest, Outcome, StepKeepsPromise
  <2>3. CASE Claim(w)
    BY <2>3 DEF Claim, AfterInterrupt, Claimable, Outcome, StepKeepsPromise
  <2>4. CASE NothingToClaim(w)
    BY <2>4 DEF NothingToClaim, AfterInterrupt, Outcome, StepKeepsPromise
  <2>5. CASE Send(w) \/ Crash(w)
    <3>1. status' = status
      BY <2>5 DEF Send, Crash, rows
    <3>2. \/ accepted' = accepted
          \/ \E d \in Deliveries :
               /\ accepted[d] = 0
               /\ status[d] = "SENDING"
               /\ accepted' = [accepted EXCEPT ![d] = 1]
      BY <2>5 DEF Send, Crash, InFlightIsOwned, AnswerMatchesChannel
    <3>3. QED
      BY <3>1, <3>2 DEF Outcome, StepKeepsPromise
  <2>6. CASE MarkSent(w)
    BY <2>6 DEF MarkSent, InFlightIsOwned, AnswerMatchesChannel, Outcome,
                StepKeepsPromise
  <2>7. CASE MarkFailed(w)
    BY <2>7 DEF MarkFailed, StatusAfter, InFlightIsOwned, Outcome,
                StepKeepsPromise
  <2>8. QED
    BY <1>2, <2>1, <2>2, <2>3, <2>4, <2>5, <2>6, <2>7
       DEF WorkerStep, Begin, StageConflict, EndStaging, BatchExhausted, rows
<1>3. QED
  BY <1>1, <1>2 DEF OutboxNext

\* The outbox implements AtMostOnceDelivery: created messages are the accepted
\* ones and outcomes are read off the status column.
THEOREM OutboxKeepsPromise == OutboxSpec => PromiseSpec
<1>1. OutboxInit => Promise!Init
  BY DEF OutboxInit, Promise!Init, Outcome
<1>2. OutboxInv /\ [OutboxNext]_outboxVars
        => [Promise!Next]_<<accepted, [d \in Deliveries |-> Outcome(d)]>>
  <2> SUFFICES ASSUME OutboxInv, [OutboxNext]_outboxVars
               PROVE  [Promise!Next]_<<accepted, [d \in Deliveries |-> Outcome(d)]>>
    OBVIOUS
  <2>1. StepKeepsPromise
    BY StepPromise
  <2>2. CASE accepted' = accepted
    <3>1. Promise!Decide
      BY <2>1, <2>2
         DEF StepKeepsPromise, Promise!Decide, Promise!Outcomes, Outcome,
             OutboxInv, OutboxTypeOK
    <3>2. QED
      BY <3>1 DEF Promise!Next
  <2>3. ASSUME NEW d \in Deliveries, status' = status, accepted[d] = 0,
               Outcome(d) = "undecided",
               accepted' = [accepted EXCEPT ![d] = 1]
        PROVE  Promise!Next
    <3>1. Promise!Create(d)
      BY <2>3 DEF Promise!Create, Outcome, OutboxInv, OutboxTypeOK
    <3>2. QED
      BY <3>1 DEF Promise!Next
  <2>4. QED
    BY <2>1, <2>2, <2>3 DEF StepKeepsPromise
<1>3. QED
  BY <1>1, <1>2, OutboxInvariant, PTL DEF OutboxSpec, PromiseSpec, Promise!Spec

\* SENT, UNKNOWN and BASELINED rows and frozen payloads never change again.
THEOREM SettledRowsAreFinal == OutboxSpec => SettledIsFinal
<1> DEFINE Final == \A d \in Deliveries :
                      /\ status[d] \in {"SENT", "UNKNOWN", "BASELINED"}
                           => status'[d] = status[d]
                      /\ status[d] # "ABSENT" => content'[d] = content[d]
<1>1. OutboxInv /\ [OutboxNext]_outboxVars => [Final]_outboxVars
  <2> SUFFICES ASSUME OutboxInv, NEW w \in Workers, WorkerStep(w)
               PROVE  Final
    BY DEF OutboxNext
  <2>1. ASSUME NEW m \in Modes, Begin(w, m) PROVE Final
    BY <2>1 DEF Begin, rows
  <2>2. ASSUME NEW d \in Deliveries, NEW c \in Contents, StageNew(w, d, c)
        PROVE  Final
    BY <2>2 DEF StageNew, OutboxInv, OutboxTypeOK
  <2>3. ASSUME NEW d \in Deliveries, NEW c \in Contents,
               StageConflict(w, d, c)
        PROVE  Final
    BY <2>3 DEF StageConflict, rows
  <2>4. CASE EndStaging(w) \/ BatchExhausted(w) \/ Send(w) \/ Crash(w)
    BY <2>4 DEF EndStaging, BatchExhausted, Send, Crash, rows
  <2>5. CASE Claim(w) \/ NothingToClaim(w)
    <3>1. \A d \in Claimable(w) : status[d] \in {"PENDING", "FAILED"}
      BY DEF Claimable
    <3>2. CASE Claim(w)
      <4>1. PICK d \in Claimable(w) :
              status' = [e \in Deliveries |->
                           IF e = d THEN "SENDING" ELSE AfterInterrupt(e)]
        BY <3>2 DEF Claim
      <4>2. content' = content
        BY <3>2 DEF Claim
      <4>3. QED
        BY <3>1, <4>1, <4>2 DEF AfterInterrupt
    <3>3. CASE NothingToClaim(w)
      BY <3>3 DEF NothingToClaim, AfterInterrupt
    <3>4. QED
      BY <2>5, <3>2, <3>3
  <2>6. CASE MarkSent(w) \/ MarkFailed(w)
    BY <2>6 DEF MarkSent, MarkFailed, InFlightIsOwned, OutboxInv, OutboxTypeOK
  <2>7. QED
    BY <2>1, <2>2, <2>3, <2>4, <2>5, <2>6 DEF WorkerStep
<1>2. QED
  BY <1>1, OutboxInvariant, PTL DEF OutboxSpec, SettledIsFinal

=============================================================================
