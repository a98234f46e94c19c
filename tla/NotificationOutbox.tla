------------------------- MODULE NotificationOutbox -------------------------
(***************************************************************************)
(* The durable outbox of the paper-trading Discord channel                 *)
(* (papertrading/notification_state.py), the worker that drains it         *)
(* (PaperNotificationService.drain) and the Discord webhook as the worker  *)
(* sees it (alerts/discord.py).                                            *)
(*                                                                         *)
(* Every outbox operation is one SQLite transaction, hence one action.     *)
(* Worker processes are one-shot: they take the outbox file lock, stage    *)
(* rows, drain a bounded batch and exit.  A worker may be killed between   *)
(* any two steps; the kernel then releases its file lock.  What the        *)
(* staged messages say is left open here (the set Contents); the module    *)
(* PaperNotifications derives it from the trading ledger.                  *)
(***************************************************************************)
EXTENDS Naturals

CONSTANTS
  Fills,        \* FILL rows that can ever be staged, named by fill_id
  Dailies,      \* DAILY_SUMMARY rows, named by target session
  Contents,     \* the message bodies a row can carry (payload_hash)
  Workers,      \* worker processes: event timer, daily timer, operator
  MaxAttempts,  \* PAPER_DISCORD_MAX_ATTEMPTS
  BatchLimit,   \* PAPER_DISCORD_BATCH_LIMIT
  None          \* no row, no worker, no content

ASSUME OutboxAssumption ==
  /\ Fills \cap Dailies = {}
  /\ MaxAttempts \in Nat \ {0}
  /\ BatchLimit \in Nat \ {0}
  /\ None \notin Fills \cup Dailies \cup Workers \cup Contents

Deliveries == Fills \cup Dailies

Statuses == {"ABSENT", "PENDING", "SENDING", "SENT", "FAILED", "UNKNOWN",
             "BASELINED"}

\* The command-line modes that touch the outbox, and the kinds each drains.
Modes == {"baseline", "events", "daily"}
DrainKinds(m) == IF m = "events" THEN Deliveries ELSE Dailies
StageKind(m)  == IF m = "daily" THEN Dailies ELSE Fills

\* What notifier.send tells the worker.
Replies == {"none", "confirmed", "uncertain", "retryable", "rejected"}

VARIABLES
  status,     \* [Deliveries -> Statuses], "ABSENT" when there is no row
  attempts,   \* [Deliveries -> Nat]
  retryable,  \* [Deliveries -> BOOLEAN], the retryable=1 column
  content,    \* [Deliveries -> Contents \cup {None}], frozen when staged
  lock,       \* the worker that holds the flock, or None
  pc,         \* [Workers -> phase of the process]
  mode,       \* [Workers -> Modes], what the process was started for
  claim,      \* [Workers -> Deliveries \cup {None}], the claim it holds
  reply,      \* [Workers -> Replies], the answer it has not recorded yet
  batch,      \* [Workers -> 0..BatchLimit], claims sent in this drain
  accepted    \* [Deliveries -> Nat], messages created in the channel

rows    == <<status, attempts, retryable, content>>
process == <<lock, pc, mode, claim, reply, batch>>
outboxVars == <<rows, process, accepted>>

-----------------------------------------------------------------------------
(* Staging *)

\* Mutant of Begin: the process does not wait for run_lock.
BeginUnlocked(w, m) ==
  /\ pc[w] = "idle"
  /\ lock' = w
  /\ pc' = [pc EXCEPT ![w] = "staging"]
  /\ mode' = [mode EXCEPT ![w] = m]
  /\ batch' = [batch EXCEPT ![w] = 0]
  /\ UNCHANGED <<rows, claim, reply, accepted>>

\* A process takes run_lock before it reads or writes anything.
Begin(w, m) ==
  /\ lock = None
  /\ pc[w] = "idle"
  /\ lock' = w
  /\ pc' = [pc EXCEPT ![w] = "staging"]
  /\ mode' = [mode EXCEPT ![w] = m]
  /\ batch' = [batch EXCEPT ![w] = 0]
  /\ UNCHANGED <<rows, claim, reply, accepted>>

\* The process ends: normally, by an uncaught exception or by a signal.
Exit(w) ==
  /\ lock' = IF lock = w THEN None ELSE lock
  /\ pc' = [pc EXCEPT ![w] = "idle"]
  /\ claim' = [claim EXCEPT ![w] = None]
  /\ reply' = [reply EXCEPT ![w] = "none"]
  /\ UNCHANGED <<mode, batch>>

\* stage(): insert a row that does not exist yet.
StageNew(w, d, c) ==
  /\ pc[w] = "staging"
  /\ d \in StageKind(mode[w])
  /\ status[d] = "ABSENT"
  /\ status' = [status EXCEPT ![d] = IF mode[w] = "baseline"
                                     THEN "BASELINED" ELSE "PENDING"]
  /\ content' = [content EXCEPT ![d] = c]
  /\ UNCHANGED <<attempts, retryable, process, accepted>>

\* stage(): the identity exists with another payload hash.  Only a daily
\* summary may reuse the frozen payload; for a fill this is a RuntimeError
\* that ends the process before it drains anything.
StageConflict(w, d, c) ==
  /\ pc[w] = "staging"
  /\ d \in StageKind(mode[w])
  /\ status[d] # "ABSENT"
  /\ d \in Fills
  /\ content[d] # c
  /\ Exit(w)
  /\ UNCHANGED <<rows, accepted>>

EndStaging(w) ==
  /\ pc[w] = "staging"
  /\ IF mode[w] = "baseline"
       THEN Exit(w)
       ELSE /\ pc' = [pc EXCEPT ![w] = "draining"]
            /\ UNCHANGED <<lock, mode, claim, reply, batch>>
  /\ UNCHANGED <<rows, accepted>>

-----------------------------------------------------------------------------
(* Draining *)

\* Mutants of AfterInterrupt: interrupted rows are requeued; they get a status
\* the table does not know.
RequeueInterrupted(d) ==
  IF status[d] = "SENDING" THEN "PENDING" ELSE status[d]
MarkInterrupted(d) ==
  IF status[d] = "SENDING" THEN "INTERRUPTED" ELSE status[d]

\* claim_next() first freezes every row an earlier process left in SENDING.
AfterInterrupt(d) == IF status[d] = "SENDING" THEN "UNKNOWN" ELSE status[d]
RetryableAfterInterrupt(d) ==
  IF status[d] = "SENDING" THEN FALSE ELSE retryable[d]

\* Mutant of Claimable: doubtful rows are tried again.
ClaimableInDoubt(w) ==
  {d \in DrainKinds(mode[w]) :
     \/ status[d] = "PENDING"
     \/ status[d] \in {"FAILED", "UNKNOWN"} /\ attempts[d] < MaxAttempts}

\* The rows the SELECT of claim_next can return.  It takes the oldest one;
\* no property here depends on which, so the choice is left open.
Claimable(w) ==
  {d \in DrainKinds(mode[w]) :
     \/ status[d] = "PENDING"
     \/ /\ status[d] = "FAILED"
        /\ retryable[d]
        /\ attempts[d] < MaxAttempts}

Claim(w) ==
  /\ pc[w] = "draining"
  /\ batch[w] < BatchLimit
  /\ \E d \in Claimable(w) :
       /\ status' = [e \in Deliveries |->
                       IF e = d THEN "SENDING" ELSE AfterInterrupt(e)]
       /\ retryable' = [e \in Deliveries |->
                          IF e = d THEN FALSE ELSE RetryableAfterInterrupt(e)]
       /\ attempts' = [attempts EXCEPT ![d] = @ + 1]
       /\ claim' = [claim EXCEPT ![w] = d]
  /\ pc' = [pc EXCEPT ![w] = "sending"]
  /\ UNCHANGED <<content, lock, mode, reply, batch, accepted>>

\* claim_next() found no row: the interrupted rows are frozen all the same.
NothingToClaim(w) ==
  /\ pc[w] = "draining"
  /\ batch[w] < BatchLimit
  /\ Claimable(w) = {}
  /\ status' = [e \in Deliveries |-> AfterInterrupt(e)]
  /\ retryable' = [e \in Deliveries |-> RetryableAfterInterrupt(e)]
  /\ Exit(w)
  /\ UNCHANGED <<attempts, content, accepted>>

BatchExhausted(w) ==
  /\ pc[w] = "draining"
  /\ batch[w] = BatchLimit
  /\ Exit(w)
  /\ UNCHANGED <<rows, accepted>>

\* One webhook request.  A 2xx with a message id is a created message.  A
\* response timeout, a broken transport, a 5xx or a 2xx without an id may or
\* may not have created one.  A connect timeout, 408, 425 or an exhausted 429
\* has not and may be retried; any other status has not and may not.
Send(w) ==
  /\ pc[w] = "sending"
  /\ pc' = [pc EXCEPT ![w] = "answered"]
  /\ \E r \in Replies \ {"none"}, created \in {0, 1} :
       /\ r = "confirmed" => created = 1
       /\ r \in {"retryable", "rejected"} => created = 0
       /\ reply' = [reply EXCEPT ![w] = r]
       /\ accepted' = [accepted EXCEPT ![claim[w]] = @ + created]
  /\ UNCHANGED <<rows, lock, mode, claim, batch>>

\* mark_sent(): compare-and-set on SENDING and the payload hash; the drain
\* goes on with the next claim.  A miss raises and ends the process.
MarkSent(w) ==
  /\ pc[w] = "answered"
  /\ reply[w] = "confirmed"
  /\ IF status[claim[w]] = "SENDING"
       THEN /\ status' = [status EXCEPT ![claim[w]] = "SENT"]
            /\ retryable' = [retryable EXCEPT ![claim[w]] = FALSE]
            /\ pc' = [pc EXCEPT ![w] = "draining"]
            /\ claim' = [claim EXCEPT ![w] = None]
            /\ reply' = [reply EXCEPT ![w] = "none"]
            /\ batch' = [batch EXCEPT ![w] = @ + 1]
            /\ UNCHANGED <<lock, mode>>
       ELSE /\ Exit(w)
            /\ UNCHANGED <<status, retryable>>
  /\ UNCHANGED <<attempts, content, accepted>>

\* The status mark_failed() records: nobody knows about an uncertain delivery.
StatusAfter(r) == IF r = "uncertain" THEN "UNKNOWN" ELSE "FAILED"

\* mark_failed(): compare-and-set on SENDING; the drain stops.
MarkFailed(w) ==
  /\ pc[w] = "answered"
  /\ reply[w] \in {"uncertain", "retryable", "rejected"}
  /\ IF status[claim[w]] = "SENDING"
       THEN /\ status' = [status EXCEPT ![claim[w]] =
                            StatusAfter(reply[w])]
            /\ retryable' = [retryable EXCEPT ![claim[w]] =
                               reply[w] = "retryable"]
       ELSE UNCHANGED <<status, retryable>>
  /\ Exit(w)
  /\ UNCHANGED <<attempts, content, accepted>>

\* The process is killed: between two transactions, or while the request is
\* in flight, in which case the message may have been created.
Crash(w) ==
  /\ pc[w] # "idle"
  /\ \E created \in {0, 1} :
       /\ pc[w] # "sending" => created = 0
       /\ accepted' = IF created = 1
                      THEN [accepted EXCEPT ![claim[w]] = @ + 1]
                      ELSE accepted
  /\ Exit(w)
  /\ UNCHANGED rows

-----------------------------------------------------------------------------
OutboxInit ==
  /\ status    = [d \in Deliveries |-> "ABSENT"]
  /\ attempts  = [d \in Deliveries |-> 0]
  /\ retryable = [d \in Deliveries |-> FALSE]
  /\ content   = [d \in Deliveries |-> None]
  /\ lock      = None
  /\ pc        = [w \in Workers |-> "idle"]
  /\ mode      = [w \in Workers |-> "events"]
  /\ claim     = [w \in Workers |-> None]
  /\ reply     = [w \in Workers |-> "none"]
  /\ batch     = [w \in Workers |-> 0]
  /\ accepted  = [d \in Deliveries |-> 0]

WorkerStep(w) ==
  \/ \E m \in Modes : Begin(w, m)
  \/ \E d \in Deliveries, c \in Contents : StageNew(w, d, c)
  \/ \E d \in Deliveries, c \in Contents : StageConflict(w, d, c)
  \/ EndStaging(w)
  \/ Claim(w)
  \/ NothingToClaim(w)
  \/ BatchExhausted(w)
  \/ Send(w)
  \/ MarkSent(w)
  \/ MarkFailed(w)
  \/ Crash(w)

OutboxNext == \E w \in Workers : WorkerStep(w)

OutboxSpec == OutboxInit /\ [][OutboxNext]_outboxVars

-----------------------------------------------------------------------------
(* The promise this outbox implements *)

Outcome(d) ==
  IF status[d] = "SENT" THEN "delivered"
  ELSE IF status[d] = "UNKNOWN" THEN "doubtful"
  ELSE IF status[d] = "BASELINED" THEN "suppressed"
  ELSE "undecided"

Promise == INSTANCE AtMostOnceDelivery WITH
             Messages <- Deliveries,
             created  <- accepted,
             outcome  <- [d \in Deliveries |-> Outcome(d)]

\* The outbox implements the at-most-once promise step by step.
PromiseSpec == Promise!Spec

-----------------------------------------------------------------------------
(* Properties *)

\* The rows and the worker processes have the types of their tables and local
\* variables (notification_state.py, _initialize and PaperDeliveryClaim).
OutboxTypeOK ==
  /\ status \in [Deliveries -> Statuses]
  /\ attempts \in [Deliveries -> Nat]
  /\ retryable \in [Deliveries -> BOOLEAN]
  /\ content \in [Deliveries -> Contents \cup {None}]
  /\ lock \in Workers \cup {None}
  /\ pc \in [Workers -> {"idle", "staging", "draining", "sending", "answered"}]
  /\ mode \in [Workers -> Modes]
  /\ claim \in [Workers -> Deliveries \cup {None}]
  /\ reply \in [Workers -> Replies]
  /\ batch \in [Workers -> 0..BatchLimit]
  /\ accepted \in [Deliveries -> Nat]

\* "Durable at-most-once outbox": whatever the answers, the kills and the
\* retries, no row ever creates two messages in the channel.
AtMostOnce == \A d \in Deliveries : accepted[d] <= 1

\* A row that a later claim may still pick up has created no message, and a
\* row recorded as SENT has created one: the outbox never lies about delivery.
RecordIsHonest ==
  \A d \in Deliveries :
    /\ status[d] \in {"ABSENT", "PENDING", "FAILED", "BASELINED"}
         => accepted[d] = 0
    /\ status[d] = "SENT" => accepted[d] = 1

\* While a live process waits for, or has to record, the answer to a claim,
\* the row is still SENDING and no other process holds it: the compare-and-set
\* in mark_sent and mark_failed cannot miss, so a confirmed message is never
\* recorded as UNKNOWN by somebody else.
InFlightIsOwned ==
  \A w \in Workers : pc[w] \in {"sending", "answered"} =>
    /\ lock = w
    /\ claim[w] \in Deliveries
    /\ status[claim[w]] = "SENDING"

\* No row is tried more often than the configured limit.
AttemptsBounded ==
  \A d \in Deliveries :
    /\ attempts[d] <= MaxAttempts
    /\ status[d] \in {"ABSENT", "PENDING", "BASELINED"} => attempts[d] = 0

\* SENT, UNKNOWN and BASELINED are final: no step of any process takes a row
\* out of them (docs: an UNKNOWN row waits for a human).  A staged payload is
\* frozen for good.
SettledIsFinal ==
  [][\A d \in Deliveries :
       /\ status[d] \in {"SENT", "UNKNOWN", "BASELINED"}
            => status'[d] = status[d]
       /\ status[d] # "ABSENT" => content'[d] = content[d]]_outboxVars
=============================================================================
