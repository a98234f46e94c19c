---------------------------- MODULE EventOutbox -----------------------------
(***************************************************************************)
(* The Discord outbox of the event worker (ep_ai_outbox): one row per      *)
(* official text, all about one ticker here.  Only the worker delivers,    *)
(* under its file lock, but it may be killed at any point of a send.       *)
(***************************************************************************)
EXTENDS Naturals

CONSTANT
  MaxRetries  \* a delivery that certainly failed is repeated this often

VARIABLES
  outbox,   \* partial function: text -> [state, tries, age]
  accepted  \* text -> how often Discord shows it

RowStates ==
  {"PENDING", "RETRY", "SENDING", "SENT", "UNKNOWN", "HELD", "FAILED",
   "EXPIRED"}

\* The age of the row's last update: below two minutes, below an hour, above.
Ages == 0..2

Waiting == {m \in DOMAIN outbox : outbox[m].state \in {"PENDING", "RETRY"}}

Row == [state |-> "PENDING", tries |-> 0, age |-> 0]

\* Insert or ignore, by the text's identity.
Inserted(ms) ==
  [m \in DOMAIN outbox \union ms |->
     IF m \in DOMAIN outbox THEN outbox[m] ELSE Row]

\* Mutant of Interrupted: it is taken for one that never left.
InterruptedRetries(m) ==
  IF outbox[m].state = "SENDING" /\ outbox[m].age >= 1
  THEN [outbox[m] EXCEPT !.state = "RETRY"]
  ELSE outbox[m]

\* A send interrupted two minutes ago is in doubt, for ever.
Interrupted(m) ==
  IF outbox[m].state = "SENDING" /\ outbox[m].age >= 1
  THEN [outbox[m] EXCEPT !.state = "UNKNOWN"]
  ELSE outbox[m]

\* Mutant of Cooling: only confirmed messages hold back the ticker.
CoolingIfSent(m) ==
  \E p \in DOMAIN outbox \ {m} :
    outbox[p].state = "SENT" /\ outbox[p].age < 2

\* What may already stand in the channel holds back the ticker for an hour.
Cooling(m) ==
  \E p \in DOMAIN outbox \ {m} :
    /\ outbox[p].state \in {"SENT", "SENDING", "UNKNOWN"}
    /\ outbox[p].age < 2

\* The first transaction of a delivery begins with it: interrupted sends are
\* in doubt, and of the waiting rows those in "old" (ninety minutes) expire.
Swept(old) ==
  [m \in DOMAIN outbox |->
     IF m \in old THEN [outbox[m] EXCEPT !.state = "EXPIRED"]
     ELSE Interrupted(m)]

\* It goes on to take a row, or holds one whose route is no longer the
\* configured one.
Take(m, old, state) ==
  /\ m \in Waiting \ old
  /\ ~Cooling(m)
  /\ outbox' = [Swept(old) EXCEPT
                  ![m] = IF state = "HELD" THEN [@ EXCEPT !.state = "HELD"]
                         ELSE [state |-> "SENDING", age |-> 0,
                               tries |-> @.tries + 1]]
  /\ UNCHANGED accepted

\* Or it finds none and the delivery ends.
TakeNone(old) ==
  /\ \A m \in Waiting \ old : Cooling(m)
  /\ outbox' = Swept(old)
  /\ UNCHANGED accepted

\* Discord creates the message.
Accept(m) ==
  /\ accepted' = [accepted EXCEPT ![m] = @ + 1]
  /\ UNCHANGED outbox

\* What the worker can make of the answer; only a message that certainly was
\* not created is repeated or given up.
Answers(m, created) ==
  IF created THEN {"SENT", "UNKNOWN"}
  ELSE {"HELD", "UNKNOWN", "FAILED"}
         \union IF outbox[m].tries <= MaxRetries THEN {"RETRY"} ELSE {}

\* The second transaction, only while the row is still SENDING.
Answer(m, state) ==
  /\ outbox' = IF outbox[m].state = "SENDING"
               THEN [outbox EXCEPT ![m].state = state] ELSE outbox
  /\ UNCHANGED accepted

\* Time passes for one row; only what the cooldown and the recovery of
\* interrupted sends compare is kept.
GetOlder(m) ==
  /\ m \in DOMAIN outbox
  /\ outbox[m].age < 2
  /\ outbox[m].state \in {"SENDING", "SENT", "UNKNOWN"}
  /\ outbox' = [outbox EXCEPT ![m].age = @ + 1]
  /\ UNCHANGED accepted
=============================================================================
