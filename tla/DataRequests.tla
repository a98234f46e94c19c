---------------------------- MODULE DataRequests ----------------------------
(***************************************************************************)
(* What the queue of market-data requests promises to a consumer, whatever *)
(* its table looks like: a request that has been asked for is open until   *)
(* its verdict, success only comes after a version has been published for  *)
(* it, and a verdict is never taken back.                                  *)
(***************************************************************************)
CONSTANT Requests

VARIABLES
  verdict,   \* [Requests -> Verdicts]
  published  \* requests for which a version has been published

Verdicts == {"absent", "open", "success", "failed"}

Open == {r \in Requests : verdict[r] = "open"}

Init ==
  /\ verdict = [r \in Requests |-> "absent"]
  /\ published = {}

\* Asking again for what has been asked for changes nothing.
Ask(r) ==
  /\ verdict' = [verdict EXCEPT ![r] = IF @ = "absent" THEN "open" ELSE @]
  /\ UNCHANGED published

Publish(r) ==
  /\ r \in Open
  /\ published' = published \cup {r}
  /\ UNCHANGED verdict

Succeed(r) ==
  /\ r \in Open \cap published
  /\ verdict' = [verdict EXCEPT ![r] = "success"]
  /\ UNCHANGED published

\* Any number of requests may be given up together.
Fail(R) ==
  /\ R \subseteq Open
  /\ R # {}
  /\ verdict' = [r \in Requests |-> IF r \in R THEN "failed" ELSE verdict[r]]
  /\ UNCHANGED published

Next ==
  \/ \E r \in Requests : Ask(r) \/ Publish(r) \/ Succeed(r)
  \/ \E R \in SUBSET Requests : Fail(R)

Spec == Init /\ [][Next]_<<verdict, published>>
=============================================================================
