----------------------------- MODULE EventQueue -----------------------------
(***************************************************************************)
(* The durable queue of the EP event pipeline: one row per work item of a  *)
(* stage, claimed with a lease of ten minutes and finished only under it.  *)
(* Its callers are processes of which one at a time works a stage, so a    *)
(* claim is lost only when its lease lapses.                               *)
(***************************************************************************)
VARIABLES
  jobs,  \* partial function: <<stage, item>> -> [state, lapsed]
  over   \* TRUE once the 72 hours the event is kept have passed

\* PENDING stands for PENDING and RETRY, which are claimed alike once due.
JobStates ==
  {"PENDING", "RUNNING", "BLOCKED", "COMPLETE", "EXCLUDED", "EXPIRED"}

Terminal == {"COMPLETE", "EXCLUDED", "EXPIRED"}

IsIn(k, state) == k \in DOMAIN jobs /\ jobs[k].state = state

\* A lease that has lapsed no longer protects the row.
Leased(k) == IsIn(k, "RUNNING") /\ ~jobs[k].lapsed

\* Mutant of Ready: a row whose worker died is never claimed again.
ReadyIfPending(k) == ~over /\ IsIn(k, "PENDING")

Ready(k) ==
  /\ ~over
  /\ IsIn(k, "PENDING") \/ (IsIn(k, "RUNNING") /\ jobs[k].lapsed)

Job(state) == [state |-> state, lapsed |-> FALSE]

\* Insert or ignore: a row that exists keeps its state and its history.
Added(ks) ==
  [k \in DOMAIN jobs \union ks |->
     IF k \in DOMAIN jobs THEN jobs[k]
     ELSE Job(IF over THEN "EXPIRED" ELSE "PENDING")]

Claimed(k) == [jobs EXCEPT ![k] = Job("RUNNING")]

\* The update of finish names the lease: without it no row changes and the
\* caller gets EP_JOB_LEASE_LOST.
Finished(k, state) ==
  IF Leased(k) THEN [jobs EXCEPT ![k] = Job(state)] ELSE jobs

\* Every pass of every lane starts with it: rows past the retention, unless a
\* living lease protects them, take their final state.
Expire ==
  /\ over
  /\ jobs' = [k \in DOMAIN jobs |->
                IF jobs[k].state \in Terminal \/ Leased(k)
                THEN jobs[k] ELSE Job("EXPIRED")]
  /\ UNCHANGED over

\* Ten minutes pass.
Lapse(k) ==
  /\ Leased(k)
  /\ jobs' = [jobs EXCEPT ![k].lapsed = TRUE]
  /\ UNCHANGED over

\* Seventy-two hours pass.
Retire ==
  /\ ~over
  /\ over' = TRUE
  /\ UNCHANGED jobs

QueueInit == jobs = << >> /\ over = FALSE
=============================================================================
