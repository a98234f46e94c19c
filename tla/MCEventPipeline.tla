-------------------------- MODULE MCEventPipeline --------------------------
(***************************************************************************)
(* Two shapes of the pipeline in one run: both revisions with the lanes    *)
(* alone and two faults, and one revision with every process and one       *)
(* fault.                                                                  *)
(***************************************************************************)
EXTENDS EventPipeline

RevisedEvent ==
  feed = Documents \X {1, 2} /\ units = {"news", "source"} /\ trouble = 0

WholeLine ==
  feed = Documents \X {1} /\ units = Processes /\ trouble = 1

MCInit == Init /\ (RevisedEvent \/ WholeLine)

MCSpec == MCInit /\ [][Next]_vars /\ Fairness
=============================================================================
