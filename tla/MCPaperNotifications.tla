------------------------ MODULE MCPaperNotifications ------------------------
(* Two fills of one session,  one daily summary, one worker process at a     *)
(* time (the file lock admits no more).                                      *)
EXTENDS PaperNotifications

CONSTANTS f1, f2, s1, d1, v1, v2, w1

MCFills     == {f1, f2}
MCDailies   == {d1}
MCWorkers   == {w1}
MCSessions  == {s1}
MCSessionOf == [f \in MCFills |-> s1]
MCContents  == {v1, v2}
NewVersion  == {v2}
=============================================================================
