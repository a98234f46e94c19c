------------------------ MODULE MCNotificationOutbox ------------------------
(* Instance of NotificationOutbox for TLC: two fills and one daily summary, *)
(* two contents so that a payload can change, two worker processes.         *)
EXTENDS NotificationOutbox, TLC

CONSTANTS f1, f2, s1, c1, c2, w1, w2

MCFills    == {f1, f2}
MCDailies  == {s1}
MCContents == {c1, c2}
MCWorkers  == {w1, w2}

\* Fills, contents and workers are interchangeable: no action names one.
Symmetry == Permutations(MCFills) \cup Permutations(MCContents)
              \cup Permutations(MCWorkers)
=============================================================================
