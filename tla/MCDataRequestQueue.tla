------------------------- MODULE MCDataRequestQueue -------------------------
(* Requests that fit in one batch and one that does not, and one worker      *)
(* process: systemd runs the unit once at a time.                            *)
EXTENDS DataRequestQueue
CONSTANTS r1, r2, r3, w1
MCRequests  == {r1, r2, r3}
OneWorker   == {w1}
=============================================================================
