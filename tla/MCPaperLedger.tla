--------------------------- MODULE MCPaperLedger ---------------------------
(* A two-ticker market of four sessions.  Ticker 1 has no open in session 2, *)
(* ticker 2 too little volume for two shares in session 2 and for one in     *)
(* session 4.  Both tickers go ex-dividend while they may be held, and the   *)
(* cash does not pay for both targets at every open.                         *)
EXTENDS PaperLedger

MCOpen  == << <<3, 0, 6, 4>>, <<2, 2, 3, 2>> >>
MCClose == << <<3, 3, 5, 4>>, <<2, 2, 3, 2>> >>
MCCap   == << <<2, 2, 2, 1>>, <<2, 1, 2, 0>> >>
MCDiv   == << <<0, 0, 0, 1>>, <<0, 0, 1, 2>> >>

MCTargets == {<<1, 2>>, <<0, 1>>}
=============================================================================
