--------------------------- MODULE MCBacktestTasks ---------------------------
(***************************************************************************)
(* A task on a named universe and one on a watchlist, in two shapes: one   *)
(* of them alone, with every version still to come and a restart, and both *)
(* together, with a version behind them and no restart.                    *)
(***************************************************************************)
EXTENDS BacktestTasks

CONSTANTS named, watchlist, u1, r1

MCTasks    == {named, watchlist}
NamedOnly  == {named}
MCNamed    == {u1}
MCRequests == {r1}
MCSource   == [t \in Tasks |-> IF t = named THEN u1 ELSE r1]

Created == {t \in Tasks : at[t] = "new"}

Alone ==
  /\ Cardinality(Created) = 1 /\ restarts = 0
  /\ \A t \in Tasks :
       /\ data[Source[t]] = IF t \in Created THEN 0 ELSE MaxVersion
       /\ fits[t] = {}

\* The last version of the named universe covers its task, the first one of
\* the watchlist does not.
Together ==
  /\ Created = Tasks /\ restarts = MaxRestarts
  /\ \A t \in Tasks :
       /\ data[Source[t]] = IF IsNamed(t) THEN MaxVersion ELSE MaxVersion - 1
       /\ fits[t] = IF IsNamed(t) THEN {MaxVersion} ELSE {}

MCInit == TasksInit /\ (Alone \/ Together)

MCSpec == MCInit /\ [][TasksNext]_taskVars /\ TasksFairness
=============================================================================
