------------------------ MODULE ImmutablePublication ------------------------
(***************************************************************************)
(* What a store of generations with a publication pointer promises its     *)
(* readers: a finished generation never changes, everything it refers to   *)
(* is finished too, and the pointer only ever names a finished one.  A     *)
(* reader that has read the pointer can go on reading at its leisure.      *)
(***************************************************************************)
CONSTANT Refs(_)   \* the generations a content takes parts from

VARIABLES
  store,      \* finished generations: id -> content
  published   \* the id the pointer names

Closed == \A id \in DOMAIN store : Refs(store[id]) \subseteq DOMAIN store

Init == Closed /\ published \in DOMAIN store

Finish ==
  /\ \A id \in DOMAIN store : id \in DOMAIN store' /\ store'[id] = store[id]
  /\ Closed'
  /\ UNCHANGED published

Point ==
  /\ published' \in DOMAIN store
  /\ UNCHANGED store

Spec == Init /\ [][Finish \/ Point]_<<store, published>>
=============================================================================
