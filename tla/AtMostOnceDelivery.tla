------------------------- MODULE AtMostOnceDelivery -------------------------
(***************************************************************************)
(* What an outbox of this program promises about each message, whatever    *)
(* its table looks like: the message is created in the channel at most     *)
(* once, its outcome is decided at most once, a message is reported        *)
(* delivered only if it was created, and it is suppressed only if it was   *)
(* not.  An outcome may also stay in doubt for ever.                       *)
(***************************************************************************)
EXTENDS Naturals

CONSTANT Messages

VARIABLES
  created,  \* [Messages -> Nat], how often the channel shows the message
  outcome   \* [Messages -> Outcomes], what the outbox reports

Outcomes == {"undecided", "delivered", "doubtful", "suppressed"}

Init ==
  /\ created = [m \in Messages |-> 0]
  /\ outcome = [m \in Messages |-> "undecided"]

\* The channel accepts the message.
Create(m) ==
  /\ created[m] = 0
  /\ outcome[m] = "undecided"
  /\ created' = [created EXCEPT ![m] = 1]
  /\ UNCHANGED outcome

\* Outcomes of any number of messages are decided together.
Decide ==
  /\ outcome' \in [Messages -> Outcomes]
  /\ \A m \in Messages :
       /\ outcome[m] # "undecided" => outcome'[m] = outcome[m]
       /\ outcome[m] # outcome'[m] =>
            /\ outcome'[m] = "delivered" => created[m] = 1
            /\ outcome'[m] = "suppressed" => created[m] = 0
  /\ UNCHANGED created

Next == Decide \/ \E m \in Messages : Create(m)

Spec == Init /\ [][Next]_<<created, outcome>>
=============================================================================
