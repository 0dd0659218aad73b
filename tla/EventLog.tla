------------------------------ MODULE EventLog ------------------------------
(***************************************************************************)
(* What the event store of family-event-service promises to everybody who  *)
(* reads it: a valid event that somebody offered is recorded at most once, *)
(* under an identity no other event has, and stays as it was recorded.     *)
(***************************************************************************)
EXTENDS Naturals

CONSTANTS Events, Invalid, NoRow

VARIABLES
  offered,   \* events published to the stream or posted to the API
  log        \* the row of each event, NoRow while it has none

logVars == <<offered, log>>

Init == offered = {} /\ log = [e \in Events |-> NoRow]

Offer(e) == offered' = offered \cup {e} /\ UNCHANGED log

Record(e) ==
  /\ e \in offered \ Invalid
  /\ log[e] = NoRow
  /\ log'[e] \in Nat
  /\ \A d \in Events : log[d] # log'[e]
  /\ log' = [log EXCEPT ![e] = log'[e]]
  /\ UNCHANGED offered

Next == \E e \in Events : Offer(e) \/ Record(e)

Spec == Init /\ [][Next]_logVars
=============================================================================
