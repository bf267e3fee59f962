---------------------------- MODULE Appointments ----------------------------
(***************************************************************************)
(* What the scheduling system promises, without offers, requests or rows:  *)
(* each customer holds at most one appointment, an appointment is made or  *)
(* moved for one customer at a time and never withdrawn, and each date's   *)
(* route is at every moment the appointments on it.                        *)
(***************************************************************************)
CONSTANTS Orders, Days, Windows, None

VARIABLES
  promise, \* [Orders -> (Days \X Windows) \cup {None}]
  route    \* [Days -> the stops of its active route, customer to window]

vars == <<promise, route>>

Stops(promised, d) ==
  [o \in {q \in Orders : promised[q] # None /\ promised[q][1] = d} |-> promised[o][2]]

Init ==
  /\ promise \in [Orders -> (Days \X Windows) \cup {None}]
  /\ route = [d \in Days |-> Stops(promise, d)]

\* One customer accepts: their appointment and the routes change together.
Confirm(o, d, w) ==
  /\ promise' = [promise EXCEPT ![o] = <<d, w>>]
  /\ route' = [x \in Days |-> Stops(promise', x)]

Next == \E o \in Orders, d \in Days, w \in Windows : Confirm(o, d, w)
Spec == Init /\ [][Next]_vars
=============================================================================
