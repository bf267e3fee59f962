--------------------------- MODULE MCCoordinator ---------------------------
(***************************************************************************)
(* Instances of Coordinator for TLC: who holds an appointment at the start *)
(* (Held) differs from run to run, the rest is given in the cfg files.     *)
(***************************************************************************)
EXTENDS Coordinator, TLC

CONSTANTS anna, ben, carl, dora, morning, afternoon

\* Anna is booked on day 1 and Ben on day 2; the others are new.
TwoRoutes == [o \in {anna, ben} |->
  [day |-> IF o = anna THEN 1 ELSE 2, window |-> morning]]

\* Anna and Ben share the route of day 2; day 1 is free.
SharedRoute == [o \in {anna, ben} |-> [day |-> 2, window |-> morning]]

\* Nothing is booked yet.
NoRoutes == [o \in {} |-> [day |-> 1, window |-> morning]]

\* New customers are alike, and so are worker threads.
Alike == Permutations(Orders \ DOMAIN Held) \cup Permutations(Requests)
=============================================================================
