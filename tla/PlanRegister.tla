---------------------------- MODULE PlanRegister ----------------------------
(***************************************************************************)
(* What plan_service.publish_plan_version promises its callers: per        *)
(* delivery date an append-only history of published routes.  A            *)
(* transaction publishes a route for one date, or for the date a customer  *)
(* moves to and the date they leave, in a single step; publishing what is  *)
(* already active adds nothing.  The active plan is the last entry.        *)
(***************************************************************************)
EXTENDS Sequences, SequencesExt

CONSTANTS Days,   \* delivery dates
          Plans   \* what a route promises: who, in what order, at what time

VARIABLE history  \* [Days -> Seq(Plans)]

\* What one transaction publishes: a route for each of one or two dates.
Batches == UNION {[S -> Plans] : S \in {{d, e} : d, e \in Days}}

After(h, plan) == IF h # << >> /\ Last(h) = plan THEN h ELSE Append(h, plan)

Init == history = [d \in Days |-> << >>]

Publish(batch) ==
  history' = [d \in Days |-> IF d \in DOMAIN batch THEN After(history[d], batch[d])
                                                  ELSE history[d]]

Next == \E batch \in Batches : Publish(batch)

Spec == Init /\ [][Next]_history
=============================================================================
