------------------------------- MODULE AgentRun -------------------------------
(***************************************************************************)
(* What one run of the scheduling agent promises the customer whose        *)
(* message started it, whoever takes the decisions inside it: a run works  *)
(* on what its event permits and on nothing else, writes to the customer   *)
(* at most once, and ends in silence only when it failed before it did     *)
(* anything.  AgentLoop shows how the code keeps the promise.              *)
(***************************************************************************)
EXTENDS Sequences, Naturals

CONSTANT Permitted(_)   \* the effects an event may have on the records

VARIABLES event, status, said, effects

runVars == <<event, status, said, effects>>

Ended == {"COMPLETED", "FAILED", "STEP_LIMIT_REACHED"}

Init ==
  /\ status = "RUNNING"
  /\ said = <<>>
  /\ effects = {}

(* The run works: records change within the permission, and the customer   *)
(* may be written to once.                                                 *)
Work ==
  /\ effects \subseteq effects'
  /\ effects' \subseteq Permitted(event)
  /\ said' = said \/ (said = <<>> /\ Len(said') = 1)

Continue == Work /\ UNCHANGED status

End ==
  /\ Work
  /\ status' \in Ended
  /\ said' = <<>> => status' = "FAILED" /\ effects' = {}

Next == status = "RUNNING" /\ (Continue \/ End) /\ UNCHANGED event

Spec == Init /\ [][Next]_runVars
=============================================================================
