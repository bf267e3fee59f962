---------------------------- MODULE MCAgentLoop ----------------------------
(***************************************************************************)
(* AgentLoop for TLC: a run from the page tries the tools a model was seen *)
(* to reach for beside those the rules use.                                *)
(***************************************************************************)
EXTENDS AgentLoop

PlainTools ==
  {"record_rejection", "evaluate_slots", "suggest_route_aware_windows",
   "create_offer", "create_exception", "send_message", "finish",
   "find_insertion_options", "create_normal_offer", "find_ready_replacements",
   "replan_day"}
=============================================================================
