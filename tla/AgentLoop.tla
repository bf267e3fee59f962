------------------------------- MODULE AgentLoop -------------------------------
(***************************************************************************)
(* One run of the scheduling agent (agents/scheduling_agent.py): observe,  *)
(* then decide and act until the run finishes or its steps are used up,    *)
(* then the completion guarantee.  A language model or the rule decider    *)
(* chooses the tool; legal_actions and dispatch (planning/tools.py) decide *)
(* what the choice can do.  Meanwhile another request may answer the offer *)
(* the message was about.                                                  *)
(*                                                                         *)
(* Abstracted: what a tool computes (any of its outcomes may happen), the  *)
(* wording (its kind is kept), the log.  A decider names the order of its  *)
(* own run, or arguments the tool rejects.  Every event modelled has a     *)
(* customer waiting for its answer.                                        *)
(***************************************************************************)
EXTENDS Naturals, Sequences, FiniteSets

CONSTANTS MaxToolSteps,   \* decisions one run may act on
          OpenTools,      \* the part of the registry an unscoped run tries
          Stray           \* what a model may name outside its scope

VARIABLES event,      \* what started the run
          pc,         \* "observe", "decide", "act", "ended", "done"
          decision,   \* the pending decision: a tool's name
          ctx,        \* ToolContext: what the tools of this run have left
          run,        \* AgentRunLog and the loop's counters
          store,      \* what the run wrote for others to read
          offer       \* the offer the customer is answering

vars == <<event, pc, decision, ctx, run, store, offer>>

INTENT_TOOLS ==
  [explain |-> {"explain_offer", "send_message", "finish"},
   accept |-> {"confirm_offer", "send_message", "finish"},
   reject |-> {"record_rejection", "find_fallback_options", "escalate_booking",
               "send_message", "finish"},
   provide_availability |->
      {"record_availability", "find_normal_slot", "find_requested_day_slot",
       "escalate_booking", "send_message", "finish"},
   policy_question |-> {"search_delivery_policy", "answer_from_policy",
                        "escalate_booking", "send_message", "finish"},
   general_support |-> {"ask_clarification", "escalate_booking",
                        "send_message", "finish"},
   unclear |-> {"ask_clarification", "escalate_booking",
                "send_message", "finish"}]

Searches == {"find_normal_slot", "find_requested_day_slot",
             "find_fallback_options"}
InsertionOffers == {"create_normal_offer", "create_alternative_offer"}
ReadOnly == {"retrieve_policy", "get_existing_routes",
             "suggest_route_aware_windows"}
Explanations == {"explain_offer", "explain_choice"}

TOOL_REGISTRY ==
  (UNION {INTENT_TOOLS[i] : i \in DOMAIN INTENT_TOOLS})
    \cup InsertionOffers \cup ReadOnly \cup Explanations
    \cup {"evaluate_slots", "create_offer", "find_insertion_options",
          "replan_day", "find_ready_replacements", "create_exception",
          "lock_appointment"}

ASSUME AgentAssumption ==
  /\ MaxToolSteps \in Nat \ {0}
  /\ OpenTools \subseteq TOOL_REGISTRY
  /\ Stray \subseteq TOOL_REGISTRY \cup {"unknown"}

(* The events src creates.  A chat turn carries an intent, and is decided  *)
(* by the rules alone when no provider is configured; the page's own       *)
(* events carry none.                                                      *)
Event(types, intents, stated, scopes, deciders) ==
  [type : types, intent : intents, stated : stated, scope : scopes,
   decider : deciders]

Events ==
  LET Both == {"model", "rule"} IN
  UNION {Event({"NEW_ORDER"}, {"provide_availability"}, BOOLEAN,
               {"cluster", "requested"}, Both),
         Event({"CUSTOMER_ACCEPTED_OFFER"}, {"accept"}, {FALSE}, {"none"}, Both),
         Event({"CUSTOMER_REJECTED_OFFER"}, {"reject"}, BOOLEAN, {"none"}, Both),
         Event({"MANUAL_RETRY"},
               {"explain", "policy_question", "general_support", "unclear"},
               {FALSE}, {"none"}, Both),
         Event({"NEW_ORDER", "CUSTOMER_REJECTED_OFFER"}, {"none"}, {FALSE},
               {"none"}, {"model"})}

(* ctx.allowed_tools *)
Scope ==
  IF event.intent = "none" THEN OpenTools
  ELSE INTENT_TOOLS[event.intent] \
         (CASE event.scope = "cluster" -> {"find_requested_day_slot"}
            [] event.scope = "requested" -> {"find_normal_slot"}
            [] OTHER -> {})

(* ctx.accepted: set by the acceptance event and by nothing else *)
Accepted == event.type = "CUSTOMER_ACCEPTED_OFFER"

Done(t) == t \in ctx.succeeded
Prepared == ctx.offerMessage \/ ctx.customerMessage # "none"
Wording == IF ctx.offerMessage THEN "offer" ELSE ctx.customerMessage
Recorded == event.stated => Done("record_availability")

-----------------------------------------------------------------------------
(* What dispatch will accept now *)

(* A policy question is a hand-off: search, then answer or escalate. *)
PolicyGate ==
  IF Scope # INTENT_TOOLS["policy_question"] THEN {}
  ELSE IF "search_delivery_policy" \notin run.attempted
         THEN {"search_delivery_policy"}
  ELSE IF Done("search_delivery_policy") /\ ~Done("answer_from_policy")
         THEN {"answer_from_policy"}
  ELSE IF ~Done("search_delivery_policy") /\ ~Done("escalate_booking")
         THEN {"escalate_booking"}
  ELSE {}

SupportGateMutant ==
  /\ Scope = INTENT_TOOLS["general_support"]
  /\ Done("ask_clarification") /\ ~Done("escalate_booking")
  /\ ~Prepared

(* The clarification of a support request is followed by its escalation.   *)
(* "unclear" has the same tools, so the rule binds it too.                 *)
SupportGate ==
  /\ Scope = INTENT_TOOLS["general_support"]
  /\ Done("ask_clarification") /\ ~Done("escalate_booking")

BlockedMutant ==
  (IF Done("record_rejection") THEN {} ELSE {"find_fallback_options"})
    \cup (IF ctx.searched THEN {} ELSE InsertionOffers)
    \cup (IF Accepted THEN {} ELSE {"lock_appointment", "confirm_offer"})
    \cup (IF Prepared THEN {} ELSE {"send_message"})
    \cup (IF Done("search_delivery_policy") THEN {} ELSE {"answer_from_policy"})

(* Prerequisites of the tools that are left *)
Blocked ==
  (IF Recorded THEN {} ELSE Searches)
    \cup (IF Done("record_rejection") THEN {} ELSE {"find_fallback_options"})
    \cup (IF ctx.searched THEN {} ELSE InsertionOffers)
    \cup (IF Accepted THEN {} ELSE {"lock_appointment", "confirm_offer"})
    \cup (IF Prepared THEN {} ELSE {"send_message"})
    \cup (IF Done("search_delivery_policy") THEN {} ELSE {"answer_from_policy"})

legal_actions ==
  IF Accepted /\ Done("confirm_offer") THEN {"finish"}
  ELSE IF PolicyGate # {} THEN PolicyGate
  ELSE IF SupportGate THEN {"escalate_booking"}
  ELSE IF Done("send_message") THEN {"finish"}
  ELSE IF Prepared /\ "send_message" \in Scope THEN {"send_message"}
  ELSE {"finish"} \cup ((Scope \ ctx.succeeded) \ Blocked)

-----------------------------------------------------------------------------
(* Deciding *)

Tried(t) == t \in run.attempted
LastFailed(t) == t \in run.failed
Untried(t) == ~Tried(t)

(* The rule decider is a list of rules; the first that applies decides. *)
FirstRule(rules) ==
  rules[CHOOSE i \in DOMAIN rules :
          rules[i].when /\ \A j \in 1..(i - 1) : ~rules[j].when].tool

Rule(when, tool) == [when |-> when, tool |-> tool]

Reply == Rule(Untried("send_message") /\ Prepared, "send_message")
Finally == Rule(TRUE, "finish")

PolicyRules ==
  LET hits == Done("search_delivery_policy") IN
  <<Rule(Untried("search_delivery_policy"), "search_delivery_policy"),
    Rule(hits /\ Untried("answer_from_policy"), "answer_from_policy"),
    Rule(Untried("send_message") /\ hits, "send_message"),
    Rule(Untried("send_message"), "escalate_booking"),
    Finally>>

InsertionRules(search) ==
  <<Rule(Untried(search), search),
    Rule(LastFailed(search) /\ Untried("escalate_booking"), "escalate_booking"),
    Rule(Untried("send_message"), "send_message"),
    Finally>>

AvailabilityRules ==
  <<Rule(event.stated /\ Untried("record_availability"), "record_availability"),
    Rule(event.stated /\ LastFailed("record_availability")
           /\ Untried("send_message") /\ Prepared, "send_message"),
    Rule(event.stated /\ LastFailed("record_availability"), "finish")>>
  \o InsertionRules(IF event.scope = "requested" THEN "find_requested_day_slot"
                                                 ELSE "find_normal_slot")

(* After a failed offer the rules write a message of their own; it has no  *)
(* prepared wording, so dispatch refuses it.                               *)
OfferRules ==
  <<Rule(Untried("create_offer"), "create_offer"),
    Rule(LastFailed("create_offer") /\ Untried("create_exception"),
         "create_exception"),
    Rule(LastFailed("create_offer") /\ Untried("send_message"), "send_message"),
    Reply, Finally>>

PlainOrderRules == <<Rule(Untried("evaluate_slots"), "evaluate_slots")>> \o OfferRules

PlainRejectionRules ==
  <<Rule(Untried("record_rejection"), "record_rejection"),
    Rule(Untried("evaluate_slots"), "evaluate_slots"),
    Rule(Untried("suggest_route_aware_windows"), "suggest_route_aware_windows")>>
  \o OfferRules

RejectionRules ==
  <<Rule(Untried("record_rejection"), "record_rejection")>>
  \o InsertionRules("find_fallback_options")

RetryRules ==
  <<Rule(event.intent = "explain" /\ Untried("explain_offer"), "explain_offer"),
    Rule(event.intent # "explain" /\ Untried("ask_clarification"),
         "ask_clarification"),
    Rule(event.intent = "general_support" /\ Untried("escalate_booking"),
         "escalate_booking"),
    Reply, Finally>>

RuleDecision ==
  FirstRule(
    CASE event.intent = "policy_question" -> PolicyRules
      [] event.intent = "provide_availability" -> AvailabilityRules
      [] event.intent = "reject" -> RejectionRules
      [] event.intent = "accept" ->
           <<Rule(Untried("confirm_offer"), "confirm_offer"), Finally>>
      [] event.intent \in {"explain", "general_support", "unclear"} -> RetryRules
      [] event.intent = "none" /\ event.type = "NEW_ORDER" -> PlainOrderRules
      [] OTHER -> PlainRejectionRules)

(* The gate binds a decision it does not permit only when one move is      *)
(* left; with more than one, dispatch refuses it.                          *)
Gated(choice, legal) ==
  IF choice \in legal \/ Cardinality(legal) > 1 THEN choice
  ELSE CHOOSE only \in legal : TRUE

(* The controller takes the decisions that are none.  Otherwise the model  *)
(* may name anything, and when it cannot be reached the rules decide in    *)
(* its place, past the gate.                                               *)
Decisions ==
  LET legal == legal_actions IN
  IF legal \in {{"finish"}, {"search_delivery_policy"}, {"send_message"}}
    THEN legal
  ELSE IF Accepted /\ "confirm_offer" \in legal THEN {"confirm_offer"}
  ELSE IF event.decider = "rule" THEN {Gated(RuleDecision, legal)}
  ELSE {Gated(a, legal) : a \in Scope \cup Stray}
         \cup {RuleDecision}

Observe ==
  /\ pc = "observe"
  /\ \/ pc' = "decide" /\ ctx' = [ctx EXCEPT !.order = "own"] /\ UNCHANGED run
     \/ pc' = "ended" /\ run' = [run EXCEPT !.error = TRUE] /\ UNCHANGED ctx
  /\ UNCHANGED <<event, decision, store, offer>>

Decide ==
  /\ pc = "decide"
  /\ decision' \in Decisions
  /\ pc' = "act"
  /\ UNCHANGED <<event, ctx, run, store, offer>>

(* A node raises: the graph is left at once. *)
Raise ==
  /\ pc = "decide"
  /\ run' = [run EXCEPT !.error = TRUE]
  /\ pc' = "ended"
  /\ UNCHANGED <<event, decision, ctx, store, offer>>

-----------------------------------------------------------------------------
(* Acting: every call is a step, whatever becomes of it *)

(* The calls the rules and the policy gate look back at: an attempt is kept *)
(* for the tools they ask about, its failure where they ask whether the     *)
(* last attempt failed; the log also shows a hand-over that failed.         *)
LookedBackAt ==
  Searches \cup {"search_delivery_policy", "answer_from_policy", "send_message",
               "record_availability", "record_rejection", "evaluate_slots",
               "suggest_route_aware_windows", "create_offer", "create_exception",
               "escalate_booking", "confirm_offer", "explain_offer",
               "ask_clarification"}
FailureMatters ==
  Searches \cup {"record_availability", "create_offer", "escalate_booking"}

Logged(ok, step) ==
  [run EXCEPT !.step = step,
              !.attempted = @ \cup ({decision} \cap Scope \cap LookedBackAt),
              !.failed = IF ok THEN @ \ {decision}
                         ELSE @ \cup ({decision} \cap Scope \cap FailureMatters),
              !.completed = decision = "finish"]

StepMutant(ok) ==
  /\ pc = "act"
  /\ run' = Logged(ok, IF ok THEN run.step + 1 ELSE run.step)
  /\ pc' = IF run'.completed \/ run'.step >= MaxToolSteps THEN "ended" ELSE "decide"
  /\ decision' = "none"
  /\ UNCHANGED event

StepLateMutant(ok) ==
  /\ pc = "act"
  /\ run' = Logged(ok, run.step + 1)
  /\ pc' = IF run'.completed \/ run'.step > MaxToolSteps THEN "ended" ELSE "decide"
  /\ decision' = "none"
  /\ UNCHANGED event

Step(ok) ==
  /\ pc = "act"
  /\ run' = Logged(ok, run.step + 1)
  /\ pc' = IF run'.completed \/ run'.step >= MaxToolSteps THEN "ended" ELSE "decide"
  /\ decision' = "none"
  /\ UNCHANGED event

CallMutant(t) == decision = t /\ pc = "act"

(* dispatch reaches the tool: the gate is the set the decision was made from *)
Call(t) == decision = t /\ t \in legal_actions

Succeed(t, context, written) ==
  /\ Call(t) /\ Step(TRUE)
  /\ ctx' = [context EXCEPT !.succeeded = @ \cup {t}]
  /\ store' = written

Fail(t, context, written) ==
  /\ Call(t) /\ Step(FALSE)
  /\ ctx' = context /\ store' = written

Did(effect) == [store EXCEPT !.effects = @ \cup {effect}]
Offered(to) ==
  [store EXCEPT !.effects = @ \cup {"offered"}, !.offers = @ \cup {to}]
Sent(written, to, kind) ==
  [written EXCEPT !.messages = Append(@, [to |-> to, kind |-> kind])]

Saying(reply) == [ctx EXCEPT !.customerMessage = reply]
Aware == [ctx EXCEPT !.offerMessage = TRUE, !.searched = TRUE]

Refused ==
  /\ decision \notin legal_actions /\ decision # "finish"
  /\ Step(FALSE)
  /\ UNCHANGED <<ctx, store, offer>>

(* The decision to finish ends the run even where dispatch refuses it. *)
Finish ==
  /\ decision = "finish"
  /\ Step(decision \in legal_actions)
  /\ UNCHANGED <<ctx, store, offer>>

(* Arguments the tool does not take, a record it does not find, an         *)
(* exception before its first write (for one after it: escalate_booking).  *)
ToolFails ==
  /\ decision \notin {"send_message", "finish"}
  /\ Fail(decision, ctx, store)
  /\ UNCHANGED offer

record_availability ==
  /\ event.stated
  /\ \/ Succeed("record_availability", [ctx EXCEPT !.order = "own"],
                Did("availability"))
     \/ Fail("record_availability", Saying("reply"), store)   \* outside the horizon
  /\ UNCHANGED offer

record_rejection ==
  /\ event.type = "CUSTOMER_REJECTED_OFFER"
  /\ Succeed("record_rejection", [ctx EXCEPT !.order = "own"], Did("rejection"))
  /\ UNCHANGED offer

find_slot ==
  /\ \E t \in Searches :
       \/ Succeed(t, Aware, Offered("own"))
       \/ \E found \in BOOLEAN :
            Fail(t, [ctx EXCEPT !.searched = found], store)
       \/ /\ t # "find_fallback_options"                \* no postal code; no room
          /\ \E found \in {ctx.searched, FALSE} :
               Fail(t, [Saying("reply") EXCEPT !.searched = found], store)
  /\ UNCHANGED offer

confirm_offer ==
  \/ /\ offer = "open"
     /\ Succeed("confirm_offer", ctx,
                Sent(Did("booked"), "own", "confirmation"))
     /\ offer' = "accepted"
  \/ /\ offer = "open"                     \* the day cannot hold the slot
     /\ Fail("confirm_offer", ctx, Did("exception"))
     /\ UNCHANGED offer
  \/ /\ offer = "accepted"                 \* idempotent: nothing is written
     /\ Succeed("confirm_offer", ctx, store)
     /\ UNCHANGED offer

explain_offer ==
  /\ offer = "open" \/ ctx.evaluated
  /\ \E t \in Explanations : Succeed(t, Saying("reply"), store)
  /\ UNCHANGED offer

(* "A coordinator will call you" is worded before the coordinator's row is *)
(* saved; when the save fails, the words stay.                             *)
escalate_booking ==
  /\ LET said == IF ctx.customerMessage = "none" THEN Saying("handover") ELSE ctx
     IN  \/ Succeed("escalate_booking", said, Did("exception"))
         \/ Fail("escalate_booking", said, store)
  /\ UNCHANGED offer

(* What the clarification says: every reply the code has for a support     *)
(* request promises a colleague; a model uses it or words of its own.      *)
Clarification ==
  IF event.intent # "general_support" THEN {"reply"}
  ELSE IF event.decider = "rule" THEN {"handover"}
  ELSE {"reply", "handover"}

ask_clarification ==
  /\ \E kind \in Clarification :
       Succeed("ask_clarification", Saying(kind), store)
  /\ UNCHANGED offer

search_delivery_policy ==
  /\ Succeed("search_delivery_policy", ctx, store)
  /\ UNCHANGED offer

answer_from_policy ==
  /\ Succeed("answer_from_policy", Saying("reply"), store)
  /\ UNCHANGED offer

send_message ==
  /\ Succeed("send_message", ctx, Sent(store, ctx.order, Wording))
  /\ UNCHANGED offer

evaluate_slots ==
  /\ \E any \in BOOLEAN :
       Succeed("evaluate_slots", [ctx EXCEPT !.order = "own", !.evaluated = any],
               store)
  /\ UNCHANGED offer

create_offer ==
  /\ ctx.evaluated
  /\ Succeed("create_offer", [ctx EXCEPT !.offerMessage = TRUE], Offered(ctx.order))
  /\ UNCHANGED offer

find_insertion_options ==
  /\ \/ Succeed("find_insertion_options", [ctx EXCEPT !.searched = TRUE], store)
     \/ Fail("find_insertion_options", Saying("reply"), store)
     \/ Fail("find_insertion_options", [ctx EXCEPT !.searched = FALSE], store)
  /\ UNCHANGED offer

create_insertion_offer ==
  /\ \E t \in InsertionOffers :
       Succeed(t, [ctx EXCEPT !.offerMessage = TRUE], Offered("own"))
  /\ UNCHANGED offer

(* The best replacement becomes the order the run is about. *)
find_ready_replacements ==
  /\ \/ \E c \in {ctx, [ctx EXCEPT !.evaluated = FALSE]} :
          Succeed("find_ready_replacements", c, store)
     \/ Succeed("find_ready_replacements",
                [ctx EXCEPT !.order = "other", !.evaluated = TRUE], store)
  /\ UNCHANGED offer

replan_day ==
  /\ Succeed("replan_day", ctx, Did("replanned"))
  /\ UNCHANGED offer

create_exception ==
  /\ Succeed("create_exception", ctx, Did("exception"))
  /\ UNCHANGED offer

read_only ==
  /\ \E t \in ReadOnly : Succeed(t, ctx, store)
  /\ UNCHANGED offer

-----------------------------------------------------------------------------
(* The end of the run *)

FinalStatus ==
  IF run.error THEN "FAILED"
  ELSE IF run.step >= MaxToolSteps /\ ~run.completed THEN "STEP_LIMIT_REACHED"
  ELSE "COMPLETED"

UnansweredMutant == ctx.order # "none" /\ ~Done("send_message")

Unanswered ==
  /\ ctx.order # "none"
  /\ \A i \in DOMAIN store.messages : store.messages[i].to # ctx.order

UnpreparedMutant(written) ==
  IF ~Unanswered THEN written
  ELSE Sent([written EXCEPT !.effects = @ \cup {"exception"}], ctx.order, "apology")

(* _guarantee_a_reply: says what was prepared, or apologises *)
Guarantee(written) ==
  IF ~Unanswered THEN written
  ELSE IF Prepared THEN Sent(written, ctx.order, Wording)
  ELSE Sent([written EXCEPT !.effects = @ \cup {"exception"}], ctx.order, "apology")

Conclude ==
  /\ pc = "ended"
  /\ store' = Guarantee(IF FinalStatus = "STEP_LIMIT_REACHED" THEN Did("exception")
                                                             ELSE store)
  /\ run' = [run EXCEPT !.status = FinalStatus]
  /\ pc' = "done"
  /\ UNCHANGED <<event, decision, ctx, offer>>

(* Another request answers the offer: the page's accept button, a second   *)
(* message, a coordinator.                                                 *)
OfferAnswered ==
  /\ pc # "done"
  /\ offer = "open"
  /\ offer' \in {"accepted", "closed"}
  /\ UNCHANGED <<event, pc, decision, ctx, run, store>>

Init ==
  /\ event \in Events
  /\ pc = "observe"
  /\ decision = "none"
  /\ ctx = [order |-> "none", succeeded |-> {}, offerMessage |-> FALSE,
            customerMessage |-> "none", evaluated |-> FALSE, searched |-> FALSE]
  /\ run = [status |-> "RUNNING", step |-> 0, attempted |-> {}, failed |-> {},
            completed |-> FALSE, error |-> FALSE]
  /\ store = [effects |-> {}, offers |-> {}, messages |-> <<>>]
  /\ offer \in IF event.intent = "accept" THEN {"open"} ELSE {"open", "closed"}

Act ==
  \/ Refused \/ Finish \/ ToolFails
  \/ record_availability \/ record_rejection \/ find_slot \/ confirm_offer
  \/ explain_offer \/ escalate_booking \/ ask_clarification
  \/ search_delivery_policy \/ answer_from_policy \/ send_message
  \/ evaluate_slots \/ create_offer \/ find_insertion_options
  \/ create_insertion_offer \/ find_ready_replacements \/ replan_day
  \/ create_exception \/ read_only

Running == Observe \/ Decide \/ Raise \/ Act \/ Conclude

Terminated == pc = "done" /\ UNCHANGED vars

Next == Running \/ OfferAnswered \/ Terminated

(* The loop is a synchronous call: nothing stops it between two nodes. *)
Spec == Init /\ [][Next]_vars /\ WF_vars(Running)

-----------------------------------------------------------------------------
(* Properties *)

Intents == DOMAIN INTENT_TOOLS \cup {"none"}
Effects == {"availability", "rejection", "offered", "booked", "replanned",
            "exception"}
Kinds == {"offer", "reply", "handover", "confirmation", "apology"}
Parties == {"own", "other"}

(* Every variable stays within its type, and a run never acts on more      *)
(* decisions than MAX_TOOL_STEPS allows.                                   *)
TypeOK ==
  /\ event \in Events
  /\ pc \in {"observe", "decide", "act", "ended", "done"}
  /\ decision \in TOOL_REGISTRY \cup {"none", "unknown"}
  /\ ctx \in [order : Parties \cup {"none"}, succeeded : SUBSET TOOL_REGISTRY,
              offerMessage : BOOLEAN,
              customerMessage : {"none", "reply", "handover"},
              evaluated : BOOLEAN, searched : BOOLEAN]
  /\ run \in [status : {"RUNNING", "COMPLETED", "FAILED", "STEP_LIMIT_REACHED"},
              step : 0..MaxToolSteps, attempted : SUBSET TOOL_REGISTRY,
              failed : SUBSET TOOL_REGISTRY, completed : BOOLEAN,
              error : BOOLEAN]
  /\ store.effects \subseteq Effects
  /\ store.offers \subseteq Parties
  /\ store.messages \in Seq([to : Parties, kind : Kinds])
  /\ offer \in {"open", "accepted", "closed"}

(* A finished run that read its order has written exactly one message, and *)
(* a chat turn's message went to the customer who wrote: neither the step  *)
(* limit, a failed tool, the gate nor the guarantee adds or loses one.     *)
AnsweredOnce ==
  pc = "done" /\ ctx.order # "none" =>
    /\ Len(store.messages) = 1
    /\ event.intent # "none" => store.messages[1].to = "own"

(* What a chat turn did to the customer's booking is what it told them: a  *)
(* new offer is the message's subject, also when the run was cut short,    *)
(* and a booking is confirmed; nothing is presented that was not offered.  *)
OutcomeTold ==
  pc = "done" /\ event.intent # "none" =>
    /\ "booked" \in store.effects <=>
         \E i \in DOMAIN store.messages : store.messages[i].kind = "confirmation"
    /\ "offered" \in store.effects <=>
         \E i \in DOMAIN store.messages : store.messages[i].kind = "offer"

(* The hand-over itself broke: the run raised between a support reply and  *)
(* its escalation, or the last escalate_booking failed.                    *)
HandoverBroken ==
  \/ run.error /\ Done("ask_clarification")
  \/ "escalate_booking" \in run.failed

(* A customer told that a person will call - by escalate_booking, by the   *)
(* reply to a support request, or by the guarantee's apology - is on a     *)
(* coordinator's list when the run is over.  No order of decisions, no     *)
(* refusal and no step limit drops the escalation the words call for       *)
(* (planning/tools.py:970); only a hand-over that broke does, and the code *)
(* then leaves the promise with nobody.  The apology has no such excuse.   *)
CallPromised ==
  pc = "done" => \A i \in DOMAIN store.messages :
    LET kind == store.messages[i].kind IN
    /\ kind = "apology" => "exception" \in store.effects
    /\ kind = "handover" => "exception" \in store.effects \/ HandoverBroken

(* A chat turn searches, and so offers, only around what the customer just *)
(* said: the times they stated are on file, a refusal is recorded first.   *)
OffersFollowRecord ==
  event.intent # "none" /\ "offered" \in store.effects =>
    /\ event.stated => "availability" \in store.effects
    /\ event.intent = "reject" => "rejection" \in store.effects

(* A refusal that names another time ("not 11, after 1?") has that time    *)
(* recorded by the turn that answers it: "recording it is what makes the   *)
(* re-solve land where they asked" (webapp/chat_api.py:288).  The tools of *)
(* the intent do not include record_availability, so it never is.          *)
CounterProposalRecorded ==
  /\ pc = "done" /\ run.status = "COMPLETED" /\ event.decider = "rule"
  /\ event.intent = "reject" /\ event.stated /\ "rejection" \in store.effects
  => "availability" \in store.effects

(* Every run ends, whatever its decider keeps asking for.                  *)
RunEnds == <>(run.status # "RUNNING")

(* The effects an event may have: an answer to a question changes nothing, *)
(* and only an acceptance books.  Any run may hand over to a coordinator.  *)
PermittedEffects(e) ==
  {"exception"} \cup
    (CASE e.intent = "accept" -> {"booked"}
       [] e.intent = "reject" -> {"rejection", "offered"}
       [] e.intent = "provide_availability" -> {"availability", "offered"}
       [] e.intent = "none" -> Effects \ {"booked"}
       [] OTHER -> {})

Contract == INSTANCE AgentRun WITH
  Permitted <- PermittedEffects, status <- run.status,
  said <- store.messages, effects <- store.effects

(* A run of the loop is a run of AgentRun: it acts within its permission,  *)
(* speaks at most once, and is silent only if it failed having done        *)
(* nothing.                                                                *)
ImplementsAgentRun == Contract!Spec
=============================================================================
