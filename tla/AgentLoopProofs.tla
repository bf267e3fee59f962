--------------------------- MODULE AgentLoopProofs ---------------------------
(***************************************************************************)
(* The run of the agent for any step limit, any tools an unscoped run may  *)
(* try and anything a model may name: whatever the decider asks for, the   *)
(* gate (Legal) and the completion guarantee keep the run's promise, the   *)
(* run keeps to its steps, and a call promised is handed over (Handed).    *)
(***************************************************************************)
EXTENDS AgentLoop, FiniteSetTheorems, WellFoundedInduction, TLAPS

-----------------------------------------------------------------------------
(* Events and their tools *)

\* What kind of event it is follows from its intent.
LEMMA EventShape ==
  ASSUME event \in Events
  PROVE  /\ event.intent \in {"explain", "accept", "reject", "provide_availability",
                              "policy_question", "general_support", "unclear", "none"}
         /\ event.type = "CUSTOMER_ACCEPTED_OFFER" <=> event.intent = "accept"
         /\ event.intent = "provide_availability" => event.type = "NEW_ORDER"
         /\ event.stated => event.intent \in {"provide_availability", "reject"}
         /\ event.type = "CUSTOMER_REJECTED_OFFER" => event.intent \in {"reject", "none"}
<1>. DEFINE Both == {"model", "rule"}
<1>1. \/ event \in Event({"NEW_ORDER"}, {"provide_availability"}, BOOLEAN,
                        {"cluster", "requested"}, Both)
      \/ event \in Event({"CUSTOMER_ACCEPTED_OFFER"}, {"accept"}, {FALSE}, {"none"}, Both)
      \/ event \in Event({"CUSTOMER_REJECTED_OFFER"}, {"reject"}, BOOLEAN, {"none"}, Both)
      \/ event \in Event({"MANUAL_RETRY"},
               {"explain", "policy_question", "general_support", "unclear"},
               {FALSE}, {"none"}, Both)
      \/ event \in Event({"NEW_ORDER", "CUSTOMER_REJECTED_OFFER"}, {"none"}, {FALSE},
               {"none"}, {"model"})
  BY DEF Events
<1>. QED
  BY <1>1 DEF Event

LEMMA IntentTools ==
  /\ INTENT_TOOLS["explain"] = {"explain_offer", "send_message", "finish"}
  /\ INTENT_TOOLS["accept"] = {"confirm_offer", "send_message", "finish"}
  /\ INTENT_TOOLS["reject"] =
       {"record_rejection", "find_fallback_options", "escalate_booking",
        "send_message", "finish"}
  /\ INTENT_TOOLS["provide_availability"] =
       {"record_availability", "find_normal_slot", "find_requested_day_slot",
        "escalate_booking", "send_message", "finish"}
  /\ INTENT_TOOLS["policy_question"] =
       {"search_delivery_policy", "answer_from_policy", "escalate_booking",
        "send_message", "finish"}
  /\ INTENT_TOOLS["general_support"] =
       {"ask_clarification", "escalate_booking", "send_message", "finish"}
  /\ INTENT_TOOLS["unclear"] =
       {"ask_clarification", "escalate_booking", "send_message", "finish"}
  /\ DOMAIN INTENT_TOOLS = {"explain", "accept", "reject", "provide_availability",
                            "policy_question", "general_support", "unclear"}
BY DEF INTENT_TOOLS

LEMMA ScopeShape ==
  ASSUME event \in Events
  PROVE  /\ event.intent # "none" => Scope \subseteq INTENT_TOOLS[event.intent]
         /\ Scope \subseteq TOOL_REGISTRY
<1>1. event.intent # "none" => Scope \subseteq INTENT_TOOLS[event.intent]
  BY DEF Scope
<1>2. event.intent # "none" => event.intent \in DOMAIN INTENT_TOOLS
  BY EventShape, IntentTools
<1>3. \A i \in DOMAIN INTENT_TOOLS : INTENT_TOOLS[i] \subseteq TOOL_REGISTRY
  BY DEF TOOL_REGISTRY
<1>4. event.intent = "none" => Scope \subseteq TOOL_REGISTRY
  BY AgentAssumption DEF Scope
<1>. QED
  BY <1>1, <1>2, <1>3, <1>4

\* The tools of one intent each.
LEMMA ToolIntent ==
  ASSUME event \in Events, event.intent # "none", NEW t \in Scope
  PROVE  /\ t = "confirm_offer" => event.intent = "accept"
         /\ t = "record_rejection" => event.intent = "reject"
         /\ t = "find_fallback_options" => event.intent = "reject"
         /\ t \in {"record_availability", "find_normal_slot", "find_requested_day_slot"}
              => event.intent = "provide_availability"
         /\ t \notin InsertionOffers \cup ReadOnly
              \cup {"evaluate_slots", "create_offer", "find_insertion_options",
                    "replan_day", "find_ready_replacements", "create_exception",
                    "lock_appointment", "explain_choice"}
<1>1. t \in INTENT_TOOLS[event.intent]
  BY ScopeShape
<1>. QED
  BY <1>1, EventShape, IntentTools DEF InsertionOffers, ReadOnly

\* Once the customer has been written to, only the hand-off of a question
\* is left; and a tool that is left has its prerequisites.
LEMMA Legal ==
  ASSUME NEW t \in legal_actions,
         t \notin {"finish", "search_delivery_policy", "answer_from_policy",
                   "escalate_booking"}
  PROVE  /\ t \in Scope /\ t \notin Blocked
         /\ ~Done("send_message") /\ ~(Accepted /\ Done("confirm_offer"))
<1>1. PolicyGate \subseteq {"search_delivery_policy", "answer_from_policy",
                            "escalate_booking"}
  BY DEF PolicyGate
<1>2. "send_message" \in Blocked => ~Prepared
  BY DEF Blocked, Searches, InsertionOffers
<1>. QED
  BY <1>1, <1>2 DEF legal_actions

LEMMA LegalScope == legal_actions \subseteq Scope \cup {"finish"}
<1>1. PolicyGate \subseteq Scope
  BY IntentTools DEF PolicyGate
<1>2. SupportGate => "escalate_booking" \in Scope
  BY IntentTools DEF SupportGate
<1>. QED
  BY <1>1, <1>2 DEF legal_actions

-----------------------------------------------------------------------------
(* The invariant *)

Contexts ==
  [order : Parties \cup {"none"}, succeeded : SUBSET TOOL_REGISTRY,
   offerMessage : BOOLEAN, customerMessage : {"none", "reply", "handover"},
   evaluated : BOOLEAN, searched : BOOLEAN]
RunLogs ==
  [status : {"RUNNING", "COMPLETED", "FAILED", "STEP_LIMIT_REACHED"},
   step : Nat, attempted : SUBSET TOOL_REGISTRY, failed : SUBSET TOOL_REGISTRY,
   completed : BOOLEAN, error : BOOLEAN]
Stores ==
  [effects : SUBSET Effects, offers : SUBSET Parties,
   messages : Seq([to : Parties, kind : Kinds])]

Typed ==
  /\ event \in Events /\ ctx \in Contexts /\ run \in RunLogs /\ store \in Stores
  /\ pc \in {"observe", "decide", "act", "ended", "done"}

\* The order is read first: a run that has none has done nothing, and a run
\* that ends without one has failed.
Course ==
  /\ pc # "done" => run.status = "RUNNING"
  /\ pc = "observe" => ctx.order = "none"
  /\ pc \in {"decide", "act"} => ctx.order # "none"
  /\ ctx.order = "none" => store.effects = {} /\ store.messages = <<>>
  /\ pc \in {"ended", "done"} /\ ctx.order = "none" => run.error
  /\ event.intent # "none" => ctx.order \in {"none", "own"}

\* Before the end, only a tool that leaves nothing else to do writes; after
\* it, a customer who was waiting has been written to.
Unspoken ==
  IF pc = "done" THEN ctx.order # "none" => store.messages # <<>>
  ELSE \/ store.messages = <<>>
       \/ Done("send_message")
       \/ Accepted /\ Done("confirm_offer")

\* The one message is about what was done.
Told ==
  /\ store.messages = <<>> => "booked" \notin store.effects
  /\ store.messages # <<>> =>
       LET m == store.messages[1] IN
       /\ Len(store.messages) = 1 /\ m.to = ctx.order
       /\ m.kind = "offer" <=> "offered" \in store.effects
       /\ m.kind = "confirmation" <=> "booked" \in store.effects
       /\ m.kind = "apology" => "exception" \in store.effects

\* What the context holds ready or ticks off has been done.
Noted ==
  /\ ctx.offerMessage <=> "offered" \in store.effects
  /\ Done("record_availability") => "availability" \in store.effects
  /\ Done("record_rejection") => "rejection" \in store.effects

Within == store.effects \subseteq PermittedEffects(event)

IInv ==
  Typed /\ Course /\ Unspoken /\ Told /\ Noted /\ Within /\ OffersFollowRecord

-----------------------------------------------------------------------------
(* The steps *)

LEMMA Permission ==
  ASSUME event \in Events
  PROVE  /\ "exception" \in PermittedEffects(event)
         /\ event.intent = "accept" => PermittedEffects(event) = {"exception", "booked"}
         /\ event.intent = "reject" =>
              PermittedEffects(event) = {"exception", "rejection", "offered"}
         /\ event.intent = "provide_availability" =>
              PermittedEffects(event) = {"exception", "availability", "offered"}
         /\ event.intent = "none" => PermittedEffects(event) = Effects \ {"booked"}
         /\ event.intent \notin {"accept", "reject", "provide_availability", "none"} =>
              PermittedEffects(event) = {"exception"}
<1>1. CASE event.intent = "accept"
  BY <1>1 DEF PermittedEffects
<1>2. CASE event.intent = "reject"
  BY <1>2 DEF PermittedEffects
<1>3. CASE event.intent = "provide_availability"
  BY <1>3 DEF PermittedEffects
<1>4. CASE event.intent = "none"
  BY <1>4 DEF PermittedEffects, Effects
<1>5. CASE event.intent \notin {"accept", "reject", "provide_availability", "none"}
  BY <1>5 DEF PermittedEffects
<1>. QED
  BY <1>1, <1>2, <1>3, <1>4, <1>5

LEMMA InitIInv == Init => IInv
<1>. SUFFICES ASSUME Init PROVE IInv
  OBVIOUS
<1>1. Typed
  BY DEF Init, Typed, Contexts, RunLogs, Stores
<1>2. Course /\ Unspoken /\ Told /\ Noted /\ Within /\ OffersFollowRecord
  BY DEF Init, Course, Unspoken, Told, Noted, Within, OffersFollowRecord, Done
<1>. QED
  BY <1>1, <1>2 DEF IInv

\* What every call does to the loop.
LEMMA Stepping ==
  ASSUME Typed, NEW ok \in BOOLEAN, Step(ok)
  PROVE  /\ pc = "act" /\ event' = event
         /\ run' \in RunLogs /\ pc' \in {"decide", "ended"}
         /\ run'.status = run.status
<1>1. {decision} \cap Scope \subseteq TOOL_REGISTRY
  BY ScopeShape DEF Typed
<1>2. run' \in RunLogs /\ run'.status = run.status
  <2>. DEFINE r1 == [run EXCEPT !.step = run.step + 1]
              r2 == [r1 EXCEPT !.attempted =
                       run.attempted \cup ({decision} \cap Scope \cap LookedBackAt)]
              r3 == [r2 EXCEPT !.failed =
                       IF ok THEN run.failed \ {decision}
                       ELSE run.failed \cup ({decision} \cap Scope \cap FailureMatters)]
              r4 == [r3 EXCEPT !.completed = decision = "finish"]
  <2>1. run' = r4
    BY DEF Step, Logged
  <2>2. r1 \in RunLogs /\ r1.status = run.status
    BY DEF Typed, RunLogs
  <2>. HIDE DEF r1
  <2>3. r2 \in RunLogs /\ r2.status = run.status
    BY <1>1, <2>2 DEF Typed, RunLogs
  <2>. HIDE DEF r2
  <2>4. r3 \in RunLogs /\ r3.status = run.status
    BY <1>1, <2>3 DEF Typed, RunLogs
  <2>. HIDE DEF r3
  <2>5. r4 \in RunLogs /\ r4.status = run.status
    BY <2>4 DEF RunLogs
  <2>. QED
    BY <2>1, <2>5
<1>. QED
  BY <1>2 DEF Step

\* What a step of the loop keeps before the end.
Keeps ==
  /\ event' = event /\ run'.status = run.status /\ run.status = "RUNNING"
  /\ store.effects \subseteq store'.effects
  /\ \/ store'.messages = store.messages
     \/ store.messages = <<>> /\ Len(store'.messages) = 1

\* A call that writes no message.
LEMMA Acts ==
  ASSUME IInv, NEW ok \in BOOLEAN, Step(ok), NEW E \in SUBSET Effects,
         ctx' \in Contexts, store' \in Stores,
         store'.messages = store.messages,
         store'.effects = store.effects \cup E,
         ctx.succeeded \subseteq ctx'.succeeded,
         \/ ctx'.order = ctx.order
         \/ store.messages = <<>> /\ ctx'.order = "own"
         \/ store.messages = <<>> /\ event.intent = "none" /\ ctx'.order # "none",
         E \subseteq PermittedEffects(event), "booked" \notin E,
         ctx'.offerMessage <=> ctx.offerMessage \/ "offered" \in E,
         "offered" \in E =>
           /\ store.messages = <<>>
           /\ event.intent # "none" =>
                /\ event.stated => Done("record_availability")
                /\ event.intent = "reject" => Done("record_rejection"),
         "record_availability" \in ctx'.succeeded =>
           Done("record_availability") \/ "availability" \in E,
         "record_rejection" \in ctx'.succeeded =>
           Done("record_rejection") \/ "rejection" \in E
  PROVE  IInv' /\ Keeps
<1>1. /\ pc = "act" /\ event' = event
      /\ run' \in RunLogs /\ pc' \in {"decide", "ended"}
      /\ run'.status = run.status
  BY Stepping DEF IInv
<1>2. Typed'
  BY <1>1 DEF IInv, Typed
<1>3. ctx.order # "none" /\ ctx'.order # "none"
  BY <1>1 DEF IInv, Course
<1>4. Course'
  BY <1>1, <1>3 DEF IInv, Course
<1>5. Unspoken'
  BY <1>1 DEF IInv, Unspoken, Done, Accepted
<1>6. Told'
  <2>1. CASE store.messages = <<>>
    BY <2>1 DEF IInv, Told
  <2>2. CASE store.messages # <<>>
    BY <2>2 DEF IInv, Told
  <2>. QED
    BY <2>1, <2>2
<1>7. Noted'
  BY DEF IInv, Noted, Done
<1>8. Within'
  <2>1. PermittedEffects(event)' = PermittedEffects(event)
    BY <1>1 DEF PermittedEffects
  <2>. QED
    BY <2>1 DEF IInv, Within
<1>9. OffersFollowRecord'
  BY <1>1 DEF IInv, OffersFollowRecord, Noted
<1>10. Keeps
  BY <1>1 DEF Keeps, IInv, Course
<1>. QED
  BY <1>2, <1>4, <1>5, <1>6, <1>7, <1>8, <1>9, <1>10 DEF IInv

LEMMA StoreWrites ==
  ASSUME store \in Stores
  PROVE  /\ \A e \in Effects :
              /\ Did(e) \in Stores /\ Did(e).messages = store.messages
              /\ Did(e).effects = store.effects \cup {e}
         /\ \A to \in Parties :
              /\ Offered(to) \in Stores /\ Offered(to).messages = store.messages
              /\ Offered(to).effects = store.effects \cup {"offered"}
BY DEF Stores, Did, Offered, Effects, Parties

LEMMA FirstMessage ==
  ASSUME NEW w \in Stores, w.messages = <<>>, NEW to \in Parties, NEW k \in Kinds
  PROVE  /\ Sent(w, to, k) \in Stores /\ Sent(w, to, k).effects = w.effects
         /\ Sent(w, to, k).messages = <<[to |-> to, kind |-> k]>>
<1>. DEFINE m == [to |-> to, kind |-> k]
<1>1. Append(w.messages, m) = <<m>>
  OBVIOUS
<1>2. <<m>> \in Seq([to : Parties, kind : Kinds])
  OBVIOUS
<1>3. Sent(w, to, k) = [w EXCEPT !.messages = <<m>>]
  BY <1>1 DEF Sent
<1>. HIDE DEF m
<1>4. [w EXCEPT !.messages = <<m>>] \in Stores
  BY <1>2 DEF Stores
<1>5. [w EXCEPT !.messages = <<m>>].effects = w.effects
      /\ [w EXCEPT !.messages = <<m>>].messages = <<m>>
  BY DEF Stores
<1>. QED
  BY <1>3, <1>4, <1>5 DEF m

\* A tool that is left finds the customer not yet written to.
LEMMA Quietly ==
  ASSUME IInv, pc = "act", NEW t \in legal_actions,
         t \notin {"finish", "search_delivery_policy", "answer_from_policy",
                   "escalate_booking"}
  PROVE  t \in Scope /\ t \notin Blocked /\ store.messages = <<>>
BY Legal DEF IInv, Unspoken

LEMMA Ticked ==
  ASSUME NEW c \in Contexts, NEW t \in TOOL_REGISTRY,
         ctx' = [c EXCEPT !.succeeded = @ \cup {t}]
  PROVE  /\ ctx' \in Contexts /\ ctx'.succeeded = c.succeeded \cup {t}
         /\ ctx'.order = c.order /\ ctx'.offerMessage = c.offerMessage
         /\ ctx'.customerMessage = c.customerMessage
BY DEF Contexts

LEMMA Registered ==
  ASSUME event \in Events
  PROVE  legal_actions \subseteq TOOL_REGISTRY
<1>1. "finish" \in TOOL_REGISTRY
  <2>1. "finish" \in INTENT_TOOLS["explain"] /\ "explain" \in DOMAIN INTENT_TOOLS
    BY IntentTools
  <2>. QED
    BY <2>1 DEF TOOL_REGISTRY
<1>. QED
  BY <1>1, LegalScope, ScopeShape

\* A tool that leaves the context c and writes what w holds.
Leaves(c, w, E) ==
  /\ c \in Contexts /\ w \in Stores /\ E \in SUBSET Effects
  /\ w.messages = store.messages /\ w.effects = store.effects \cup E
  /\ c.succeeded = ctx.succeeded
  /\ \/ c.order = ctx.order
     \/ store.messages = <<>> /\ c.order = "own"
     \/ store.messages = <<>> /\ event.intent = "none" /\ c.order # "none"
  /\ E \subseteq PermittedEffects(event) /\ "booked" \notin E
  /\ c.offerMessage <=> ctx.offerMessage \/ "offered" \in E
  /\ "offered" \in E =>
       /\ store.messages = <<>>
       /\ event.intent # "none" =>
            /\ event.stated => Done("record_availability")
            /\ event.intent = "reject" => Done("record_rejection")

LEMMA Works ==
  ASSUME IInv, NEW t, NEW c, NEW w, NEW E, Succeed(t, c, w), Leaves(c, w, E),
         t = "record_availability" => "availability" \in E,
         t = "record_rejection" => "rejection" \in E
  PROVE  IInv' /\ Keeps
<1>1. Step(TRUE) /\ t \in legal_actions /\ store' = w
      /\ ctx' = [c EXCEPT !.succeeded = @ \cup {t}]
  BY DEF Succeed, Call
<1>2. t \in TOOL_REGISTRY
  BY <1>1, Registered DEF IInv, Typed
<1>3. /\ ctx' \in Contexts /\ ctx'.succeeded = ctx.succeeded \cup {t}
      /\ ctx'.order = c.order /\ ctx'.offerMessage = c.offerMessage
      /\ ctx'.customerMessage = c.customerMessage
  BY <1>1, <1>2, Ticked DEF Leaves
<1>. QED
  BY <1>1, <1>3, Acts DEF Leaves, Done

LEMMA Fails ==
  ASSUME IInv, NEW t, NEW c, NEW w, NEW E, Fail(t, c, w), Leaves(c, w, E)
  PROVE  IInv' /\ Keeps
<1>1. Step(FALSE) /\ store' = w /\ ctx' = c
  BY DEF Fail
<1>. QED
  BY <1>1, Acts DEF Leaves, Done

\* A call that writes the customer's message.
LEMMA Tells ==
  ASSUME IInv, Step(TRUE), store.messages = <<>>, NEW k \in Kinds,
         NEW E \in SUBSET {"booked"}, E \subseteq PermittedEffects(event),
         NEW t \in TOOL_REGISTRY, ctx' = [ctx EXCEPT !.succeeded = @ \cup {t}],
         t = "send_message" \/ (t = "confirm_offer" /\ Accepted),
         store' \in Stores, store'.effects = store.effects \cup E,
         store'.messages = <<[to |-> ctx.order, kind |-> k]>>,
         k = "offer" <=> "offered" \in store.effects,
         k = "confirmation" <=> "booked" \in E,
         k = "apology" => "exception" \in store.effects
  PROVE  IInv' /\ Keeps
<1>1. /\ pc = "act" /\ event' = event
      /\ run' \in RunLogs /\ pc' \in {"decide", "ended"}
      /\ run'.status = run.status
  BY Stepping DEF IInv
<1>2. /\ ctx' \in Contexts /\ ctx'.succeeded = ctx.succeeded \cup {t}
      /\ ctx'.order = ctx.order /\ ctx'.offerMessage = ctx.offerMessage
      /\ ctx'.customerMessage = ctx.customerMessage
  BY Ticked DEF IInv, Typed
<1>3. Typed'
  BY <1>1, <1>2 DEF IInv, Typed
<1>4. Course'
  BY <1>1, <1>2 DEF IInv, Course
<1>5. Unspoken'
  BY <1>1, <1>2 DEF IInv, Unspoken, Done, Accepted
<1>6. Told'
  <2>1. "booked" \notin store.effects
    BY DEF IInv, Told
  <2>2. store'.messages[1] = [to |-> ctx.order, kind |-> k] /\ Len(store'.messages) = 1
    OBVIOUS
  <2>3. \A e : e # "booked" => (e \in store'.effects <=> e \in store.effects)
    OBVIOUS
  <2>4. "booked" \in store'.effects <=> "booked" \in E
    BY <2>1
  <2>. QED
    BY <1>2, <2>2, <2>3, <2>4 DEF Told
<1>7. Noted'
  BY <1>2 DEF IInv, Noted, Done
<1>8. Within'
  <2>1. PermittedEffects(event)' = PermittedEffects(event)
    BY <1>1 DEF PermittedEffects
  <2>. QED
    BY <2>1 DEF IInv, Within
<1>9. OffersFollowRecord'
  BY <1>1 DEF IInv, OffersFollowRecord
<1>10. Keeps
  <2>1. Len(<<[to |-> ctx.order, kind |-> k]>>) = 1
    OBVIOUS
  <2>. QED
    BY <1>1, <2>1 DEF Keeps, IInv, Course
<1>. QED
  BY <1>3, <1>4, <1>5, <1>6, <1>7, <1>8, <1>9, <1>10 DEF IInv

\* A call that writes nothing, whatever it leaves in the context.
LEMMA Reads ==
  ASSUME IInv, NEW t, NEW c \in Contexts, Succeed(t, c, store) \/ Fail(t, c, store),
         t \notin {"record_availability", "record_rejection"},
         c.succeeded = ctx.succeeded, c.offerMessage = ctx.offerMessage,
         \/ c.order = ctx.order
         \/ store.messages = <<>> /\ c.order = "own"
         \/ store.messages = <<>> /\ event.intent = "none" /\ c.order # "none"
  PROVE  IInv' /\ Keeps
<1>1. Leaves(c, store, {})
  BY DEF Leaves, IInv, Typed
<1>. QED
  BY <1>1, Works, Fails

LEMMA SayingKeeps ==
  ASSUME ctx \in Contexts, NEW kind \in {"reply", "handover"}
  PROVE  LET c == Saying(kind) IN
         /\ c \in Contexts /\ c.succeeded = ctx.succeeded
         /\ c.offerMessage = ctx.offerMessage /\ c.order = ctx.order
         /\ c.customerMessage = kind
BY DEF Contexts, Saying

LEMMA RefusedIInv ==
  ASSUME IInv, Refused \/ Finish
  PROVE  IInv' /\ Keeps
<1>1. /\ ctx' = ctx /\ store' = store
      /\ \E ok \in BOOLEAN : Step(ok)
  <2>1. CASE Refused
    BY <2>1 DEF Refused
  <2>2. CASE Finish
    <3>. DEFINE ok == decision \in legal_actions
    <3>1. Step(ok) /\ ok \in BOOLEAN
      BY <2>2 DEF Finish
    <3>2. ctx' = ctx /\ store' = store
      BY <2>2 DEF Finish
    <3>. HIDE DEF ok
    <3>. QED
      BY <3>1, <3>2
  <2>. QED
    BY <2>1, <2>2
<1>2. PICK ok \in BOOLEAN : Step(ok)
  BY <1>1
<1>. DEFINE E == {}
<1>3. /\ ctx' \in Contexts /\ store' \in Stores /\ E \in SUBSET Effects
      /\ store'.messages = store.messages /\ store'.effects = store.effects \cup E
  BY <1>1 DEF IInv, Typed
<1>4. /\ E \subseteq PermittedEffects(event) /\ "booked" \notin E /\ "offered" \notin E
      /\ ctx'.offerMessage <=> ctx.offerMessage \/ "offered" \in E
  BY <1>1 DEF IInv, Typed, Contexts
<1>5. /\ ctx.succeeded \subseteq ctx'.succeeded /\ ctx'.order = ctx.order
      /\ \A t : t \in ctx'.succeeded => Done(t)
  BY <1>1 DEF Done
<1>. HIDE DEF E
<1>. QED
  BY <1>2, <1>3, <1>4, <1>5, Acts

LEMMA ToolFailsIInv ==
  ASSUME IInv, ToolFails
  PROVE  IInv' /\ Keeps
<1>1. Fail(decision, ctx, store)
  BY DEF ToolFails
<1>2. Leaves(ctx, store, {})
  BY DEF Leaves, IInv, Typed
<1>. QED
  BY <1>1, <1>2, Fails

LEMMA AvailabilityIInv ==
  ASSUME IInv, record_availability
  PROVE  IInv' /\ Keeps
<1>. DEFINE t == "record_availability"
<1>1. event.stated /\ pc = "act" /\ t \in legal_actions
  BY DEF record_availability, Succeed, Fail, Call, Step
<1>2. t \in Scope /\ store.messages = <<>>
  BY <1>1, Quietly
<1>3. event.intent = "provide_availability"
  BY <1>1, <1>2, EventShape, ToolIntent DEF IInv, Typed
<1>4. CASE Fail(t, Saying("reply"), store)
  <2>1. Leaves(Saying("reply"), store, {})
    BY SayingKeeps DEF Leaves, IInv, Typed
  <2>. QED
    BY <1>4, <2>1, Fails
<1>5. CASE Succeed(t, [ctx EXCEPT !.order = "own"], Did("availability"))
  <2>1. Leaves([ctx EXCEPT !.order = "own"], Did("availability"), {"availability"})
    BY <1>2, <1>3, StoreWrites, Permission
       DEF Leaves, IInv, Typed, Contexts, Parties, Effects
  <2>. QED
    BY <1>5, <2>1, Works
<1>. QED
  BY <1>4, <1>5 DEF record_availability

LEMMA RejectionIInv ==
  ASSUME IInv, record_rejection
  PROVE  IInv' /\ Keeps
<1>. DEFINE t == "record_rejection"
<1>1. /\ event.type = "CUSTOMER_REJECTED_OFFER" /\ pc = "act" /\ t \in legal_actions
      /\ Succeed(t, [ctx EXCEPT !.order = "own"], Did("rejection"))
  BY DEF record_rejection, Succeed, Call, Step
<1>2. store.messages = <<>>
  BY <1>1, Quietly
<1>3. event.intent \in {"reject", "none"}
  BY <1>1, EventShape DEF IInv, Typed
<1>4. Leaves([ctx EXCEPT !.order = "own"], Did("rejection"), {"rejection"})
  BY <1>2, <1>3, StoreWrites, Permission
     DEF Leaves, IInv, Typed, Contexts, Parties, Effects
<1>. QED
  BY <1>1, <1>4, Works

LEMMA FindSlotIInv ==
  ASSUME IInv, find_slot
  PROVE  IInv' /\ Keeps
<1>1. PICK t \in Searches :
        \/ Succeed(t, Aware, Offered("own"))
        \/ \E found \in BOOLEAN : Fail(t, [ctx EXCEPT !.searched = found], store)
        \/ \E found \in {ctx.searched, FALSE} :
             Fail(t, [Saying("reply") EXCEPT !.searched = found], store)
  BY DEF find_slot
<1>2. pc = "act" /\ t \in legal_actions
  BY <1>1 DEF Succeed, Fail, Call, Step
<1>3. t \in Scope /\ t \notin Blocked /\ store.messages = <<>>
  BY <1>2, Quietly DEF Searches
<1>4. ctx \in Contexts
  BY DEF IInv, Typed
<1>5. CASE Succeed(t, Aware, Offered("own"))
  <2>1. Recorded /\ (t = "find_fallback_options" => Done("record_rejection"))
    BY <1>3 DEF Blocked
  <2>2. event.intent # "none" =>
          \/ event.intent = "provide_availability" /\ t # "find_fallback_options"
          \/ event.intent = "reject" /\ t = "find_fallback_options"
    BY <1>3, ToolIntent DEF Searches, IInv, Typed
  <2>3. "offered" \in PermittedEffects(event)
    BY <2>2, Permission DEF IInv, Typed, Effects
  <2>4. /\ Aware \in Contexts /\ Aware.succeeded = ctx.succeeded /\ Aware.offerMessage
        /\ Aware.order = ctx.order /\ Aware.customerMessage = ctx.customerMessage
    BY <1>4 DEF Aware, Contexts
  <2>5. Leaves(Aware, Offered("own"), {"offered"})
    BY <1>3, <2>1, <2>2, <2>3, <2>4, StoreWrites
       DEF Leaves, IInv, Typed, Parties, Effects, Recorded
  <2>. QED
    BY <1>5, <2>5, Works DEF Searches
<1>6. ASSUME NEW found \in BOOLEAN, Fail(t, [ctx EXCEPT !.searched = found], store)
      PROVE  IInv' /\ Keeps
  BY <1>4, <1>6, Reads DEF Contexts, Searches
<1>7. ASSUME NEW found \in {ctx.searched, FALSE},
             Fail(t, [Saying("reply") EXCEPT !.searched = found], store)
      PROVE  IInv' /\ Keeps
  <2>. DEFINE c == [Saying("reply") EXCEPT !.searched = found]
  <2>1. /\ c \in Contexts /\ c.succeeded = ctx.succeeded
        /\ c.offerMessage = ctx.offerMessage /\ c.order = ctx.order
        /\ c.customerMessage = "reply"
    <3>1. found \in BOOLEAN
      BY <1>4 DEF Contexts
    <3>. QED
      BY <1>4, <3>1, SayingKeeps DEF Contexts
  <2>. HIDE DEF c
  <2>. QED
    BY <1>7, <2>1, Reads DEF Searches, c
<1>. QED
  BY <1>1, <1>5, <1>6, <1>7

LEMMA ConfirmIInv ==
  ASSUME IInv, confirm_offer
  PROVE  IInv' /\ Keeps
<1>. DEFINE t == "confirm_offer"
<1>1. pc = "act" /\ t \in legal_actions
  BY DEF confirm_offer, Succeed, Fail, Call, Step
<1>2. t \in Scope /\ t \notin Blocked /\ store.messages = <<>>
  BY <1>1, Quietly
<1>3. Accepted
  BY <1>2 DEF Blocked
<1>4. event.intent = "accept" /\ event \in Events
  BY <1>3, EventShape DEF Accepted, IInv, Typed
<1>5. "offered" \notin store.effects
  BY <1>4, Permission DEF IInv, Within
<1>6. CASE Succeed(t, ctx, Sent(Did("booked"), "own", "confirmation"))
  <2>. DEFINE w == Sent(Did("booked"), "own", "confirmation")
  <2>1. ctx.order = "own"
    BY <1>1, <1>4 DEF IInv, Course
  <2>2. /\ Did("booked") \in Stores /\ Did("booked").messages = <<>>
        /\ Did("booked").effects = store.effects \cup {"booked"}
    BY <1>2, StoreWrites DEF IInv, Typed, Effects
  <2>3. /\ w \in Stores /\ w.effects = store.effects \cup {"booked"}
        /\ w.messages = <<[to |-> "own", kind |-> "confirmation"]>>
    BY <2>2, FirstMessage DEF Kinds, Parties
  <2>4. t \in TOOL_REGISTRY
    BY <1>1, Registered DEF IInv, Typed
  <2>5. store' = w /\ Step(TRUE) /\ ctx' = [ctx EXCEPT !.succeeded = @ \cup {t}]
    BY <1>6 DEF Succeed
  <2>6. {"booked"} \subseteq PermittedEffects(event)
    BY <1>4, Permission
  <2>. HIDE DEF w
  <2>. QED
    BY <1>2, <1>3, <1>5, <2>1, <2>3, <2>4, <2>5, <2>6, Tells DEF Kinds
<1>7. CASE Fail(t, ctx, Did("exception"))
  <2>1. Leaves(ctx, Did("exception"), {"exception"})
    BY <1>4, StoreWrites, Permission DEF Leaves, IInv, Typed, Effects
  <2>. QED
    BY <1>7, <2>1, Fails
<1>8. CASE Succeed(t, ctx, store)
  BY <1>8, Reads DEF IInv, Typed
<1>. QED
  BY <1>6, <1>7, <1>8 DEF confirm_offer

LEMMA EscalateIInv ==
  ASSUME IInv, escalate_booking \/ create_exception
  PROVE  IInv' /\ Keeps
<1>. DEFINE c == IF ctx.customerMessage = "none" THEN Saying("handover") ELSE ctx
<1>1. ctx \in Contexts /\ Saying("handover") \in Contexts
  BY DEF IInv, Typed, Contexts, Saying
<1>2. /\ c \in Contexts /\ c.succeeded = ctx.succeeded
      /\ c.offerMessage = ctx.offerMessage /\ c.order = ctx.order
  BY <1>1 DEF Contexts, Saying
<1>3. Leaves(c, Did("exception"), {"exception"}) /\ Leaves(ctx, Did("exception"), {"exception"})
  BY <1>1, <1>2, StoreWrites, Permission DEF Leaves, IInv, Typed, Effects
<1>4. Leaves(c, store, {})
  BY <1>2 DEF Leaves, IInv, Typed
<1>5. \/ Succeed("escalate_booking", c, Did("exception"))
      \/ Fail("escalate_booking", c, store)
      \/ Succeed("create_exception", ctx, Did("exception"))
  BY DEF escalate_booking, create_exception
<1>. HIDE DEF c
<1>. QED
  BY <1>3, <1>4, <1>5, Works, Fails

LEMMA ReplyToolsIInv ==
  ASSUME IInv,
         explain_offer \/ ask_clarification \/ search_delivery_policy
           \/ answer_from_policy \/ read_only
  PROVE  IInv' /\ Keeps
<1>1. PICK t \in Explanations \cup ReadOnly
              \cup {"ask_clarification", "search_delivery_policy", "answer_from_policy"} :
        \/ \E kind \in {"reply", "handover"} : Succeed(t, Saying(kind), store)
        \/ Succeed(t, ctx, store)
  BY DEF explain_offer, ask_clarification, search_delivery_policy,
         answer_from_policy, read_only, Clarification
<1>2. ctx \in Contexts
  BY DEF IInv, Typed
<1>3. t \notin {"record_availability", "record_rejection"}
  BY DEF Explanations, ReadOnly
<1>4. CASE Succeed(t, ctx, store)
  BY <1>2, <1>3, <1>4, Reads
<1>5. ASSUME NEW kind \in {"reply", "handover"}, Succeed(t, Saying(kind), store)
      PROVE  IInv' /\ Keeps
  BY <1>2, <1>3, <1>5, SayingKeeps, Reads
<1>. QED
  BY <1>1, <1>4, <1>5

LEMMA FindInsertionIInv ==
  ASSUME IInv, find_insertion_options
  PROVE  IInv' /\ Keeps
<1>. DEFINE t == "find_insertion_options"
<1>1. ctx \in Contexts
  BY DEF IInv, Typed
<1>2. ASSUME NEW b \in BOOLEAN,
             \/ Succeed(t, [ctx EXCEPT !.searched = b], store)
             \/ Fail(t, [ctx EXCEPT !.searched = b], store)
      PROVE  IInv' /\ Keeps
  BY <1>1, <1>2, Reads DEF Contexts
<1>3. CASE Fail(t, Saying("reply"), store)
  BY <1>1, <1>3, SayingKeeps, Reads
<1>. QED
  BY <1>2, <1>3 DEF find_insertion_options

LEMMA EvaluateIInv ==
  ASSUME IInv, evaluate_slots
  PROVE  IInv' /\ Keeps
<1>. DEFINE t == "evaluate_slots"
<1>1. PICK any \in BOOLEAN :
        Succeed(t, [ctx EXCEPT !.order = "own", !.evaluated = any], store)
  BY DEF evaluate_slots
<1>2. store.messages = <<>>
  BY <1>1, Quietly DEF Succeed, Call, Step
<1>. DEFINE c == [ctx EXCEPT !.order = "own", !.evaluated = any]
<1>3. /\ c \in Contexts /\ c.succeeded = ctx.succeeded /\ c.order = "own"
      /\ c.offerMessage = ctx.offerMessage /\ c.customerMessage = ctx.customerMessage
  BY DEF IInv, Typed, Contexts, Parties
<1>4. Succeed(t, c, store)
  BY <1>1
<1>. HIDE DEF c
<1>. QED
  BY <1>2, <1>3, <1>4, Reads

LEMMA CreateOfferIInv ==
  ASSUME IInv, create_offer \/ create_insertion_offer
  PROVE  IInv' /\ Keeps
<1>. DEFINE c == [ctx EXCEPT !.offerMessage = TRUE]
<1>1. PICK t \in InsertionOffers \cup {"create_offer"}, to \in {"own", ctx.order} :
        Succeed(t, c, Offered(to))
  BY DEF create_offer, create_insertion_offer
<1>2. pc = "act" /\ t \in legal_actions
  BY <1>1 DEF Succeed, Call, Step
<1>3. t \in Scope /\ store.messages = <<>>
  BY <1>2, Quietly DEF InsertionOffers
<1>4. event.intent = "none"
  BY <1>3, ToolIntent DEF InsertionOffers, IInv, Typed
<1>5. to \in Parties
  BY <1>2 DEF IInv, Typed, Course, Contexts, Parties
<1>6. "offered" \in PermittedEffects(event)
  BY <1>4, Permission DEF IInv, Typed, Effects
<1>7. /\ c \in Contexts /\ c.succeeded = ctx.succeeded /\ c.offerMessage
      /\ c.order = ctx.order /\ c.customerMessage = ctx.customerMessage
  BY DEF IInv, Typed, Contexts
<1>8. Leaves(c, Offered(to), {"offered"})
  BY <1>3, <1>4, <1>5, <1>6, <1>7, StoreWrites DEF Leaves, IInv, Typed, Effects
<1>. HIDE DEF c
<1>. QED
  BY <1>1, <1>8, Works DEF InsertionOffers

LEMMA ReplacementsIInv ==
  ASSUME IInv, find_ready_replacements
  PROVE  IInv' /\ Keeps
<1>. DEFINE t == "find_ready_replacements"
<1>1. pc = "act" /\ t \in legal_actions
  BY DEF find_ready_replacements, Succeed, Call, Step
<1>2. t \in Scope /\ store.messages = <<>>
  BY <1>1, Quietly
<1>3. event.intent = "none"
  BY <1>2, ToolIntent DEF IInv, Typed
<1>4. ctx \in Contexts
  BY DEF IInv, Typed
<1>5. CASE Succeed(t, ctx, store)
  BY <1>4, <1>5, Reads
<1>6. CASE Succeed(t, [ctx EXCEPT !.evaluated = FALSE], store)
  <2>. DEFINE c == [ctx EXCEPT !.evaluated = FALSE]
  <2>1. /\ c \in Contexts /\ c.succeeded = ctx.succeeded /\ c.order = ctx.order
        /\ c.offerMessage = ctx.offerMessage /\ c.customerMessage = ctx.customerMessage
    BY <1>4 DEF Contexts
  <2>2. Succeed(t, c, store)
    BY <1>6
  <2>. HIDE DEF c
  <2>. QED
    BY <2>1, <2>2, Reads
<1>7. CASE Succeed(t, [ctx EXCEPT !.order = "other", !.evaluated = TRUE], store)
  <2>. DEFINE c == [ctx EXCEPT !.order = "other", !.evaluated = TRUE]
  <2>1. /\ c \in Contexts /\ c.succeeded = ctx.succeeded /\ c.order = "other"
        /\ c.offerMessage = ctx.offerMessage /\ c.customerMessage = ctx.customerMessage
    BY <1>4 DEF Contexts, Parties
  <2>2. Succeed(t, c, store)
    BY <1>7
  <2>. HIDE DEF c
  <2>. QED
    BY <1>2, <1>3, <2>1, <2>2, Reads
<1>. QED
  BY <1>5, <1>6, <1>7 DEF find_ready_replacements

LEMMA ReplanIInv ==
  ASSUME IInv, replan_day
  PROVE  IInv' /\ Keeps
<1>1. Succeed("replan_day", ctx, Did("replanned"))
  BY DEF replan_day
<1>2. "replan_day" \in Scope
  BY <1>1, Quietly DEF Succeed, Call, Step
<1>3. event.intent = "none"
  BY <1>2, ToolIntent DEF IInv, Typed
<1>4. Leaves(ctx, Did("replanned"), {"replanned"})
  BY <1>3, StoreWrites, Permission DEF Leaves, IInv, Typed, Effects
<1>. QED
  BY <1>1, <1>4, Works

LEMMA WordingShape ==
  ASSUME IInv, Prepared
  PROVE  /\ Wording \in Kinds \ {"confirmation", "apology"}
         /\ Wording = "offer" <=> "offered" \in store.effects
<1>1. CASE ctx.offerMessage
  BY <1>1 DEF IInv, Noted, Wording, Kinds
<1>2. CASE ~ctx.offerMessage
  BY <1>2 DEF IInv, Typed, Contexts, Noted, Wording, Kinds, Prepared
<1>. QED
  BY <1>1, <1>2

LEMMA SendIInv ==
  ASSUME IInv, send_message
  PROVE  IInv' /\ Keeps
<1>. DEFINE t == "send_message"
            w == Sent(store, ctx.order, Wording)
<1>1. /\ pc = "act" /\ t \in legal_actions /\ store' = w /\ Step(TRUE)
      /\ ctx' = [ctx EXCEPT !.succeeded = @ \cup {t}]
  BY DEF send_message, Succeed, Call, Step
<1>2. t \notin Blocked /\ store.messages = <<>>
  BY <1>1, Quietly
<1>3. Prepared
  BY <1>2 DEF Blocked
<1>4. ctx.order \in Parties
  BY <1>1 DEF IInv, Typed, Course, Contexts
<1>5. /\ w \in Stores /\ w.effects = store.effects
      /\ w.messages = <<[to |-> ctx.order, kind |-> Wording]>>
  BY <1>2, <1>3, <1>4, FirstMessage, WordingShape DEF IInv, Typed
<1>6. t \in TOOL_REGISTRY
  BY <1>1, Registered DEF IInv, Typed
<1>. HIDE DEF w
<1>7. Wording \in Kinds /\ {} \in SUBSET {"booked"}
  BY <1>3, WordingShape
<1>. QED
  BY <1>1, <1>2, <1>3, <1>5, <1>6, <1>7, WordingShape, Tells

LEMMA ActIInv ==
  ASSUME IInv, Act
  PROVE  IInv' /\ Keeps
BY RefusedIInv, ToolFailsIInv, AvailabilityIInv, RejectionIInv, FindSlotIInv,
   ConfirmIInv, EscalateIInv, ReplyToolsIInv, FindInsertionIInv, EvaluateIInv,
   CreateOfferIInv, ReplacementsIInv, ReplanIInv, SendIInv
   DEF Act

\* What the completion guarantee leaves behind.
LEMMA ConcludeIInv ==
  ASSUME IInv, Conclude
  PROVE  /\ IInv' /\ run.status = "RUNNING" /\ run'.status \in Contract!Ended
         /\ event' = event /\ store.effects \subseteq store'.effects
         /\ \/ store'.messages = store.messages
            \/ store.messages = <<>> /\ Len(store'.messages) = 1
         /\ store'.messages = <<>> => /\ run'.status = "FAILED" /\ store'.effects = {}
                                      /\ ctx'.order = "none"
<1>. DEFINE s == IF FinalStatus = "STEP_LIMIT_REACHED" THEN Did("exception") ELSE store
<1>1. /\ pc = "ended" /\ pc' = "done" /\ store' = Guarantee(s)
      /\ run' = [run EXCEPT !.status = FinalStatus]
      /\ UNCHANGED <<event, ctx>>
  BY DEF Conclude
<1>2. /\ run' \in RunLogs /\ run'.status = FinalStatus
      /\ FinalStatus \in Contract!Ended
      /\ run.error => FinalStatus = "FAILED"
  BY <1>1 DEF IInv, Typed, RunLogs, FinalStatus, Contract!Ended
<1>3. /\ s \in Stores /\ s.messages = store.messages
      /\ s.effects \in {store.effects, store.effects \cup {"exception"}}
      /\ ctx.order = "none" => s = store
  <2>1. ctx.order = "none" => FinalStatus = "FAILED"
    BY <1>1, <1>2 DEF IInv, Course
  <2>. QED
    BY <2>1, StoreWrites DEF IInv, Typed, Effects
<1>. HIDE DEF s
<1>4. CASE ~Unanswered
  <2>1. store' = s
    BY <1>1, <1>4 DEF Guarantee
  <2>2. store.messages = <<>> => ctx.order = "none"
    BY <1>4 DEF Unanswered
  <2>3. ctx.order = "none" => run'.status = "FAILED" /\ store'.effects = {}
    BY <1>1, <1>2, <1>3, <2>1 DEF IInv, Course
  <2>4. Typed'
    BY <1>1, <1>2, <1>3, <2>1 DEF IInv, Typed
  <2>5. Course' /\ Unspoken' /\ Told' /\ Noted' /\ OffersFollowRecord'
    <3>1. Course' /\ Unspoken'
      BY <1>1, <1>2, <1>3, <2>1, <2>2, <2>3 DEF IInv, Course, Unspoken
    <3>2. Told'
      BY <1>1, <1>3, <2>1 DEF IInv, Told
    <3>3. Noted' /\ OffersFollowRecord'
      BY <1>1, <1>3, <2>1 DEF IInv, Noted, OffersFollowRecord, Done
    <3>. QED
      BY <3>1, <3>2, <3>3
  <2>6. Within'
    <3>1. PermittedEffects(event)' = PermittedEffects(event)
      BY <1>1 DEF PermittedEffects
    <3>. QED
      BY <1>3, <2>1, <3>1, Permission DEF IInv, Typed, Within
  <2>7. IInv'
    BY <2>4, <2>5, <2>6 DEF IInv
  <2>8. run.status = "RUNNING"
    BY <1>1 DEF IInv, Course
  <2>9. store.effects \subseteq store'.effects /\ store'.messages = store.messages
    BY <1>3, <2>1
  <2>10. event' = event /\ ctx' = ctx /\ run'.status \in Contract!Ended
    BY <1>1, <1>2
  <2>. QED
    BY <2>2, <2>3, <2>7, <2>8, <2>9, <2>10
<1>5. CASE Unanswered
  <2>1. ctx.order \in Parties /\ ctx.order # "none"
    BY <1>5 DEF Unanswered, IInv, Typed, Contexts, Parties
  <2>2. store.messages = <<>>
    <3>1. store.messages # <<>> => 1 \in DOMAIN store.messages /\ store.messages[1].to = ctx.order
      BY DEF IInv, Typed, Stores, Told
    <3>. QED
      BY <1>5, <3>1 DEF Unanswered
  <2>3. PICK k \in Kinds, E \in {s.effects, s.effects \cup {"exception"}} :
          /\ store' \in Stores /\ store'.effects = E
          /\ store'.messages = <<[to |-> ctx.order, kind |-> k]>>
          /\ k # "confirmation" /\ (k = "offer" <=> "offered" \in store.effects)
          /\ k = "apology" => "exception" \in E
    <3>1. CASE Prepared
      <4>1. store' = Sent(s, ctx.order, Wording)
        BY <1>1, <1>5, <3>1 DEF Guarantee
      <4>2. /\ store' \in Stores /\ store'.effects = s.effects
            /\ store'.messages = <<[to |-> ctx.order, kind |-> Wording]>>
        BY <1>3, <2>1, <2>2, <3>1, <4>1, FirstMessage, WordingShape
      <4>. QED
        BY <1>3, <3>1, <4>2, WordingShape
    <3>2. CASE ~Prepared
      <4>. DEFINE w == [s EXCEPT !.effects = @ \cup {"exception"}]
      <4>1. store' = Sent(w, ctx.order, "apology")
        BY <1>1, <1>5, <3>2 DEF Guarantee
      <4>2. w \in Stores /\ w.messages = <<>> /\ w.effects = s.effects \cup {"exception"}
        BY <1>3, <2>2 DEF Stores, Effects
      <4>. HIDE DEF w
      <4>3. /\ store' \in Stores /\ store'.effects = s.effects \cup {"exception"}
            /\ store'.messages = <<[to |-> ctx.order, kind |-> "apology"]>>
        BY <2>1, <4>1, <4>2, FirstMessage DEF Kinds
      <4>4. "offered" \notin store.effects
        BY <3>2 DEF Prepared, IInv, Noted
      <4>. QED
        BY <4>3, <4>4 DEF Kinds
    <3>. QED
      BY <3>1, <3>2
  <2>4. \A e : e # "exception" => (e \in store'.effects <=> e \in store.effects)
    BY <1>3, <2>3
  <2>5. store.effects \subseteq store'.effects
    BY <1>3, <2>3
  <2>6. Len(store'.messages) = 1 /\ store'.messages # <<>>
        /\ store'.messages[1] = [to |-> ctx.order, kind |-> k]
    BY <2>3
  <2>7. Typed' /\ Course' /\ Unspoken'
    BY <1>1, <1>2, <2>1, <2>3, <2>6 DEF IInv, Typed, Course, Unspoken
  <2>8. Told'
    <3>1. "booked" \notin store'.effects
      BY <2>2, <2>4 DEF IInv, Told
    <3>. QED
      BY <1>1, <2>3, <2>4, <2>6, <3>1 DEF Told
  <2>9. Noted' /\ OffersFollowRecord'
    BY <1>1, <2>4, <2>5 DEF IInv, Noted, OffersFollowRecord, Done
  <2>10. Within'
    <3>1. PermittedEffects(event)' = PermittedEffects(event)
      BY <1>1 DEF PermittedEffects
    <3>. QED
      BY <2>4, <3>1, Permission DEF IInv, Typed, Within
  <2>. QED
    BY <1>1, <1>2, <2>2, <2>5, <2>6, <2>7, <2>8, <2>9, <2>10 DEF IInv, Course
<1>. QED
  BY <1>4, <1>5

\* Reading the order, deciding, failing, and other requests' answers.
LEMMA OtherIInv ==
  ASSUME IInv, Observe \/ Decide \/ Raise \/ OfferAnswered \/ UNCHANGED vars
  PROVE  IInv' /\ run'.status = run.status /\ UNCHANGED <<event, store>>
<1>1. CASE Observe
  <2>1. UNCHANGED <<event, store>> /\ pc = "observe"
        /\ ctx'.succeeded = ctx.succeeded /\ ctx'.offerMessage = ctx.offerMessage
        /\ ctx'.customerMessage = ctx.customerMessage
    BY <1>1 DEF Observe, IInv, Typed, Contexts
  <2>2. Typed' /\ run'.status = run.status
    BY <1>1 DEF Observe, IInv, Typed, Contexts, RunLogs, Parties
  <2>3. \/ pc' = "decide" /\ ctx'.order = "own"
        \/ pc' = "ended" /\ run'.error /\ ctx' = ctx
    BY <1>1 DEF Observe, IInv, Typed, Contexts, RunLogs
  <2>4. Course' /\ Unspoken' /\ Told'
    BY <2>1, <2>2, <2>3 DEF IInv, Course, Unspoken, Told
  <2>5. Noted' /\ OffersFollowRecord' /\ Within'
    <3>1. PermittedEffects(event)' = PermittedEffects(event)
      BY <2>1 DEF PermittedEffects
    <3>. QED
      BY <2>1, <3>1 DEF IInv, Noted, OffersFollowRecord, Within, Done
  <2>. QED
    BY <2>1, <2>2, <2>4, <2>5 DEF IInv
<1>2. CASE Decide \/ Raise \/ OfferAnswered \/ UNCHANGED vars
  <2>1. /\ UNCHANGED <<event, store, ctx>> /\ run'.status = run.status /\ run' \in RunLogs
        /\ \/ pc = "decide" /\ pc' \in {"act", "ended"}
           \/ pc' = pc /\ run' = run
    BY <1>2 DEF Decide, Raise, OfferAnswered, vars, IInv, Typed, RunLogs
  <2>2. Typed' /\ Course' /\ Unspoken' /\ Told'
    BY <2>1 DEF IInv, Typed, Course, Unspoken, Told, Done, Accepted
  <2>3. Noted' /\ OffersFollowRecord' /\ Within'
    <3>1. PermittedEffects(event)' = PermittedEffects(event)
      BY <2>1 DEF PermittedEffects
    <3>. QED
      BY <2>1, <3>1 DEF IInv, Noted, OffersFollowRecord, Within, Done
  <2>. QED
    BY <2>1, <2>2, <2>3 DEF IInv
<1>. QED
  BY <1>1, <1>2

-----------------------------------------------------------------------------
(* The theorems *)

(* The strengthened invariant holds of every run.                          *)
THEOREM Invariance == Spec => []IInv
<1>1. ASSUME IInv, [Next]_vars PROVE IInv'
  BY <1>1, ActIInv, ConcludeIInv, OtherIInv DEF Next, Running, Terminated
<1>. QED
  BY InitIInv, <1>1, PTL DEF Spec

(* A chat turn offers times only after what its customer said is on file:  *)
(* whatever tools the decider names, in whatever order.                    *)
THEOREM OffersAfterRecord == Spec => []OffersFollowRecord
BY Invariance, PTL DEF IInv

(* Whatever ends a run that read its order - its decider, the step limit,  *)
(* an exception - its customer has been written to exactly once, and it    *)
(* was the customer who wrote.                                             *)
THEOREM AlwaysAnswered == Spec => []AnsweredOnce
<1>1. ASSUME IInv PROVE AnsweredOnce
  BY <1>1 DEF IInv, Course, Unspoken, Told, AnsweredOnce
<1>. QED
  BY <1>1, Invariance, PTL

LEMMA OneMessage ==
  ASSUME IInv
  PROVE  DOMAIN store.messages = IF store.messages = <<>> THEN {} ELSE {1}
<1>1. CASE store.messages = <<>>
  BY <1>1
<1>2. CASE store.messages # <<>>
  <2>1. Len(store.messages) = 1 /\ store.messages \in Seq([to : Parties, kind : Kinds])
    BY <1>2 DEF IInv, Told, Typed, Stores
  <2>2. DOMAIN store.messages = 1..1
    BY <2>1
  <2>. QED
    BY <1>2, <2>2
<1>. QED
  BY <1>1, <1>2

(* The one message of a chat turn is about what the turn did: a booking is *)
(* confirmed, an offer is presented, and neither without the other.        *)
THEOREM OutcomesTold == Spec => []OutcomeTold
<1>1. ASSUME IInv PROVE OutcomeTold
  <2>1. CASE store.messages = <<>>
    BY <1>1, <2>1, OneMessage DEF IInv, Course, Unspoken, OutcomeTold
  <2>2. CASE store.messages # <<>>
    BY <1>1, <2>2, OneMessage DEF IInv, Told, OutcomeTold
  <2>. QED
    BY <2>1, <2>2
<1>. QED
  BY <1>1, Invariance, PTL

\* Every step of the loop is a step of the contract or invisible to it.
LEMMA StepRefines ==
  ASSUME IInv, IInv', [Next]_vars
  PROVE  [Contract!Next]_(Contract!runVars)
<1>1. CASE Observe \/ Decide \/ Raise \/ OfferAnswered \/ UNCHANGED vars
  BY <1>1, OtherIInv DEF Contract!runVars
<1>2. CASE Conclude
  BY <1>2, ConcludeIInv DEF Contract!Next, Contract!End, Contract!Work, IInv, Within
<1>3. CASE Act
  BY <1>3, ActIInv
     DEF Keeps, Contract!Next, Contract!Continue, Contract!Work, IInv, Within
<1>. QED
  BY <1>1, <1>2, <1>3 DEF Next, Running, Terminated

(* A run of the loop is a run of AgentRun.                                 *)
THEOREM Implementation == Spec => ImplementsAgentRun
<1>1. Init => Contract!Init
  BY DEF Init, Contract!Init
<1>2. IInv /\ IInv' /\ [Next]_vars => [Contract!Next]_(Contract!runVars)
  BY StepRefines
<1>. QED
  BY <1>1, <1>2, Invariance, PTL DEF Spec, ImplementsAgentRun, Contract!Spec

-----------------------------------------------------------------------------
(* The rules of the decider *)

\* A set of numbers has a least one: the induction a list of rules needs.
LEMMA LeastNumber ==
  ASSUME NEW S \in SUBSET Nat, S # {}
  PROVE  \E m \in S : \A k \in S : m <= k
<1>1. PICK m \in S : \A k \in S : <<k, m>> \notin OpToRel(<, Nat)
  BY NatLessThanWellFounded, WFMin, Zenon
<1>2. \A k \in S : ~(k < m)
  BY <1>1 DEF OpToRel
<1>. QED
  BY <1>2

Rules == [when : BOOLEAN, tool : TOOL_REGISTRY]
Decisive(rules) == rules \in Seq(Rules) /\ \E i \in DOMAIN rules : rules[i].when

\* Of a list of rules one of which applies, the first that does decides.
LEMMA FirstRuleDecides ==
  ASSUME NEW rules, Decisive(rules)
  PROVE  /\ FirstRule(rules) \in TOOL_REGISTRY
         /\ \E i \in DOMAIN rules :
              /\ rules[i].when /\ FirstRule(rules) = rules[i].tool
              /\ \A j \in 1..(i - 1) : ~rules[j].when
<1>. DEFINE S == {i \in DOMAIN rules : rules[i].when}
<1>1. DOMAIN rules = 1..Len(rules) /\ Len(rules) \in Nat
      /\ \A i \in DOMAIN rules : rules[i] \in Rules
  BY DEF Decisive
<1>2. S \in SUBSET Nat /\ S # {}
  BY <1>1 DEF Decisive
<1>3. PICK m \in S : \A k \in S : m <= k
  BY <1>2, LeastNumber
<1>4. m \in DOMAIN rules /\ rules[m].when /\ \A j \in 1..(m - 1) : ~rules[j].when
  BY <1>1, <1>3
<1>. DEFINE first == CHOOSE i \in DOMAIN rules :
                       rules[i].when /\ \A j \in 1..(i - 1) : ~rules[j].when
<1>5. first \in DOMAIN rules /\ rules[first].when
      /\ \A j \in 1..(first - 1) : ~rules[j].when
  BY <1>4
<1>6. FirstRule(rules) = rules[first].tool
  BY DEF FirstRule
<1>. HIDE DEF first
<1>7. FirstRule(rules) \in TOOL_REGISTRY
  BY <1>1, <1>5, <1>6 DEF Rules
<1>. QED
  BY <1>5, <1>6, <1>7

LEMMA DecisiveTail ==
  ASSUME NEW r \in Seq(Rules), NEW s, Decisive(s)
  PROVE  Decisive(r \o s)
<1>1. s \in Seq(Rules) /\ DOMAIN s = 1..Len(s)
  BY DEF Decisive
<1>2. PICK i \in 1..Len(s) : s[i].when
  BY <1>1 DEF Decisive
<1>3. r \o s \in Seq(Rules)
  BY <1>1
<1>4. (r \o s)[Len(r) + i] = s[i] /\ Len(r) + i \in DOMAIN (r \o s)
  BY <1>1, <1>2
<1>. QED
  BY <1>2, <1>3, <1>4 DEF Decisive

LEMMA RuleKnown ==
  ASSUME NEW w \in BOOLEAN, NEW t \in TOOL_REGISTRY
  PROVE  Rule(w, t) \in Rules /\ Rule(w, t).when = w
BY DEF Rule, Rules

LEMMA RuleTools ==
  {"search_delivery_policy", "answer_from_policy", "send_message", "escalate_booking",
   "finish", "record_availability", "record_rejection", "find_normal_slot",
   "find_requested_day_slot", "find_fallback_options", "confirm_offer", "explain_offer",
   "ask_clarification", "evaluate_slots", "suggest_route_aware_windows", "create_offer",
   "create_exception"} \subseteq TOOL_REGISTRY
<1>1. /\ "policy_question" \in DOMAIN INTENT_TOOLS /\ "provide_availability" \in DOMAIN INTENT_TOOLS
      /\ "reject" \in DOMAIN INTENT_TOOLS /\ "accept" \in DOMAIN INTENT_TOOLS
      /\ "explain" \in DOMAIN INTENT_TOOLS /\ "unclear" \in DOMAIN INTENT_TOOLS
  BY IntentTools
<1>2. \A i \in DOMAIN INTENT_TOOLS : INTENT_TOOLS[i] \subseteq TOOL_REGISTRY
  BY DEF TOOL_REGISTRY
<1>3. /\ INTENT_TOOLS["policy_question"] \subseteq TOOL_REGISTRY
      /\ INTENT_TOOLS["provide_availability"] \subseteq TOOL_REGISTRY
      /\ INTENT_TOOLS["reject"] \subseteq TOOL_REGISTRY
      /\ INTENT_TOOLS["accept"] \subseteq TOOL_REGISTRY
      /\ INTENT_TOOLS["explain"] \subseteq TOOL_REGISTRY
      /\ INTENT_TOOLS["unclear"] \subseteq TOOL_REGISTRY
  BY <1>1, <1>2
<1>4. /\ "suggest_route_aware_windows" \in ReadOnly /\ ReadOnly \subseteq TOOL_REGISTRY
      /\ {"evaluate_slots", "create_offer", "create_exception"} \subseteq TOOL_REGISTRY
  <2>1. "suggest_route_aware_windows" \in ReadOnly
    BY DEF ReadOnly
  <2>2. ReadOnly \subseteq TOOL_REGISTRY
    BY DEF TOOL_REGISTRY
  <2>3. {"evaluate_slots", "create_offer", "create_exception"} \subseteq TOOL_REGISTRY
    BY DEF TOOL_REGISTRY
  <2>. QED
    BY <2>1, <2>2, <2>3
<1>. QED
  BY <1>3, <1>4, IntentTools

LEMMA RuleDecides ==
  ASSUME Typed
  PROVE  /\ RuleDecision \in TOOL_REGISTRY
         /\ Decisive(RetryRules)
<1>. DEFINE T == TOOL_REGISTRY
<1>1. Finally \in Rules /\ Finally.when
  BY RuleKnown, RuleTools DEF Finally
<1>2. Prepared \in BOOLEAN /\ \A t : Untried(t) \in BOOLEAN /\ LastFailed(t) \in BOOLEAN
                                      /\ Done(t) \in BOOLEAN
  BY DEF Prepared, Untried, LastFailed, Tried, Done, Typed, Contexts
<1>3. event.stated \in BOOLEAN
  <2>. DEFINE Both == {"model", "rule"}
  <2>1. \/ event \in Event({"NEW_ORDER"}, {"provide_availability"}, BOOLEAN,
                          {"cluster", "requested"}, Both)
        \/ event \in Event({"CUSTOMER_ACCEPTED_OFFER"}, {"accept"}, {FALSE}, {"none"}, Both)
        \/ event \in Event({"CUSTOMER_REJECTED_OFFER"}, {"reject"}, BOOLEAN, {"none"}, Both)
        \/ event \in Event({"MANUAL_RETRY"},
                 {"explain", "policy_question", "general_support", "unclear"},
                 {FALSE}, {"none"}, Both)
        \/ event \in Event({"NEW_ORDER", "CUSTOMER_REJECTED_OFFER"}, {"none"}, {FALSE},
                 {"none"}, {"model"})
    BY DEF Typed, Events
  <2>. QED
    BY <2>1 DEF Event
<1>4. Decisive(PolicyRules)
  <2>. DEFINE r1 == Rule(Untried("search_delivery_policy"), "search_delivery_policy")
              r2 == Rule(Done("search_delivery_policy") /\ Untried("answer_from_policy"),
                         "answer_from_policy")
              r3 == Rule(Untried("send_message") /\ Done("search_delivery_policy"),
                         "send_message")
              r4 == Rule(Untried("send_message"), "escalate_booking")
  <2>1. r1 \in Rules /\ r2 \in Rules /\ r3 \in Rules /\ r4 \in Rules
    BY <1>2, RuleKnown, RuleTools
  <2>2. PolicyRules = <<r1, r2, r3, r4, Finally>>
    BY DEF PolicyRules
  <2>. HIDE DEF r1, r2, r3, r4
  <2>. QED
    BY <1>1, <2>1, <2>2 DEF Decisive


<1>5. ASSUME NEW search \in {"find_normal_slot", "find_requested_day_slot",
                              "find_fallback_options"}
      PROVE  Decisive(InsertionRules(search))
  <2>. DEFINE r1 == Rule(Untried(search), search)
              r2 == Rule(LastFailed(search) /\ Untried("escalate_booking"), "escalate_booking")
              r3 == Rule(Untried("send_message"), "send_message")
  <2>1. r1 \in Rules /\ r2 \in Rules /\ r3 \in Rules
    BY <1>2, RuleKnown, RuleTools
  <2>2. InsertionRules(search) = <<r1, r2, r3, Finally>>
    BY DEF InsertionRules
  <2>. HIDE DEF r1, r2, r3
  <2>. QED
    BY <1>1, <2>1, <2>2 DEF Decisive
<1>6. Decisive(AvailabilityRules)
  <2>. DEFINE r1 == Rule(event.stated /\ Untried("record_availability"), "record_availability")
              r2 == Rule(event.stated /\ LastFailed("record_availability")
                           /\ Untried("send_message") /\ Prepared, "send_message")
              r3 == Rule(event.stated /\ LastFailed("record_availability"), "finish")
              search == IF event.scope = "requested" THEN "find_requested_day_slot"
                                                     ELSE "find_normal_slot"
  <2>1. r1 \in Rules /\ r2 \in Rules /\ r3 \in Rules
    BY <1>2, <1>3, RuleKnown, RuleTools
  <2>2. AvailabilityRules = <<r1, r2, r3>> \o InsertionRules(search)
    BY DEF AvailabilityRules
  <2>. HIDE DEF r1, r2, r3
  <2>3. Decisive(InsertionRules(search)) /\ <<r1, r2, r3>> \in Seq(Rules)
    BY <1>5, <2>1
  <2>. HIDE DEF search
  <2>. QED
    BY <2>2, <2>3, DecisiveTail
<1>7. Decisive(OfferRules)
  <2>. DEFINE r1 == Rule(Untried("create_offer"), "create_offer")
              r2 == Rule(LastFailed("create_offer") /\ Untried("create_exception"),
                         "create_exception")
              r3 == Rule(LastFailed("create_offer") /\ Untried("send_message"), "send_message")
  <2>1. r1 \in Rules /\ r2 \in Rules /\ r3 \in Rules /\ Reply \in Rules
    BY <1>2, RuleKnown, RuleTools DEF Reply
  <2>2. OfferRules = <<r1, r2, r3, Reply, Finally>>
    BY DEF OfferRules
  <2>. HIDE DEF r1, r2, r3
  <2>. QED
    BY <1>1, <2>1, <2>2 DEF Decisive
<1>8. Decisive(PlainOrderRules)
  <2>1. <<Rule(Untried("evaluate_slots"), "evaluate_slots")>> \in Seq(Rules)
    BY <1>2, RuleKnown, RuleTools
  <2>. QED
    BY <1>7, <2>1, DecisiveTail DEF PlainOrderRules
<1>9. Decisive(PlainRejectionRules)
  <2>. DEFINE r1 == Rule(Untried("record_rejection"), "record_rejection")
              r2 == Rule(Untried("evaluate_slots"), "evaluate_slots")
              r3 == Rule(Untried("suggest_route_aware_windows"), "suggest_route_aware_windows")
  <2>1. r1 \in Rules /\ r2 \in Rules /\ r3 \in Rules
    BY <1>2, RuleKnown, RuleTools
  <2>2. PlainRejectionRules = <<r1, r2, r3>> \o OfferRules
    BY DEF PlainRejectionRules
  <2>. HIDE DEF r1, r2, r3
  <2>3. <<r1, r2, r3>> \in Seq(Rules)
    BY <2>1
  <2>. QED
    BY <1>7, <2>2, <2>3, DecisiveTail
<1>10. Decisive(RejectionRules)
  <2>1. <<Rule(Untried("record_rejection"), "record_rejection")>> \in Seq(Rules)
    BY <1>2, RuleKnown, RuleTools
  <2>. QED
    BY <1>5, <2>1, DecisiveTail DEF RejectionRules
<1>11. Decisive(RetryRules)
  <2>. DEFINE r1 == Rule(event.intent = "explain" /\ Untried("explain_offer"), "explain_offer")
              r2 == Rule(event.intent # "explain" /\ Untried("ask_clarification"),
                         "ask_clarification")
              r3 == Rule(event.intent = "general_support" /\ Untried("escalate_booking"),
                         "escalate_booking")
  <2>1. r1 \in Rules /\ r2 \in Rules /\ r3 \in Rules /\ Reply \in Rules
    BY <1>2, RuleKnown, RuleTools DEF Reply
  <2>2. RetryRules = <<r1, r2, r3, Reply, Finally>>
    BY DEF RetryRules
  <2>. HIDE DEF r1, r2, r3
  <2>. QED
    BY <1>1, <2>1, <2>2 DEF Decisive
<1>12. Decisive(<<Rule(Untried("confirm_offer"), "confirm_offer"), Finally>>)
  <2>. DEFINE r1 == Rule(Untried("confirm_offer"), "confirm_offer")
  <2>1. r1 \in Rules
    BY <1>2, RuleKnown, RuleTools
  <2>. HIDE DEF r1
  <2>. QED
    BY <1>1, <2>1 DEF Decisive, r1
<1>13. RuleDecision \in TOOL_REGISTRY
  <2>1. CASE event.intent = "policy_question"
    BY <1>4, <2>1, FirstRuleDecides DEF RuleDecision
  <2>2. CASE event.intent = "provide_availability"
    BY <1>6, <2>2, FirstRuleDecides DEF RuleDecision
  <2>3. CASE event.intent = "reject"
    BY <1>10, <2>3, FirstRuleDecides DEF RuleDecision
  <2>4. CASE event.intent = "accept"
    BY <1>12, <2>4, FirstRuleDecides DEF RuleDecision
  <2>5. CASE event.intent \in {"explain", "general_support", "unclear"}
    BY <1>11, <2>5, FirstRuleDecides DEF RuleDecision
  <2>6. CASE event.intent = "none"
    BY <1>8, <1>9, <2>6, FirstRuleDecides DEF RuleDecision
  <2>. QED
    BY <2>1, <2>2, <2>3, <2>4, <2>5, <2>6, EventShape DEF Typed
<1>. QED
  BY <1>11, <1>13

-----------------------------------------------------------------------------
(* Types, and the pace of the loop *)

\* What is left to do is never nothing.
LEMMA SomethingLegal == legal_actions # {}
BY DEF legal_actions

\* Whoever decides, the decision is a tool of the registry or "unknown".
LEMMA DecisionNamed ==
  ASSUME Typed
  PROVE  Decisions \subseteq TOOL_REGISTRY \cup {"unknown"}
<1>. DEFINE D == TOOL_REGISTRY \cup {"unknown"}
<1>1. legal_actions \subseteq TOOL_REGISTRY /\ legal_actions # {}
  BY Registered, SomethingLegal DEF Typed
<1>2. ASSUME NEW choice \in D PROVE Gated(choice, legal_actions) \in D
  BY <1>1 DEF Gated
<1>3. RuleDecision \in D
  BY RuleDecides
<1>4. Scope \cup Stray \subseteq D
  BY ScopeShape, AgentAssumption DEF Typed
<1>5. "confirm_offer" \in D
  BY RuleTools
<1>. QED
  BY <1>1, <1>2, <1>3, <1>4, <1>5 DEF Decisions

\* While the loop decides or acts, a step is left.
Paced ==
  /\ run.step \in 0..MaxToolSteps
  /\ pc \in {"observe", "decide", "act"} => run.step < MaxToolSteps
  /\ decision \in TOOL_REGISTRY \cup {"none", "unknown"}
  /\ offer \in {"open", "accepted", "closed"}

LEMMA StepPaced ==
  ASSUME Typed, Paced, NEW ok \in BOOLEAN, Step(ok),
         offer' \in {"open", "accepted", "closed"}
  PROVE  Paced'
<1>1. run'.step = run.step + 1 /\ decision' = "none"
  BY DEF Step, Logged, Typed, RunLogs
<1>2. run.step < MaxToolSteps /\ MaxToolSteps \in Nat /\ run.step \in Nat
  BY AgentAssumption DEF Step, Paced
<1>3. pc' = IF run'.completed \/ run'.step >= MaxToolSteps THEN "ended" ELSE "decide"
  BY DEF Step
<1>. QED
  BY <1>1, <1>2, <1>3 DEF Paced

\* Every action of the run is one step of the loop.
LEMMA ActSteps ==
  ASSUME Paced, Act
  PROVE  /\ Step(TRUE) \/ Step(FALSE)
         /\ offer' \in {"open", "accepted", "closed"}
<1>1. CASE Refused \/ ToolFails
  BY <1>1 DEF Refused, ToolFails, Fail, Paced
<1>2. CASE Finish
  <2>1. CASE decision \in legal_actions
    <3>1. (decision \in legal_actions) = TRUE
      BY <2>1
    <3>2. Step(TRUE)
      BY <1>2, <3>1 DEF Finish, Step
    <3>. QED
      BY <1>2, <3>2 DEF Finish, Paced
  <2>2. CASE decision \notin legal_actions
    <3>1. (decision \in legal_actions) = FALSE
      BY <2>2
    <3>2. Step(FALSE)
      BY <1>2, <3>1 DEF Finish, Step, Logged
    <3>. QED
      BY <1>2, <3>2 DEF Finish, Paced
  <2>. QED
    BY <2>1, <2>2
<1>3. CASE \/ record_availability \/ record_rejection \/ find_slot
           \/ explain_offer \/ escalate_booking \/ ask_clarification
           \/ search_delivery_policy \/ answer_from_policy \/ send_message
  BY <1>3 DEF record_availability, record_rejection, find_slot, explain_offer,
     escalate_booking, ask_clarification, search_delivery_policy, answer_from_policy,
     send_message, Succeed, Fail, Paced
<1>4. CASE \/ evaluate_slots \/ create_offer \/ find_insertion_options
           \/ create_insertion_offer \/ find_ready_replacements \/ replan_day
           \/ create_exception \/ read_only
  BY <1>4 DEF evaluate_slots, create_offer, find_insertion_options,
     create_insertion_offer, find_ready_replacements, replan_day, create_exception,
     read_only, Succeed, Fail, Paced
<1>5. CASE confirm_offer
  BY <1>5 DEF confirm_offer, Succeed, Fail
<1>. QED
  BY <1>1, <1>2, <1>3, <1>4, <1>5 DEF Act

(* A run never acts on more decisions than MAX_TOOL_STEPS allows, and never *)
(* holds a decision that is not a tool's name.                             *)
THEOREM TypeCorrect == Spec => []TypeOK
<1>1. Init => Paced
  BY AgentAssumption DEF Init, Paced
<1>2. ASSUME IInv, Paced, [Next]_vars PROVE Paced'
  <2>0. Typed
    BY <1>2 DEF IInv
  <2>1. CASE Act
    BY <1>2, <2>0, <2>1, ActSteps, StepPaced
  <2>2. CASE Observe
    BY <1>2, <2>0, <2>2 DEF Observe, Paced, Typed, RunLogs
  <2>3. CASE Decide
    BY <1>2, <2>0, <2>3, DecisionNamed DEF Decide, Paced
  <2>4. CASE Raise
    BY <1>2, <2>0, <2>4 DEF Raise, Paced, Typed, RunLogs
  <2>5. CASE Conclude
    BY <1>2, <2>0, <2>5 DEF Conclude, Paced, Typed, RunLogs
  <2>6. CASE OfferAnswered
    BY <1>2, <2>6 DEF OfferAnswered, Paced
  <2>7. CASE UNCHANGED vars
    BY <1>2, <2>7 DEF vars, Paced
  <2>. QED
    BY <1>2, <2>1, <2>2, <2>3, <2>4, <2>5, <2>6, <2>7 DEF Next, Running, Terminated
<1>3. IInv /\ Paced => TypeOK
  BY DEF IInv, Typed, Paced, TypeOK, Contexts, RunLogs, Stores
<1>. QED
  BY <1>1, <1>2, <1>3, Invariance, PTL DEF Spec

-----------------------------------------------------------------------------
(* The hand-over *)

\* A support request that has had its reply and not its escalation.
Owed ==
  /\ event.intent = "general_support"
  /\ Done("ask_clarification") /\ ~Done("escalate_booking")

\* What excuses a promised call so far.
Known ==
  "exception" \in store.effects \/ "escalate_booking" \in run.failed

\* Words that promise a person come from escalate_booking, whose row is saved
\* or whose failure is on the log, or from a support reply whose escalation
\* is still owed; and a run does not finish of its own accord owing it
\* before it was tried.
Handed ==
  /\ Done("escalate_booking") => "exception" \in store.effects
  /\ "escalate_booking" \in run.attempted => Known
  /\ ctx.customerMessage = "handover" => Known \/ Owed
  /\ pc = "act" /\ decision = "finish" /\ Owed => "escalate_booking" \in run.attempted
  /\ pc = "ended" => run.error \/ run.completed \/ run.step >= MaxToolSteps
  /\ pc = "ended" /\ run.completed /\ Owed =>
       run.error \/ "escalate_booking" \in run.attempted
  /\ \A i \in DOMAIN store.messages :
       store.messages[i].kind = "handover" =>
         Known \/ (run.error /\ Done("ask_clarification"))

\* What every call leaves in the log.
LEMMA Logging ==
  ASSUME Typed, NEW ok \in BOOLEAN, Step(ok)
  PROVE  /\ run'.attempted = run.attempted \cup ({decision} \cap Scope \cap LookedBackAt)
         /\ run'.failed = IF ok THEN run.failed \ {decision}
                         ELSE run.failed \cup ({decision} \cap Scope \cap FailureMatters)
         /\ run'.completed <=> decision = "finish"
         /\ run'.error = run.error /\ run'.step = run.step + 1
         /\ pc' = "ended" => run'.completed \/ run'.step >= MaxToolSteps
         /\ pc = "act" /\ pc' \in {"decide", "ended"} /\ event' = event
<1>. DEFINE r1 == [run EXCEPT !.step = run.step + 1]
            r2 == [r1 EXCEPT !.attempted =
                     run.attempted \cup ({decision} \cap Scope \cap LookedBackAt)]
            r3 == [r2 EXCEPT !.failed =
                     IF ok THEN run.failed \ {decision}
                     ELSE run.failed \cup ({decision} \cap Scope \cap FailureMatters)]
            r4 == [r3 EXCEPT !.completed = decision = "finish"]
<1>1. run' = r4
  BY DEF Step, Logged
<1>2. run'.attempted = run.attempted \cup ({decision} \cap Scope \cap LookedBackAt)
  BY <1>1 DEF Typed, RunLogs
<1>3. run'.failed = IF ok THEN run.failed \ {decision}
                    ELSE run.failed \cup ({decision} \cap Scope \cap FailureMatters)
  BY <1>1 DEF Typed, RunLogs
<1>4. run'.error = run.error /\ run'.step = run.step + 1
      /\ (run'.completed <=> decision = "finish")
  BY <1>1 DEF Typed, RunLogs
<1>5. pc' = "ended" => run'.completed \/ run'.step >= MaxToolSteps
  BY DEF Step
<1>. QED
  BY <1>2, <1>3, <1>4, <1>5, Stepping

\* A call keeps Handed when what it says of a person is so.
LEMMA Hands ==
  ASSUME IInv, Handed, NEW ok \in BOOLEAN, Step(ok),
         store.effects \subseteq store'.effects,
         \/ ctx'.succeeded = ctx.succeeded /\ (ok => decision = "finish")
         \/ ok /\ ctx'.succeeded = ctx.succeeded \cup {decision},
         ok /\ decision = "escalate_booking" => "exception" \in store'.effects,
         ctx'.customerMessage = "handover" =>
           \/ ctx.customerMessage = "handover"
           \/ Known' \/ Owed',
         \/ store'.messages = store.messages
         \/ \A i \in DOMAIN store'.messages :
              store'.messages[i].kind = "handover" => Known'
  PROVE  Handed'
<1>. DEFINE e == "escalate_booking"
<1>1. /\ run'.attempted = run.attempted \cup ({decision} \cap Scope \cap LookedBackAt)
      /\ run'.failed = IF ok THEN run.failed \ {decision}
                      ELSE run.failed \cup ({decision} \cap Scope \cap FailureMatters)
      /\ run'.completed <=> decision = "finish"
      /\ run'.error = run.error /\ run'.step = run.step + 1
      /\ pc' = "ended" => run'.completed \/ run'.step >= MaxToolSteps
      /\ pc = "act" /\ pc' \in {"decide", "ended"} /\ event' = event
  BY Logging DEF IInv
<1>2. Done(e)' <=> Done(e) \/ (ok /\ decision = e)
  BY DEF Done
<1>3. Done("ask_clarification") => Done("ask_clarification")'
  BY DEF Done
<1>4. Done(e)' => "exception" \in store'.effects
  BY <1>2 DEF Handed
<1>5. Known => Known'
  <2>1. e \in run.failed => e \in run'.failed \/ (ok /\ decision = e)
    BY <1>1
  <2>. QED
    BY <2>1, <1>2, <1>4 DEF Known
<1>6. Owed => Owed' \/ Known'
  BY <1>1, <1>3, <1>4 DEF Owed, Known
<1>7. e \in run'.attempted => Known'
  <2>1. e \in FailureMatters
    BY DEF FailureMatters
  <2>2. CASE e \in run.attempted
    BY <2>2, <1>5 DEF Handed
  <2>3. CASE e \notin run.attempted /\ e \in run'.attempted
    <3>1. decision = e /\ e \in Scope
      BY <2>3, <1>1
    <3>2. CASE ok
      BY <3>1, <3>2 DEF Known
    <3>3. CASE ~ok
      BY <3>1, <3>3, <2>1, <1>1 DEF Known
    <3>. QED
      BY <3>2, <3>3
  <2>. QED
    BY <2>2, <2>3
<1>8. ctx'.customerMessage = "handover" => Known' \/ Owed'
  BY <1>5, <1>6 DEF Handed
<1>9. pc' = "ended" /\ run'.completed /\ Owed' => e \in run'.attempted
  <2>. SUFFICES ASSUME run'.completed, Owed' PROVE e \in run'.attempted
    OBVIOUS
  <2>1. decision = "finish"
    BY <1>1
  <2>2. Owed
    BY <2>1, <1>1 DEF Owed, Done
  <2>. QED
    BY <1>1, <2>1, <2>2 DEF Handed
<1>10. ASSUME NEW i \in DOMAIN store'.messages, store'.messages[i].kind = "handover"
       PROVE  Known' \/ (run'.error /\ Done("ask_clarification")')
  <2>1. CASE store'.messages = store.messages
    BY <2>1, <1>1, <1>3, <1>5, <1>10 DEF Handed
  <2>. QED
    BY <2>1, <1>10
<1>11. pc' # "act" /\ (pc' = "ended" => run'.completed \/ run'.step >= MaxToolSteps)
  BY <1>1
<1>. QED
  BY <1>4, <1>7, <1>8, <1>9, <1>10, <1>11 DEF Handed

\* While the escalation is owed, it is all there is to do.
LEMMA OwedLegal ==
  ASSUME event \in Events, Owed
  PROVE  legal_actions = {"escalate_booking"} /\ Scope = INTENT_TOOLS["general_support"]
<1>. DEFINE Both == {"model", "rule"}
<1>1. \/ event \in Event({"NEW_ORDER"}, {"provide_availability"}, BOOLEAN,
                        {"cluster", "requested"}, Both)
      \/ event \in Event({"CUSTOMER_ACCEPTED_OFFER"}, {"accept"}, {FALSE}, {"none"}, Both)
      \/ event \in Event({"CUSTOMER_REJECTED_OFFER"}, {"reject"}, BOOLEAN, {"none"}, Both)
      \/ event \in Event({"MANUAL_RETRY"},
               {"explain", "policy_question", "general_support", "unclear"},
               {FALSE}, {"none"}, Both)
      \/ event \in Event({"NEW_ORDER", "CUSTOMER_REJECTED_OFFER"}, {"none"}, {FALSE},
               {"none"}, {"model"})
  BY DEF Events
<1>2. event.intent = "general_support" /\ event.scope = "none"
      /\ event.type = "MANUAL_RETRY"
  BY <1>1 DEF Event, Owed
<1>3. Scope = INTENT_TOOLS["general_support"]
  BY <1>2 DEF Scope
<1>4. "search_delivery_policy" \in INTENT_TOOLS["policy_question"]
      /\ "search_delivery_policy" \notin INTENT_TOOLS["general_support"]
  BY IntentTools
<1>5. PolicyGate = {} /\ SupportGate /\ ~Accepted
  BY <1>2, <1>3, <1>4 DEF PolicyGate, SupportGate, Accepted, Owed
<1>. QED
  BY <1>3, <1>5 DEF legal_actions

\* The rules end a support request only after trying its escalation.
LEMMA RulesEscalate ==
  ASSUME Typed, Owed, RuleDecision = "finish"
  PROVE  "escalate_booking" \in run.attempted
<1>. DEFINE r1 == Rule(event.intent = "explain" /\ Untried("explain_offer"), "explain_offer")
            r2 == Rule(event.intent # "explain" /\ Untried("ask_clarification"),
                       "ask_clarification")
            r3 == Rule(event.intent = "general_support" /\ Untried("escalate_booking"),
                       "escalate_booking")
<1>1. event.intent = "general_support"
  BY DEF Owed
<1>2. RuleDecision = FirstRule(RetryRules)
  BY <1>1 DEF RuleDecision
<1>3. PICK i \in DOMAIN RetryRules :
        /\ RetryRules[i].tool = "finish"
        /\ \A j \in 1..(i - 1) : ~RetryRules[j].when
  BY <1>2, RuleDecides, FirstRuleDecides
<1>4. RetryRules = <<r1, r2, r3, Reply, Finally>>
  BY DEF RetryRules
<1>5. r1.tool # "finish" /\ r2.tool # "finish" /\ r3.tool # "finish"
      /\ Reply.tool # "finish"
  BY DEF Rule, Reply
<1>6. r3.when <=> event.intent = "general_support" /\ Untried("escalate_booking")
  BY DEF Rule
<1>. HIDE DEF r1, r2, r3
<1>7. i = 5
  BY <1>3, <1>4, <1>5
<1>8. ~r3.when
  BY <1>3, <1>4, <1>7
<1>. QED
  BY <1>1, <1>6, <1>8 DEF Untried, Tried

\* Nobody decides to finish while an escalation is owed that was not tried.
LEMMA DecidesToEscalate ==
  ASSUME Typed, Owed, "finish" \in Decisions
  PROVE  "escalate_booking" \in run.attempted
<1>. DEFINE e == "escalate_booking"
<1>1. legal_actions = {e}
  BY OwedLegal DEF Typed
<1>2. Cardinality({e}) = 1
  BY FS_Singleton
<1>3. ASSUME NEW choice PROVE Gated(choice, {e}) = e
  BY <1>2 DEF Gated
<1>4. Decisions \subseteq {e, RuleDecision}
  BY <1>1, <1>3 DEF Decisions
<1>. QED
  BY <1>4, RulesEscalate

\* A tool that promises nobody a call.
LEMMA PromisesNone ==
  ASSUME IInv, Handed, NEW t, t # "escalate_booking", NEW c \in Contexts, NEW w,
         Succeed(t, c, w) \/ Fail(t, c, w), c.succeeded = ctx.succeeded,
         c.customerMessage \in {ctx.customerMessage, "reply"},
         store.effects \subseteq w.effects,
         \/ w.messages = store.messages
         \/ \A i \in DOMAIN w.messages : w.messages[i].kind # "handover"
  PROVE  Handed'
<1>1. store' = w /\ decision = t /\ t \in legal_actions
  BY DEF Succeed, Fail, Call
<1>2. CASE Fail(t, c, w)
  <2>1. Step(FALSE) /\ ctx' = c
    BY <1>2 DEF Fail
  <2>. QED
    BY <1>1, <2>1, Hands
<1>3. CASE Succeed(t, c, w)
  <2>1. Step(TRUE) /\ ctx' = [c EXCEPT !.succeeded = @ \cup {t}]
    BY <1>3 DEF Succeed
  <2>2. t \in TOOL_REGISTRY
    BY <1>1, Registered DEF IInv, Typed
  <2>3. ctx'.succeeded = ctx.succeeded \cup {decision}
        /\ ctx'.customerMessage = c.customerMessage
    BY <1>1, <2>1, <2>2, Ticked
  <2>. QED
    BY <1>1, <2>1, <2>3, Hands
<1>. QED
  BY <1>2, <1>3

LEMMA RefusedHands ==
  ASSUME IInv, Handed, Refused \/ Finish \/ ToolFails
  PROVE  Handed'
<1>1. CASE Refused \/ ToolFails
  <2>1. Step(FALSE) /\ ctx' = ctx /\ store' = store
    BY <1>1 DEF Refused, ToolFails, Fail
  <2>. QED
    BY <2>1, Hands
<1>2. CASE Finish
  <2>. DEFINE ok == decision \in legal_actions
  <2>1. Step(ok) /\ ok \in BOOLEAN /\ decision = "finish" /\ ctx' = ctx /\ store' = store
    BY <1>2 DEF Finish
  <2>. HIDE DEF ok
  <2>. QED
    BY <2>1, Hands
<1>. QED
  BY <1>1, <1>2

LEMMA EffectHands ==
  ASSUME IInv, Handed,
         \/ record_availability \/ record_rejection \/ find_slot \/ create_offer
         \/ create_insertion_offer \/ replan_day \/ create_exception
  PROVE  Handed'
<1>1. ctx \in Contexts /\ store \in Stores
  BY DEF IInv, Typed
<1>2. \A e : Did(e).messages = store.messages /\ store.effects \subseteq Did(e).effects
  BY <1>1 DEF Did, Stores
<1>3. \A to : Offered(to).messages = store.messages
             /\ store.effects \subseteq Offered(to).effects
  BY <1>1 DEF Offered, Stores
<1>4. CASE record_availability \/ record_rejection
  <2>. DEFINE c == [ctx EXCEPT !.order = "own"]
  <2>1. /\ c \in Contexts /\ c.succeeded = ctx.succeeded
        /\ c.customerMessage = ctx.customerMessage
    BY <1>1 DEF Contexts, Parties
  <2>2. \/ Succeed("record_availability", c, Did("availability"))
        \/ Fail("record_availability", Saying("reply"), store)
        \/ Succeed("record_rejection", c, Did("rejection"))
    BY <1>4 DEF record_availability, record_rejection
  <2>. HIDE DEF c
  <2>. QED
    BY <1>1, <1>2, <2>1, <2>2, SayingKeeps, PromisesNone
<1>5. CASE find_slot
  <2>1. PICK t \in Searches :
          \/ Succeed(t, Aware, Offered("own"))
          \/ \E found \in BOOLEAN : Fail(t, [ctx EXCEPT !.searched = found], store)
          \/ \E found \in {ctx.searched, FALSE} :
               Fail(t, [Saying("reply") EXCEPT !.searched = found], store)
    BY <1>5 DEF find_slot
  <2>2. t # "escalate_booking"
    BY DEF Searches
  <2>3. CASE Succeed(t, Aware, Offered("own"))
    <3>1. /\ Aware \in Contexts /\ Aware.succeeded = ctx.succeeded
          /\ Aware.customerMessage = ctx.customerMessage
      BY <1>1 DEF Aware, Contexts
    <3>. QED
      BY <1>3, <2>2, <2>3, <3>1, PromisesNone
  <2>4. ASSUME NEW found \in BOOLEAN, Fail(t, [ctx EXCEPT !.searched = found], store)
        PROVE  Handed'
    <3>. DEFINE c == [ctx EXCEPT !.searched = found]
    <3>1. /\ c \in Contexts /\ c.succeeded = ctx.succeeded
          /\ c.customerMessage = ctx.customerMessage /\ Fail(t, c, store)
      BY <1>1, <2>4 DEF Contexts
    <3>. HIDE DEF c
    <3>. QED
      BY <2>2, <3>1, PromisesNone
  <2>5. ASSUME NEW found \in {ctx.searched, FALSE},
               Fail(t, [Saying("reply") EXCEPT !.searched = found], store)
        PROVE  Handed'
    <3>. DEFINE c == [Saying("reply") EXCEPT !.searched = found]
    <3>1. found \in BOOLEAN
      BY <1>1 DEF Contexts
    <3>2. /\ c \in Contexts /\ c.succeeded = ctx.succeeded
          /\ c.customerMessage = "reply" /\ Fail(t, c, store)
      BY <1>1, <2>5, <3>1, SayingKeeps DEF Contexts
    <3>. HIDE DEF c
    <3>. QED
      BY <2>2, <3>2, PromisesNone
  <2>. QED
    BY <2>1, <2>3, <2>4, <2>5
<1>6. CASE create_offer \/ create_insertion_offer
  <2>. DEFINE c == [ctx EXCEPT !.offerMessage = TRUE]
  <2>1. PICK t \in InsertionOffers \cup {"create_offer"}, to \in {"own", ctx.order} :
          Succeed(t, c, Offered(to))
    BY <1>6 DEF create_offer, create_insertion_offer
  <2>2. /\ c \in Contexts /\ c.succeeded = ctx.succeeded
        /\ c.customerMessage = ctx.customerMessage
    BY <1>1 DEF Contexts
  <2>3. t # "escalate_booking"
    BY DEF InsertionOffers
  <2>. HIDE DEF c
  <2>. QED
    BY <1>3, <2>1, <2>2, <2>3, PromisesNone
<1>7. CASE replan_day \/ create_exception
  <2>1. \/ Succeed("replan_day", ctx, Did("replanned"))
        \/ Succeed("create_exception", ctx, Did("exception"))
    BY <1>7 DEF replan_day, create_exception
  <2>. QED
    BY <1>1, <1>2, <2>1, PromisesNone
<1>. QED
  BY <1>4, <1>5, <1>6, <1>7

LEMMA WordHands ==
  ASSUME IInv, Handed,
         \/ explain_offer \/ search_delivery_policy \/ answer_from_policy \/ read_only
         \/ evaluate_slots \/ find_insertion_options \/ find_ready_replacements
  PROVE  Handed'
<1>1. ctx \in Contexts
  BY DEF IInv, Typed
<1>2. ASSUME NEW t, t # "escalate_booking", NEW c \in Contexts, c.succeeded = ctx.succeeded,
             c.customerMessage \in {ctx.customerMessage, "reply"},
             Succeed(t, c, store) \/ Fail(t, c, store)
      PROVE  Handed'
  BY <1>2, PromisesNone
<1>3. CASE explain_offer \/ search_delivery_policy \/ answer_from_policy \/ read_only
  <2>1. PICK t \in Explanations \cup ReadOnly
                \cup {"search_delivery_policy", "answer_from_policy"} :
          Succeed(t, Saying("reply"), store) \/ Succeed(t, ctx, store)
    BY <1>3 DEF explain_offer, search_delivery_policy, answer_from_policy, read_only
  <2>2. t # "escalate_booking"
    BY DEF Explanations, ReadOnly
  <2>. QED
    BY <1>1, <1>2, <2>1, <2>2, SayingKeeps
<1>4. CASE evaluate_slots
  <2>1. PICK any \in BOOLEAN :
          Succeed("evaluate_slots", [ctx EXCEPT !.order = "own", !.evaluated = any], store)
    BY <1>4 DEF evaluate_slots
  <2>. DEFINE c == [ctx EXCEPT !.order = "own", !.evaluated = any]
  <2>2. /\ c \in Contexts /\ c.succeeded = ctx.succeeded
        /\ c.customerMessage = ctx.customerMessage /\ Succeed("evaluate_slots", c, store)
    BY <1>1, <2>1 DEF Contexts, Parties
  <2>. HIDE DEF c
  <2>. QED
    BY <1>2, <2>2
<1>5. CASE find_insertion_options
  <2>1. ASSUME NEW b \in BOOLEAN,
               \/ Succeed("find_insertion_options", [ctx EXCEPT !.searched = b], store)
               \/ Fail("find_insertion_options", [ctx EXCEPT !.searched = b], store)
        PROVE  Handed'
    BY <1>1, <1>2, <2>1 DEF Contexts
  <2>2. CASE Fail("find_insertion_options", Saying("reply"), store)
    BY <1>1, <1>2, <2>2, SayingKeeps
  <2>. QED
    BY <1>5, <2>1, <2>2 DEF find_insertion_options
<1>6. CASE find_ready_replacements
  <2>1. PICK c \in {ctx, [ctx EXCEPT !.evaluated = FALSE],
                    [ctx EXCEPT !.order = "other", !.evaluated = TRUE]} :
          Succeed("find_ready_replacements", c, store)
    BY <1>6 DEF find_ready_replacements
  <2>2. /\ c \in Contexts /\ c.succeeded = ctx.succeeded
        /\ c.customerMessage = ctx.customerMessage
    BY <1>1 DEF Contexts, Parties
  <2>. QED
    BY <1>2, <2>1, <2>2
<1>. QED
  BY <1>3, <1>4, <1>5, <1>6

LEMMA ConfirmHands ==
  ASSUME IInv, Handed, confirm_offer
  PROVE  Handed'
<1>. DEFINE w == Sent(Did("booked"), "own", "confirmation")
<1>1. pc = "act" /\ "confirm_offer" \in legal_actions
  BY DEF confirm_offer, Succeed, Fail, Call, Step
<1>2. store.messages = <<>>
  BY <1>1, Quietly
<1>3. ctx \in Contexts /\ store \in Stores
  BY DEF IInv, Typed
<1>4. /\ Did("booked") \in Stores /\ Did("booked").messages = <<>>
      /\ Did("booked").effects = store.effects \cup {"booked"}
      /\ Did("exception").messages = store.messages
      /\ Did("exception").effects = store.effects \cup {"exception"}
  BY <1>2, <1>3, StoreWrites DEF Effects
<1>5. /\ w.effects = store.effects \cup {"booked"}
      /\ w.messages = <<[to |-> "own", kind |-> "confirmation"]>>
  BY <1>4, FirstMessage DEF Kinds, Parties
<1>6. \A i \in DOMAIN w.messages : w.messages[i].kind # "handover"
  BY <1>5
<1>7. \/ Succeed("confirm_offer", ctx, w)
      \/ Fail("confirm_offer", ctx, Did("exception"))
      \/ Succeed("confirm_offer", ctx, store)
  BY DEF confirm_offer
<1>. HIDE DEF w
<1>. QED
  BY <1>3, <1>4, <1>5, <1>6, <1>7, PromisesNone

\* The words come first, the row after them.
LEMMA EscalateHands ==
  ASSUME IInv, Handed, escalate_booking
  PROVE  Handed'
<1>. DEFINE e == "escalate_booking"
            c == IF ctx.customerMessage = "none" THEN Saying("handover") ELSE ctx
<1>1. c \in Contexts /\ c.succeeded = ctx.succeeded
  BY DEF IInv, Typed, Contexts, Saying
<1>2. Succeed(e, c, Did("exception")) \/ Fail(e, c, store)
  BY DEF escalate_booking
<1>. HIDE DEF c
<1>3. decision = e /\ e \in legal_actions
  BY <1>2 DEF Succeed, Fail, Call
<1>4. CASE Succeed(e, c, Did("exception"))
  <2>1. /\ Step(TRUE) /\ store' = Did("exception")
        /\ ctx' = [c EXCEPT !.succeeded = @ \cup {e}]
    BY <1>4 DEF Succeed
  <2>2. ctx'.succeeded = ctx.succeeded \cup {decision}
    BY <1>1, <1>3, <2>1, Ticked, Registered DEF IInv, Typed
  <2>3. store'.messages = store.messages /\ store'.effects = store.effects \cup {"exception"}
    BY <2>1, StoreWrites DEF IInv, Typed, Effects
  <2>4. Known'
    BY <2>3 DEF Known
  <2>. QED
    BY <2>1, <2>2, <2>3, <2>4, Hands
<1>5. CASE Fail(e, c, store)
  <2>1. Step(FALSE) /\ store' = store /\ ctx' = c
    BY <1>5 DEF Fail
  <2>2. e \in Scope
    BY <1>3, LegalScope
  <2>3. e \in run'.failed
    BY <1>3, <2>1, <2>2, Logging DEF IInv, FailureMatters
  <2>4. Known'
    BY <2>3 DEF Known
  <2>. QED
    BY <1>1, <2>1, <2>4, Hands
<1>. QED
  BY <1>2, <1>4, <1>5

\* A support reply leaves its escalation owed.
LEMMA ClarifyHands ==
  ASSUME IInv, Handed, ask_clarification
  PROVE  Handed'
<1>. DEFINE t == "ask_clarification"
<1>1. PICK kind \in Clarification : Succeed(t, Saying(kind), store)
  BY DEF ask_clarification
<1>2. kind \in {"reply", "handover"}
      /\ (kind = "handover" => event.intent = "general_support")
  BY DEF Clarification
<1>3. /\ Step(TRUE) /\ store' = store /\ decision = t /\ t \in legal_actions
      /\ ctx' = [Saying(kind) EXCEPT !.succeeded = @ \cup {t}]
  BY <1>1 DEF Succeed, Call
<1>4. /\ Saying(kind) \in Contexts /\ Saying(kind).succeeded = ctx.succeeded
      /\ Saying(kind).customerMessage = kind
  BY <1>2, SayingKeeps DEF IInv, Typed
<1>5. ctx'.succeeded = ctx.succeeded \cup {t} /\ ctx'.customerMessage = kind
  BY <1>3, <1>4, Ticked, Registered DEF IInv, Typed
<1>6. event' = event
  BY <1>3 DEF Step
<1>7. kind = "handover" => Known' \/ Owed'
  BY <1>2, <1>3, <1>5, <1>6 DEF Known, Owed, Done, Handed
<1>. QED
  BY <1>3, <1>5, <1>7, Hands

\* What is sent as a promise has its row, or its failure on the log.
LEMMA SendHands ==
  ASSUME IInv, Handed, send_message
  PROVE  Handed'
<1>. DEFINE t == "send_message"
            w == Sent(store, ctx.order, Wording)
<1>1. /\ pc = "act" /\ t \in legal_actions /\ store' = w /\ Step(TRUE) /\ decision = t
      /\ ctx' = [ctx EXCEPT !.succeeded = @ \cup {t}]
  BY DEF send_message, Succeed, Call, Step
<1>2. t \notin Blocked /\ store.messages = <<>>
  BY <1>1, Quietly
<1>3. Prepared
  BY <1>2 DEF Blocked
<1>4. ctx.order \in Parties
  BY <1>1 DEF IInv, Typed, Course, Contexts
<1>5. /\ w.effects = store.effects
      /\ w.messages = <<[to |-> ctx.order, kind |-> Wording]>>
  BY <1>2, <1>3, <1>4, FirstMessage, WordingShape DEF IInv, Typed
<1>6. /\ ctx'.succeeded = ctx.succeeded \cup {decision}
      /\ ctx'.customerMessage = ctx.customerMessage
  BY <1>1, Ticked, Registered DEF IInv, Typed
<1>. HIDE DEF w
<1>7. ~Owed
  BY <1>1, OwedLegal DEF IInv, Typed
<1>8. Wording = "handover" => Known
  BY <1>7 DEF Wording, Handed
<1>9. Known => Known'
  <2>1. run'.failed = run.failed \ {t}
    BY <1>1, Logging DEF IInv
  <2>. QED
    BY <1>1, <1>5, <2>1 DEF Known
<1>10. \A i \in DOMAIN store'.messages :
         store'.messages[i].kind = "handover" => Known'
  BY <1>1, <1>5, <1>8, <1>9
<1>. QED
  BY <1>1, <1>5, <1>6, <1>10, Hands

LEMMA ActHands ==
  ASSUME IInv, Handed, Act
  PROVE  Handed'
BY RefusedHands, EffectHands, WordHands, ConfirmHands, EscalateHands, ClarifyHands,
   SendHands DEF Act

\* The guarantee: what a run leaves owed when it ends was either tried, cut
\* off by an exception, or put on the list by the step limit.
LEMMA ConcludeHands ==
  ASSUME IInv, Handed, Conclude
  PROVE  Handed'
<1>. DEFINE s == IF FinalStatus = "STEP_LIMIT_REACHED" THEN Did("exception") ELSE store
            Excused == run.error /\ Done("ask_clarification")
<1>1. /\ pc = "ended" /\ pc' = "done" /\ store' = Guarantee(s)
      /\ run' = [run EXCEPT !.status = FinalStatus]
      /\ UNCHANGED <<event, ctx>>
  BY DEF Conclude
<1>2. /\ run'.error = run.error /\ run'.failed = run.failed
      /\ run'.attempted = run.attempted
  BY <1>1 DEF IInv, Typed, RunLogs
<1>3. store.effects \subseteq store'.effects
  BY ConcludeIInv
<1>4. /\ s \in Stores /\ s.messages = store.messages
      /\ FinalStatus = "STEP_LIMIT_REACHED" => "exception" \in s.effects
  BY StoreWrites DEF IInv, Typed, Effects
<1>. HIDE DEF s
<1>5. s.effects \subseteq store'.effects
  BY <1>1, <1>4 DEF Guarantee, Sent, Stores
<1>6. Known => Known'
  BY <1>2, <1>3 DEF Known
<1>7. Excused' <=> Excused
  BY <1>1, <1>2 DEF Done
<1>8. Owed => Known' \/ Excused
  <2>. SUFFICES ASSUME Owed, ~run.error PROVE Known'
    BY DEF Owed
  <2>1. CASE run.completed
    BY <1>1, <1>6, <2>1 DEF Handed
  <2>2. CASE ~run.completed
    <3>1. FinalStatus = "STEP_LIMIT_REACHED"
      BY <1>1, <2>2 DEF Handed, FinalStatus
    <3>. QED
      BY <1>4, <1>5, <3>1 DEF Known
  <2>. QED
    BY <2>1, <2>2
<1>9. ASSUME NEW i \in DOMAIN store'.messages, store'.messages[i].kind = "handover"
      PROVE  Known' \/ Excused'
  <2>1. CASE store'.messages = store.messages
    BY <1>6, <1>7, <1>9, <2>1 DEF Handed
  <2>2. CASE store'.messages # store.messages
    <3>1. Unanswered
      BY <1>1, <1>4, <2>2 DEF Guarantee
    <3>2. store.messages = <<>> /\ ctx.order \in Parties
      BY <2>2, <3>1, ConcludeIInv DEF Unanswered, IInv, Typed, Contexts, Parties
    <3>3. CASE Prepared
      <4>1. store' = Sent(s, ctx.order, Wording)
        BY <1>1, <3>1, <3>3 DEF Guarantee
      <4>2. store'.messages = <<[to |-> ctx.order, kind |-> Wording]>>
        BY <1>4, <3>2, <3>3, <4>1, FirstMessage, WordingShape
      <4>3. ctx.customerMessage = "handover"
        BY <1>9, <4>2 DEF Wording
      <4>. QED
        BY <1>6, <1>7, <1>8, <4>3 DEF Handed
    <3>4. CASE ~Prepared
      <4>. DEFINE w == [s EXCEPT !.effects = @ \cup {"exception"}]
      <4>1. store' = Sent(w, ctx.order, "apology")
        BY <1>1, <3>1, <3>4 DEF Guarantee
      <4>2. w \in Stores /\ w.messages = <<>> /\ "exception" \in w.effects
        BY <1>4, <3>2 DEF Stores, Effects
      <4>. HIDE DEF w
      <4>3. store'.messages = <<[to |-> ctx.order, kind |-> "apology"]>>
        BY <3>2, <4>1, <4>2, FirstMessage DEF Kinds
      <4>. QED
        BY <1>9, <4>3
    <3>. QED
      BY <3>3, <3>4
  <2>. QED
    BY <2>1, <2>2
<1>10. Owed' <=> Owed
  BY <1>1 DEF Owed, Done
<1>11. ctx'.customerMessage = "handover" => Known' \/ Owed'
  BY <1>1, <1>6, <1>10 DEF Handed
<1>12. /\ Done("escalate_booking")' => "exception" \in store'.effects
       /\ "escalate_booking" \in run'.attempted => Known'
  BY <1>1, <1>2, <1>3, <1>6 DEF Handed, Done
<1>. QED
  BY <1>1, <1>9, <1>11, <1>12 DEF Handed

LEMMA OtherHands ==
  ASSUME IInv, Handed, Observe \/ Decide \/ Raise \/ OfferAnswered \/ UNCHANGED vars
  PROVE  Handed'
<1>1. /\ ctx'.succeeded = ctx.succeeded /\ ctx'.customerMessage = ctx.customerMessage
      /\ UNCHANGED <<event, store>>
  BY DEF Observe, Decide, Raise, OfferAnswered, vars, IInv, Typed, Contexts
<1>2. run'.attempted = run.attempted /\ run'.failed = run.failed
      /\ (run.error => run'.error)
  BY DEF Observe, Decide, Raise, OfferAnswered, vars, IInv, Typed, RunLogs
<1>3. (Known' <=> Known) /\ (Owed' <=> Owed)
      /\ (Done("escalate_booking")' <=> Done("escalate_booking"))
      /\ (Done("ask_clarification")' <=> Done("ask_clarification"))
  BY <1>1, <1>2 DEF Known, Owed, Done
<1>4. CASE Observe \/ Raise
  <2>1. pc' # "act" /\ (pc' = "ended" => run'.error)
    BY <1>4 DEF Observe, Raise, IInv, Typed, RunLogs
  <2>. QED
    BY <1>1, <1>2, <1>3, <2>1 DEF Handed
<1>5. CASE Decide
  <2>1. pc' = "act" /\ decision' \in Decisions /\ run' = run
    BY <1>5 DEF Decide
  <2>2. decision' = "finish" /\ Owed => "escalate_booking" \in run.attempted
    BY <2>1, DecidesToEscalate DEF IInv
  <2>. QED
    BY <1>1, <1>2, <1>3, <2>1, <2>2 DEF Handed
<1>6. CASE OfferAnswered \/ UNCHANGED vars
  <2>1. pc' = pc /\ decision' = decision /\ run' = run
    BY <1>6 DEF OfferAnswered, vars
  <2>. QED
    BY <1>1, <1>3, <2>1 DEF Handed
<1>. QED
  BY <1>4, <1>5, <1>6

(* A customer told that a person will call is on a coordinator's list,     *)
(* whoever decides and whatever ends the run, unless the hand-over itself  *)
(* broke: escalate_booking failed, or the run raised between the support   *)
(* reply and it.  An apology is on the list without exception.             *)
THEOREM CallsPromised == Spec => []CallPromised
<1>1. Init => Handed
  BY DEF Init, Handed, Done, Owed, Known
<1>2. ASSUME IInv, Handed, [Next]_vars PROVE Handed'
  BY <1>2, ActHands, ConcludeHands, OtherHands DEF Next, Running, Terminated
<1>3. ASSUME IInv, Handed PROVE CallPromised
  <2>1. \A i \in DOMAIN store.messages :
          store.messages[i].kind = "apology" => "exception" \in store.effects
    BY <1>3, OneMessage DEF IInv, Told
  <2>2. \A i \in DOMAIN store.messages :
          store.messages[i].kind = "handover" =>
            "exception" \in store.effects \/ HandoverBroken
    BY <1>3 DEF Handed, Known, HandoverBroken
  <2>. QED
    BY <2>1, <2>2 DEF CallPromised
<1>. QED
  BY <1>1, <1>2, <1>3, Invariance, PTL DEF Spec
=============================================================================
