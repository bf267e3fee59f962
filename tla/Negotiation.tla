----------------------------- MODULE Negotiation -----------------------------
(***************************************************************************)
(* Offering times to a customer and taking their answer                    *)
(* (planning/offer_service.py, planning/workflows.py and the endpoints and *)
(* chat events that reach them).  Making an offer and rejecting one are    *)
(* runs of single commits; accepting one is a single BEGIN IMMEDIATE       *)
(* transaction, which commits whole or leaves no trace.                    *)
(***************************************************************************)
EXTENDS BookingState

MayAsk(o) == BookedWrite \/ jobs[o].status \notin LockedStatuses

Arrive(r, o, purpose) ==
  /\ req[r].pc = "idle" /\ MayStart(o) /\ MayAsk(o)
  /\ Loads(jobs[o])
  /\ req' = [req EXCEPT ![r] = [Blank EXCEPT !.pc = "load", !.order = o,
                                             !.purpose = purpose]]
  /\ UNCHANGED <<jobs, offers, history, reported>>

\* POST /orders/{id}/plan-agentic (and /plan-options, which evaluates first): not
\* while an offer is open.
StartPlan(r, o) ==
  /\ "plan" \in Endpoints
  /\ OpenOffers(o) = {}
  /\ Arrive(r, o, "booking")

\* A chat message asking for a delivery: planned whatever is open.
StartMessage(r, o) ==
  /\ "message" \in Endpoints
  /\ Arrive(r, o, "booking")

\* A chat message that names times: record_availability reads the order ...
StartTimes(r, o) ==
  /\ "message" \in Endpoints
  /\ req[r].pc = "idle" /\ MayStart(o) /\ MayAsk(o)
  /\ Loads(jobs[o])
  /\ req' = [req EXCEPT ![r] = [Blank EXCEPT !.pc = "save_times", !.order = o,
                                             !.copy = jobs[o]]]
  /\ UNCHANGED <<jobs, offers, history, reported>>

\* ... and writes the whole row back with the times in it.
SaveTimes(r) ==
  /\ req[r].pc = "save_times"
  /\ jobs' = [jobs EXCEPT ![req[r].order] = req[r].copy]
  /\ req' = [req EXCEPT ![r].pc = "load"]
  /\ UNCHANGED <<offers, history, reported>>

\* The planning tool reads the order; SaveOffered writes this copy back.
LoadOrder(r) ==
  /\ req[r].pc = "load"
  /\ IF Loads(jobs[req[r].order])
     THEN req' = [req EXCEPT ![r].pc = "search", ![r].copy = jobs[req[r].order]]
     ELSE Finished(r)
  /\ UNCHANGED <<jobs, offers, history, reported>>

\* insertion.search: windows next to a stop of a published route, each with the
\* version it was tested against.  A route with an unreadable stop yields none;
\* any window may have been excluded by what the customer said.
Insertions ==
  {s \in OfferedSlot : /\ s.source = Len(history[s.day])
                       /\ DOMAIN Active(s.day) # {}
                       /\ \A q \in DOMAIN Active(s.day) : Loads(jobs[q])}

\* evaluate_all: windows of re-solved days, none of them already put to the
\* customer in a round of the same purpose.
Evaluated(o, purpose) ==
  {s \in OfferedSlot : /\ s.source = 0 /\ DayLoads(jobs, s.day)
                       /\ \A f \in Rounds(o, purpose) : s \notin offers[f].slots}

\* What a search may come back with: one proven insertion or the best two of the
\* re-solved days; exactly the required alternatives; the freed date.
Choices(r) ==
  LET o == req[r].order IN
  CASE req[r].purpose = "booking" ->
         {{s} : s \in Insertions} \cup {{s, t} : s, t \in Evaluated(o, "booking")}
    [] req[r].purpose = "alternative" -> {S \in SUBSET Insertions : Cardinality(S) = Alternatives}
    [] req[r].purpose = "recovery" ->
         {{s} : s \in {e \in Evaluated(o, "recovery") : e.day = req[r].day}}

\* Search the routes and count the earlier rounds.
Search(r) ==
  /\ req[r].pc = "search"
  /\ Cardinality(Rounds(req[r].order, req[r].purpose)) < Cap(req[r].purpose)
  /\ Len(offers) < MaxOffers
  /\ \E slots \in Choices(r) :
       req' = [req EXCEPT ![r].pc = "save_offer", ![r].slots = slots]
  /\ UNCHANGED <<jobs, offers, history, reported>>

\* Nothing can be served, or the round cap is reached: a coordinator will call.
Escalate(r) ==
  /\ req[r].pc = "search"
  /\ Finished(r)
  /\ UNCHANGED <<jobs, offers, history, reported>>

SaveOfferMutant(r) ==
  /\ req[r].pc = "save_offer"
  /\ offers' = Append(offers, [order |-> req[r].order, purpose |-> req[r].purpose,
                               slots |-> req[r].slots, column |-> "sent",
                               data |-> "sent", accepted |-> NoSlot])
  /\ req' = [req EXCEPT ![r].pc = "save_offered"]
  /\ UNCHANGED <<jobs, history, reported>>

\* save_offer.  A recovery offer leaves the customer's booking alone.
SaveOffer(r) ==
  /\ req[r].pc = "save_offer"
  /\ offers' = Append(offers, [order |-> req[r].order, purpose |-> req[r].purpose,
                               slots |-> req[r].slots, column |-> "sent",
                               data |-> "sent", accepted |-> NoSlot])
  /\ IF req[r].purpose = "recovery" THEN Finished(r)
     ELSE req' = [req EXCEPT ![r].pc = "save_offered"]
  /\ UNCHANGED <<jobs, history, reported>>

SaveOfferedMutant(r) ==
  /\ req[r].pc = "save_offered"
  /\ jobs' = [jobs EXCEPT ![req[r].order] = [req[r].copy EXCEPT !.status = "new"]]
  /\ Finished(r)
  /\ UNCHANGED <<offers, history, reported>>

\* save_job of the copy read before the search, now OFFERED.
SaveOffered(r) ==
  /\ req[r].pc = "save_offered"
  /\ jobs' = [jobs EXCEPT ![req[r].order] = [req[r].copy EXCEPT !.status = "offered"]]
  /\ Finished(r)
  /\ UNCHANGED <<offers, history, reported>>

-----------------------------------------------------------------------------
\* Accepting.

\* The insertion was tested against the version that is still active.
FreshMutant(s) == s.source <= Len(history[s.day])
Fresh(s) == s.source # 0 => s.source = Len(history[s.day])

BookedMutant(o, s) == [jobs EXCEPT ![o].day = s.day, ![o].window = s.window]

\* The jobs table once the order holds the slot.
Booked(o, s) == [jobs EXCEPT ![o].day = s.day, ![o].window = s.window,
                             ![o].status = "confirmed"]

\* insertion.build_tested_sequence: the stops of the tested route stay, whatever
\* has become of their orders, and a locked stop is reached inside its lock.
Extended(table, o, d) ==
  [x \in DOMAIN Active(d) \cup {o} |->
     IF table[x].window # NoWindow THEN table[x].window ELSE Active(d)[x]]

\* The accepted date can be rebuilt: the order is not on the tested route
\* already, and every row that is read loads.
Rebuilds(table, o, s) ==
  IF s.source # 0
  THEN o \notin DOMAIN Active(s.day) /\ \A q \in DOMAIN Active(s.day) : Loads(table[q])
  ELSE DayLoads(table, s.day)

TargetMutant(table, o, s) ==
  IF s.source # 0 THEN Extended(table, o, s.day) ELSE Solved(jobs, s.day)

\* The route the accepted date gets: the tested one, or a re-solve.
Target(table, o, s) ==
  IF s.source # 0 THEN Extended(table, o, s.day) ELSE Solved(table, s.day)

\* The date the customer leaves, if they held another one, is republished too;
\* when that fails the move stands and a coordinator is told.
Republish(table, h, left, d) ==
  \/ /\ left \in {NoDay, d}
     /\ history' = [history EXCEPT ![d] = h]
     /\ UNCHANGED reported
  \/ /\ left \notin {NoDay, d}
     /\ DayLoads(table, left)
     /\ \E g \in Published(history[left], Solved(table, left)) :
          /\ Len(g) <= MaxVersions
          /\ history' = [history EXCEPT ![d] = h, ![left] = g]
     /\ UNCHANGED reported
  \/ /\ left \notin {NoDay, d}
     /\ DayLoads(table, left)
     /\ history' = [history EXCEPT ![d] = h]
     /\ reported' = reported \cup {left}

AnsweredMutant(f, s) == [offers EXCEPT ![f].column = "accepted", ![f].data = "accepted",
                                       ![f].accepted = s]

\* The offer holds the answer, every other open offer of the order is closed.
Answered(f, s) ==
  [g \in DOMAIN offers |->
     IF g = f THEN [offers[g] EXCEPT !.column = "accepted", !.data = "accepted",
                                     !.accepted = s]
     ELSE IF offers[g].order = offers[f].order /\ Open(g)
     THEN [offers[g] EXCEPT !.column = "closed", !.data = "closed"]
     ELSE offers[g]]

\* _accept_offer gets as far as building routes.
Acceptable(f, s) ==
  /\ "accept" \in Endpoints
  /\ MayStart(offers[f].order)
  /\ s \in offers[f].slots
  /\ Open(f)
  /\ Fresh(s)
  /\ offers[f].column = "sent"
  /\ Loads(jobs[offers[f].order])

\* accept_offer, whole.  An answer that replays, comes late, finds the route
\* changed or leads to no feasible route is rolled back and is not a step here.
AcceptOffer(f, s) ==
  LET o == offers[f].order
      table == Booked(o, s)
  IN /\ Acceptable(f, s)
     /\ Rebuilds(table, o, s)
     /\ \E h \in Published(history[s.day], Target(table, o, s)) :
          /\ Len(h) <= MaxVersions
          /\ Republish(table, h, jobs[o].day, s.day)
     /\ jobs' = table
     /\ offers' = Answered(f, s)
     /\ UNCHANGED req

-----------------------------------------------------------------------------
\* Rejecting: reject_offer, then the agent looks for another time in the same run.

\* next: what the run goes on to offer, alternatives (chat) or a re-solve.
StartReject(r, f, next) ==
  LET o == offers[f].order IN
  /\ "reject" \in Endpoints
  /\ req[r].pc = "idle" /\ MayStart(o) /\ MayAsk(o)
  /\ req' = [req EXCEPT ![r] = [Blank EXCEPT !.pc = "claim", !.order = o, !.offer = f,
                                             !.purpose = next]]
  /\ UNCHANGED <<jobs, offers, history, reported>>

ClaimMutant(r) ==
  LET f == req[r].offer IN
  /\ req[r].pc = "claim"
  /\ offers' = [offers EXCEPT ![f].column = "rejected"]
  /\ req' = [req EXCEPT ![r].pc = "save_rejection"]
  /\ UNCHANGED <<jobs, history, reported>>

\* claim_offer_response: a conditional UPDATE of the column.  When it loses, the
\* tool still reports success and the run goes on to its search.
Claim(r) ==
  LET f == req[r].offer IN
  /\ req[r].pc = "claim"
  /\ \/ /\ offers[f].column = "sent"
        /\ offers' = [offers EXCEPT ![f].column = "rejected"]
        /\ req' = [req EXCEPT ![r].pc = "save_rejection"]
     \/ /\ offers[f].column # "sent"
        /\ req' = [req EXCEPT ![r].pc = "load"]
        /\ UNCHANGED offers
  /\ UNCHANGED <<jobs, history, reported>>

SaveRejectionMutant(r) ==
  /\ req[r].pc = "save_rejection"
  /\ req' = [req EXCEPT ![r].pc = "load_rejected"]
  /\ UNCHANGED <<jobs, offers, history, reported>>

\* save_offer of the copy read before the claim, now REJECTED.
SaveRejection(r) ==
  LET f == req[r].offer IN
  /\ req[r].pc = "save_rejection"
  /\ offers' = [offers EXCEPT ![f].column = "rejected", ![f].data = "rejected"]
  /\ req' = [req EXCEPT ![r].pc = "load_rejected"]
  /\ UNCHANGED <<jobs, history, reported>>

LoadRejected(r) ==
  /\ req[r].pc = "load_rejected"
  /\ IF Loads(jobs[req[r].order])
     THEN req' = [req EXCEPT ![r].pc = "save_rejected", ![r].copy = jobs[req[r].order]]
     ELSE Finished(r)
  /\ UNCHANGED <<jobs, offers, history, reported>>

\* Back to PENDING_PLANNING; the date and the lock, if any, are left as they are.
SaveRejected(r) ==
  /\ req[r].pc = "save_rejected"
  /\ jobs' = [jobs EXCEPT ![req[r].order] =
                [req[r].copy EXCEPT !.status = "pending_planning"]]
  /\ req' = [req EXCEPT ![r].pc = "load"]
  /\ UNCHANGED <<offers, history, reported>>

NegotiationStep(r) == \/ SaveTimes(r) \/ LoadOrder(r) \/ Search(r) \/ Escalate(r)
                      \/ SaveOffer(r) \/ SaveOffered(r)
                      \/ Claim(r) \/ SaveRejection(r) \/ LoadRejected(r)
                      \/ SaveRejected(r)

Negotiate == \/ \E r \in Requests : \/ \E o \in Orders : StartPlan(r, o) \/ StartMessage(r, o) \/ StartTimes(r, o)
                                    \/ \E f \in DOMAIN offers :
                                         \E next \in {"booking", "alternative"} :
                                           StartReject(r, f, next)
                                    \/ NegotiationStep(r)
             \/ \E f \in DOMAIN offers : \E s \in offers[f].slots :
                  AcceptOffer(f, s)
=============================================================================
