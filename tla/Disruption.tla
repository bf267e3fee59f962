----------------------------- MODULE Disruption -----------------------------
(***************************************************************************)
(* What the coordinator does to a day that customers already hold: goods   *)
(* become delayed or ready again, a date is re-solved, the morning run     *)
(* sends it out, and a freed date is offered to a later customer           *)
(* (planning/recovery_service.py, plan_service.replan_day, and the         *)
(* route-plan and morning-run endpoints).  None of it is a transaction:    *)
(* every save, solve and publish is a step of its own.                     *)
(***************************************************************************)
EXTENDS BookingState

\* Start a coordinator's request on the rows it has read.  MaxVersions bounds how
\* often dates are published by bounding the requests that may do so.
Begin(r, endpoint, fields) ==
  /\ endpoint \in Endpoints
  /\ \A d \in Days : Len(history[d]) < MaxVersions
  /\ req[r].pc = "idle" /\ MayStart(fields.order)
  /\ req' = [req EXCEPT ![r] = fields]
  /\ UNCHANGED <<jobs, offers, history, reported>>

\* mark_readiness reads the order; its date is rebuilt only if it has one and
\* the readiness really changes.
StartReadiness(r, o, ready) ==
  /\ Loads(jobs[o])
  /\ Begin(r, "readiness",
       [Blank EXCEPT !.pc = "save_ready", !.order = o,
                     !.copy = [jobs[o] EXCEPT !.ready = ready],
                     !.day = IF jobs[o].ready = ready THEN NoDay ELSE jobs[o].day])

SaveReadyMutant(r) ==
  /\ req[r].pc = "save_ready"
  /\ jobs' = [jobs EXCEPT ![req[r].order] = req[r].copy]
  /\ Finished(r)
  /\ UNCHANGED <<offers, history, reported>>

\* save_job of that copy.
SaveReady(r) ==
  /\ req[r].pc = "save_ready"
  /\ jobs' = [jobs EXCEPT ![req[r].order] = req[r].copy]
  /\ IF req[r].day = NoDay THEN Finished(r)
     ELSE req' = [req EXCEPT ![r].pc = "solve"]
  /\ UNCHANGED <<offers, history, reported>>

\* The replan_day tool.
StartReplan(r, d) == Begin(r, "replan", [Blank EXCEPT !.pc = "solve", !.day = d])

\* POST /route-plan and the morning run first read the date's routable jobs, and
\* return at once when there are none.
StartStops(r, d, endpoint, target) ==
  /\ DayLoads(jobs, d)
  /\ RoutableJobs(jobs, d) # {}
  /\ Begin(r, endpoint,
       [Blank EXCEPT !.pc = "solve", !.day = d, !.target = target,
                     !.snapshot = [o \in RoutableJobs(jobs, d) |-> jobs[o]]])

SolveMutant(r) ==
  /\ req[r].pc = "solve"
  /\ req' = [req EXCEPT ![r].pc = "publish",
               ![r].route = [o \in {q \in Orders : jobs[q].day = req[r].day
                                                   /\ Locked(jobs[q])} |-> jobs[o].window]]
  /\ UNCHANGED <<jobs, offers, history, reported>>

SolveUnsentMutant(r) ==
  /\ req[r].pc = "solve"
  /\ req' = [req EXCEPT ![r].pc = "publish",
               ![r].route = [o \in {q \in RoutableJobs(jobs, req[r].day) :
                                      jobs[q].status # "dispatched"} |-> jobs[o].window]]
  /\ UNCHANGED <<jobs, offers, history, reported>>

\* solve_day; a row that does not load ends the request.
Solve(r) ==
  /\ req[r].pc = "solve"
  /\ IF DayLoads(jobs, req[r].day)
     THEN req' = [req EXCEPT ![r].pc = "publish", ![r].route = Solved(jobs, req[r].day)]
     ELSE Finished(r)
  /\ UNCHANGED <<jobs, offers, history, reported>>

\* No route keeps every promise: an exception row or an error reply.
SolveFails(r) ==
  /\ req[r].pc = "solve"
  /\ DayLoads(jobs, req[r].day)
  /\ reported' = reported \cup {req[r].day}
  /\ Finished(r)
  /\ UNCHANGED <<jobs, offers, history>>

\* publish_plan_version of the route solved a step earlier.
Publish(r) ==
  LET d == req[r].day IN
  /\ req[r].pc = "publish"
  /\ \E h \in Published(history[d], req[r].route) :
       history' = [history EXCEPT ![d] = h]
  /\ IF req[r].target = "confirmed" \/ DOMAIN req[r].route = {} THEN Finished(r)
     ELSE req' = [req EXCEPT ![r].pc = "advance", ![r].stops = DOMAIN req[r].route]
  /\ UNCHANGED <<jobs, offers, reported>>

AdvancedFrom(target) == IF target = "sequenced" THEN {"confirmed"}
                        ELSE {"confirmed", "sequenced"}

AdvanceMutant(r) ==
  /\ req[r].pc = "advance"
  /\ \E o \in req[r].stops :
       /\ jobs' = [jobs EXCEPT ![o].status = req[r].target]
       /\ IF req[r].stops = {o} THEN Finished(r)
          ELSE req' = [req EXCEPT ![r].stops = @ \ {o}]
  /\ UNCHANGED <<offers, history, reported>>

\* One stop of the published route: the row read at the start is saved back with
\* its new status.  A stop that was not in that read ends route-plan with a
\* KeyError; the morning run passes it over.
Advance(r) ==
  /\ req[r].pc = "advance"
  /\ \E o \in req[r].stops :
       LET row == req[r].snapshot
           due == o \in DOMAIN row /\ row[o].status \in AdvancedFrom(req[r].target)
       IN /\ jobs' = IF due THEN [jobs EXCEPT ![o] = [row[o] EXCEPT !.status = req[r].target]]
                     ELSE jobs
          /\ IF req[r].stops = {o} \/ (o \notin DOMAIN row /\ req[r].target = "sequenced")
             THEN Finished(r)
             ELSE req' = [req EXCEPT ![r].stops = @ \ {o}]
  /\ UNCHANGED <<offers, history, reported>>

\* offer_freed_slot: a ready customer with a later appointment is asked to come
\* forward to d.  A window not on file for d is saved on the order first.
StartRecovery(r, o, d) ==
  /\ Loads(jobs[o])
  /\ jobs[o].ready /\ jobs[o].day # NoDay /\ jobs[o].day > d
  /\ \E pc \in {"save_option", "search"} :
       Begin(r, "recovery", [Blank EXCEPT !.pc = pc, !.order = o, !.copy = jobs[o],
                                          !.purpose = "recovery", !.day = d])

SaveOption(r) ==
  /\ req[r].pc = "save_option"
  /\ jobs' = [jobs EXCEPT ![req[r].order] = req[r].copy]
  /\ req' = [req EXCEPT ![r].pc = "search"]
  /\ UNCHANGED <<offers, history, reported>>

DisruptionStep(r) == \/ SaveReady(r) \/ Solve(r) \/ SolveFails(r) \/ Publish(r)
                     \/ Advance(r) \/ SaveOption(r)

Disrupt == \E r \in Requests :
  \/ \E o \in Orders, ready \in BOOLEAN : StartReadiness(r, o, ready)
  \/ \E d \in Days : StartReplan(r, d)
  \/ \E d \in Days : StartStops(r, d, "route_plan", "sequenced")
  \/ \E d \in Days : StartStops(r, d, "morning_run", "dispatched")
  \/ \E o \in Orders, d \in Days : StartRecovery(r, o, d)
  \/ DisruptionStep(r)
=============================================================================
