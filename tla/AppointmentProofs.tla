-------------------------- MODULE AppointmentProofs --------------------------
(***************************************************************************)
(* What Coordinator promises about appointments and routes, and in which   *)
(* environment.  The code locks neither orders nor dates, so these results *)
(* name what they need of the requests around them: one request per order  *)
(* for the rows, no request beside the coordinator's for the routes.  The  *)
(* runs recovery_rejected, stale_replan and delayed_while_offered show     *)
(* what happens without.                                                   *)
(***************************************************************************)
EXTENDS CoordinatorProofs

CustomerEndpoints == {"plan", "message", "accept", "reject"}

\* One request per order, and none in which a customer who holds an appointment
\* asks for another.
OnePerOrder == Concurrency \in {"none", "orders"} /\ ~BookedWrite

\* What the coordinator does is not overlapped by anything.
OneCoordinator ==
  OnePerOrder /\ (Concurrency = "none" \/ Endpoints \subseteq CustomerEndpoints)

\* Goods are delayed only where no customer is put on a tested route, and the
\* server does not die under a coordinator.
NothingLost ==
  /\ OneCoordinator
  /\ "readiness" \notin Endpoints \/ Endpoints \cap {"plan", "message", "reject"} = {}
  /\ ~Crashes \/ Endpoints \subseteq CustomerEndpoints

\* Only the customers use the system.
CustomersOnly == OnePerOrder /\ Endpoints \subseteq CustomerEndpoints

-----------------------------------------------------------------------------
\* Rows, under one request per order.

\* A row without an appointment, and one with.
Free(job)  == Loads(job) /\ job.status \notin LockedStatuses /\ job.day = NoDay
Bound(job) == Loads(job) /\ job.status \in LockedStatuses

\* The request negotiates for a customer without an appointment.
Asking(q) == q.pc \in AskingPlaces /\ q.purpose # "recovery"

\* What a request knows of the rows it will save: each of its copies is as free or
\* as bound as the row it was read from.
Careful(q) ==
  /\ q.pc \in AskingPlaces \ {"search", "save_offer"} => q.purpose # "recovery"
  /\ Asking(q) => Free(jobs[q.order])
  /\ Asking(q) /\ q.pc \in CopyPlaces => Free(q.copy)
  /\ q.pc \in {"save_ready", "save_option"} =>
       \/ Free(jobs[q.order]) /\ Free(q.copy)
       \/ Bound(jobs[q.order]) /\ Bound(q.copy)
  /\ q.pc = "save_option" => q.purpose = "recovery"
  /\ q.pc = "save_ready" => q.snapshot = Nobody
  /\ q.pc \in DayPlaces =>
       \A o \in DOMAIN q.snapshot : Bound(jobs[o]) /\ Bound(q.snapshot[o])

Lone == \A r, q \in Requests :
  req[r].pc # "idle" /\ req[q].pc # "idle" /\ req[r].order = req[q].order => r = q

RowInv ==
  /\ \A o \in Orders : Free(jobs[o]) \/ Bound(jobs[o])
  /\ Lone
  /\ \A r \in Requests : Careful(req[r])
  /\ BookedNotAsked

-----------------------------------------------------------------------------
\* Routes, with one coordinator.

Coordinating(q) ==
  /\ q.pc # "idle"
  /\ q.pc \in DayPlaces \cup {"save_ready", "save_option"} \/ q.purpose = "recovery"

\* The coordinator's requests run alone.
Alone ==
  /\ Concurrency = "none" =>
       \A r, q \in Requests : req[r].pc # "idle" /\ req[q].pc # "idle" => r = q
  /\ \A r \in Requests : Coordinating(req[r]) =>
       Concurrency = "none" /\ ~(Endpoints \subseteq CustomerEndpoints)

\* What a coordinator's request has read is what the rows still hold.
Current(q) ==
  /\ q.pc = "save_ready" =>
       /\ q.copy = [jobs[q.order] EXCEPT !.ready = q.copy.ready]
       /\ q.day = NoDay => q.copy = jobs[q.order] \/ jobs[q.order].day = NoDay
       /\ q.day # NoDay => q.day = jobs[q.order].day
  /\ q.pc = "save_option" => q.copy = jobs[q.order]
  /\ q.pc = "publish" => q.route = Solved(jobs, q.day)
  /\ q.pc \in {"solve", "publish"} => \A o \in DOMAIN q.snapshot : jobs[o] = q.snapshot[o]
  /\ q.pc = "advance" => \A o \in q.stops \cap DOMAIN q.snapshot : jobs[o] = q.snapshot[o]

RouteInv == Alone /\ \A r \in Requests : Current(req[r])

\* Every order is ready, in the rows and in every copy of them.
Ready(q) ==
  /\ q.pc \in CopyPlaces => q.copy.ready
  /\ \A o \in DOMAIN q.snapshot : q.snapshot[o].ready
AllReady == (\A o \in Orders : jobs[o].ready) /\ \A r \in Requests : Ready(req[r])

\* No offer needs a tested route: nobody asks for one.
Untested(q) == ~Asking(q) /\ \A s \in q.slots : s.source = 0
AllUntested ==
  /\ \A f \in DOMAIN offers : \A s \in offers[f].slots : s.source = 0
  /\ \A r \in Requests : Untested(req[r])

ReadyOrSolved ==
  /\ "readiness" \notin Endpoints => AllReady
  /\ Endpoints \cap {"plan", "message", "reject"} = {} => AllUntested

MatchInv == ReadyOrSolved /\ RoutesMatchPromises

\* Nobody moves from one appointment to another.
StayInv ==
  /\ reported = {}
  /\ \A f \in DOMAIN offers : offers[f].purpose # "recovery"
  /\ \A r \in Requests : req[r].purpose # "recovery"

-----------------------------------------------------------------------------
\* Free and bound rows.

LEMMA FreeOrBound ==
  ASSUME NEW c \in Job
  PROVE  /\ ~(Free(c) /\ Bound(c))
         /\ Free(c) => c.window = NoWindow /\ c.day = NoDay
         /\ Bound(c) => c.window \in Windows /\ c.day \in Days /\ Locked(c)
         /\ Free(c) => ~Locked(c)
  BY DEF Free, Bound, Loads, Locked, Job, LockedStatuses

\* What a handler changes in a copy leaves it free or bound.
LEMMA CopyEdited ==
  ASSUME NEW c \in Job
  PROVE  /\ Free(c) => /\ Free([c EXCEPT !.status = "offered"])
                       /\ Free([c EXCEPT !.status = "pending_planning"])
         /\ \A b \in BOOLEAN : /\ Free(c) => Free([c EXCEPT !.ready = b])
                               /\ Bound(c) => Bound([c EXCEPT !.ready = b])
         /\ \A t \in LockedStatuses : Bound(c) => Bound([c EXCEPT !.status = t])
<1>. USE DEF Job, LockedStatuses
<1>1. ASSUME Free(c) PROVE Free([c EXCEPT !.status = "offered"])
  BY <1>1 DEF Free, Loads
<1>2. ASSUME Free(c) PROVE Free([c EXCEPT !.status = "pending_planning"])
  BY <1>2 DEF Free, Loads
<1>3. ASSUME NEW b \in BOOLEAN, Free(c) PROVE Free([c EXCEPT !.ready = b])
  BY <1>3 DEF Free, Loads
<1>4. ASSUME NEW b \in BOOLEAN, Bound(c) PROVE Bound([c EXCEPT !.ready = b])
  BY <1>4 DEF Bound, Loads
<1>5. ASSUME NEW t \in LockedStatuses, Bound(c) PROVE Bound([c EXCEPT !.status = t])
  BY <1>5 DEF Bound, Loads
<1>. QED
  BY <1>1, <1>2, <1>3, <1>4, <1>5

\* No row passes from free to bound or back.
SameRows ==
  \A o \in Orders : /\ Free(jobs[o]) => Free(jobs'[o])
                    /\ Bound(jobs[o]) => Bound(jobs'[o])

\* Any new offer is an earlier slot for a booked customer or goes to a free one.
NothingAsked ==
  \A f \in DOMAIN offers' :
    \/ /\ f \in DOMAIN offers
       /\ offers'[f].order = offers[f].order /\ offers'[f].purpose = offers[f].purpose
       /\ offers'[f].data = "sent" => offers[f].data = "sent"
    \/ offers'[f].purpose = "recovery"
    \/ offers'[f].order \in Orders /\ Free(jobs'[offers'[f].order])

LEMMA StillNotAsked ==
  ASSUME Typed, Typed', RowInv, SameRows, NothingAsked
  PROVE  BookedNotAsked' /\ (\A o \in Orders : Free(jobs[o]) \/ Bound(jobs[o]))'
<1>1. \A o \in Orders : Free(jobs'[o]) \/ Bound(jobs'[o])
  BY DEF RowInv, SameRows
<1>2. ASSUME NEW o \in Orders, jobs'[o].status \in LockedStatuses,
             NEW f \in DOMAIN offers', offers'[f].order = o, offers'[f].data = "sent"
      PROVE  offers'[f].purpose = "recovery"
  <2>1. ~Free(jobs'[o]) /\ Bound(jobs[o])
    BY <1>2 DEF RowInv, SameRows, Free
  <2>2. jobs[o].status \in LockedStatuses
    BY <2>1 DEF Bound
  <2>. QED
    BY <1>2, <2>1, <2>2 DEF NothingAsked, RowInv, BookedNotAsked, OpenOffers, OffersOf, Open
<1>. QED
  BY <1>1, <1>2 DEF BookedNotAsked, OpenOffers, OffersOf, Open

\* What another request knows survives.
LEMMA OthersCareful ==
  ASSUME Typed, RowInv, NEW q \in Requests, req'[q] = req[q],
         \A o \in Orders : /\ Free(jobs[o]) /\ (Asking(req[q]) \/ req[q].pc \in CopyPlaces)
                                /\ req[q].order = o => Free(jobs'[o])
                           /\ Bound(jobs[o]) => Bound(jobs'[o])
  PROVE  Careful(req[q])'
<1>1. req[q] \in Request /\ Placed(req[q]) /\ Careful(req[q])
  BY DEF Typed, RowInv
<1>2. req[q].snapshot \in Rows
  BY <1>1 DEF Request
<1>3. DOMAIN req[q].snapshot \subseteq Orders
  BY <1>2 DEF Rows
<1>. QED
  BY <1>1, <1>3 DEF Careful, Asking, Placed, CopyPlaces

LEMMA RowStart ==
  ASSUME OnePerOrder, Typed, Typed', RowInv, NEW r \in Requests, NEW n,
         req[r].pc = "idle", MayStart(n.order), Careful(n),
         req' = [req EXCEPT ![r] = n], UNCHANGED <<jobs, offers>>
  PROVE  RowInv'
<1>1. SameRows /\ NothingAsked
  BY DEF SameRows, NothingAsked
<1>2. \A q \in Requests \ {r} : req'[q] = req[q]
  BY DEF Typed
<1>3. req'[r] = n
  BY DEF Typed
<1>4. \A q \in Requests : Careful(req[q])'
  <2>1. Careful(req[r])'
    BY <1>3 DEF Careful, Asking
  <2>2. \A q \in Requests \ {r} : Careful(req[q])'
    BY <1>2, OthersCareful
  <2>. QED
    BY <2>1, <2>2
<1>5. Lone'
  <2>1. \A q \in Requests : req[q].pc # "idle" => req[q].order # n.order
    BY DEF OnePerOrder, MayStart, InFlight
  <2>. QED
    BY <1>2, <1>3, <2>1 DEF Lone, RowInv
<1>. QED
  BY <1>1, <1>4, <1>5, StillNotAsked DEF RowInv

LEMMA RowMove ==
  ASSUME Typed, Typed', RowInv, NEW r \in Requests, req[r].pc # "idle",
         \A q \in Requests \ {r} : req'[q] = req[q],
         req'[r].pc = "idle" \/ req'[r].order = req[r].order,
         Careful(req[r])', SameRows, NothingAsked
  PROVE  RowInv'
<1>1. \A q \in Requests \ {r} : Careful(req[q])'
  BY OthersCareful DEF SameRows
<1>2. \A q \in Requests : Careful(req[q])'
  BY <1>1
<1>3. Lone'
  BY DEF Lone, RowInv
<1>. QED
  BY <1>2, <1>3, StillNotAsked DEF RowInv

LEMMA BlankCareful ==
  /\ Careful(Blank)
  /\ \A r \in Requests : req'[r] = Blank => Careful(req[r])'
  BY DEF Careful, Asking, Blank, AskingPlaces, CopyPlaces, DayPlaces

-----------------------------------------------------------------------------
\* Rows: the steps.

LEMMA AskRows ==
  ASSUME OnePerOrder, Typed, Typed', RowInv, NEW r \in Requests,
         \/ \E o \in Orders : StartPlan(r, o) \/ StartMessage(r, o) \/ StartTimes(r, o)
         \/ \E f \in DOMAIN offers, next \in {"booking", "alternative"} : StartReject(r, f, next)
  PROVE  RowInv'
<1>. USE DEF AskingPlaces, CopyPlaces, DayPlaces
<1>0. \A o \in Orders : MayAsk(o) => Free(jobs[o])
  BY DEF OnePerOrder, MayAsk, RowInv, Bound
<1>1. ASSUME NEW o \in Orders, StartPlan(r, o) \/ StartMessage(r, o) PROVE RowInv'
  <2>. DEFINE n == [Blank EXCEPT !.pc = "load", !.order = o, !.purpose = "booking"]
  <2>1. /\ n.order = o /\ req[r].pc = "idle" /\ MayStart(o) /\ MayAsk(o)
        /\ req' = [req EXCEPT ![r] = n] /\ UNCHANGED <<jobs, offers>>
    BY <1>1 DEF StartPlan, StartMessage, Arrive, Blank
  <2>2. Careful(n)
    BY <1>0, <2>1 DEF Careful, Asking, Blank
  <2>. HIDE DEF n
  <2>. QED
    BY <2>1, <2>2, RowStart
<1>2. ASSUME NEW o \in Orders, StartTimes(r, o) PROVE RowInv'
  <2>. DEFINE n == [Blank EXCEPT !.pc = "save_times", !.order = o, !.copy = jobs[o]]
  <2>1. /\ n.order = o /\ req[r].pc = "idle" /\ MayStart(o) /\ MayAsk(o)
        /\ req' = [req EXCEPT ![r] = n] /\ UNCHANGED <<jobs, offers>>
    BY <1>2 DEF StartTimes, Blank
  <2>2. Careful(n)
    BY <1>0, <2>1 DEF Careful, Asking, Blank
  <2>. HIDE DEF n
  <2>. QED
    BY <2>1, <2>2, RowStart
<1>3. ASSUME NEW f \in DOMAIN offers, NEW next \in {"booking", "alternative"},
             StartReject(r, f, next)
      PROVE  RowInv'
  <2>. DEFINE n == [Blank EXCEPT !.pc = "claim", !.order = offers[f].order, !.offer = f,
                                 !.purpose = next]
  <2>1. /\ n.order = offers[f].order /\ req[r].pc = "idle"
        /\ MayStart(offers[f].order) /\ MayAsk(offers[f].order)
        /\ req' = [req EXCEPT ![r] = n] /\ UNCHANGED <<jobs, offers>>
    BY <1>3 DEF StartReject, Blank
  <2>2. offers[f].order \in Orders
    BY OfferFields
  <2>3. Careful(n)
    BY <1>0, <2>1, <2>2 DEF Careful, Asking, Blank
  <2>. HIDE DEF n
  <2>. QED
    BY <2>1, <2>3, RowStart
<1>. QED
  BY <1>1, <1>2, <1>3

LEMMA CoordinatorRows ==
  ASSUME OnePerOrder, Typed, Typed', RowInv, NEW r \in Requests,
         \/ \E o \in Orders, ready \in BOOLEAN : StartReadiness(r, o, ready)
         \/ \E d \in Days : StartReplan(r, d)
         \/ \E d \in Days : StartStops(r, d, "route_plan", "sequenced")
         \/ \E d \in Days : StartStops(r, d, "morning_run", "dispatched")
         \/ \E o \in Orders, d \in Days : StartRecovery(r, o, d)
  PROVE  RowInv'
<1>. USE DEF AskingPlaces, CopyPlaces, DayPlaces
<1>0. ASSUME NEW endpoint, NEW n, Begin(r, endpoint, n), Careful(n) PROVE RowInv'
  BY <1>0, RowStart DEF Begin
<1>1. ASSUME NEW o \in Orders, NEW ready \in BOOLEAN, StartReadiness(r, o, ready)
      PROVE  RowInv'
  <2>. DEFINE c == [jobs[o] EXCEPT !.ready = ready]
              day == IF jobs[o].ready = ready THEN NoDay ELSE jobs[o].day
              n == [Blank EXCEPT !.pc = "save_ready", !.order = o, !.copy = c, !.day = day]
  <2>1. jobs[o] \in Job
    BY DEF Typed
  <2>2. \/ Free(jobs[o]) /\ Free(c)
        \/ Bound(jobs[o]) /\ Bound(c)
    <3>1. \A b \in BOOLEAN :
            /\ Free(jobs[o]) => Free([jobs[o] EXCEPT !.ready = b])
            /\ Bound(jobs[o]) => Bound([jobs[o] EXCEPT !.ready = b])
      BY <2>1, CopyEdited, Zenon
    <3>2. (Free(jobs[o]) => Free(c)) /\ (Bound(jobs[o]) => Bound(c))
      BY <3>1, Zenon
    <3>3. Free(jobs[o]) \/ Bound(jobs[o])
      BY DEF RowInv
    <3>. QED
      BY <3>2, <3>3, Zenon
  <2>3. Begin(r, "readiness", n)
    BY <1>1 DEF StartReadiness
  <2>4. n.pc = "save_ready" /\ n.order = o /\ n.copy = c /\ n.snapshot = Nobody
        /\ n.purpose = "booking"
    BY DEF Blank
  <2>. HIDE DEF n, c, day
  <2>5. Careful(n)
    BY <2>2, <2>4 DEF Careful, Asking
  <2>. QED
    BY <1>0, <2>3, <2>5
<1>2. ASSUME NEW d \in Days, StartReplan(r, d) PROVE RowInv'
  <2>. DEFINE n == [Blank EXCEPT !.pc = "solve", !.day = d]
  <2>1. Careful(n)
    BY DEF Careful, Asking, Blank, Nobody
  <2>. QED
    BY <1>0, <1>2, <2>1 DEF StartReplan
<1>3. ASSUME NEW d \in Days, NEW endpoint, NEW target, StartStops(r, d, endpoint, target)
      PROVE  RowInv'
  <2>. DEFINE rows == [o \in RoutableJobs(jobs, d) |-> jobs[o]]
              n == [Blank EXCEPT !.pc = "solve", !.day = d, !.target = target,
                                 !.snapshot = rows]
  <2>1. Begin(r, endpoint, n) /\ DayLoads(jobs, d)
    BY <1>3 DEF StartStops
  <2>2. \A o \in DOMAIN rows : rows[o] = jobs[o] /\ Bound(jobs[o])
    BY <2>1 DEF RoutableJobs, DayLoads, Bound, RoutableStatuses, LockedStatuses
  <2>. HIDE DEF rows
  <2>3. n.pc = "solve" /\ n.snapshot = rows
    BY DEF Blank
  <2>. HIDE DEF n
  <2>4. Careful(n)
    BY <2>2, <2>3 DEF Careful, Asking
  <2>. QED
    BY <1>0, <2>1, <2>4
<1>4. ASSUME NEW o \in Orders, NEW d \in Days, StartRecovery(r, o, d) PROVE RowInv'
  <2>1. PICK p \in {"save_option", "search"} :
          Begin(r, "recovery", [Blank EXCEPT !.pc = p, !.order = o, !.copy = jobs[o],
                                             !.purpose = "recovery", !.day = d])
    BY <1>4 DEF StartRecovery
  <2>. DEFINE n == [Blank EXCEPT !.pc = p, !.order = o, !.copy = jobs[o],
                                 !.purpose = "recovery", !.day = d]
  <2>2. Bound(jobs[o])
    BY <1>4 DEF StartRecovery, RowInv, Free
  <2>3. Careful(n)
    BY <2>2 DEF Careful, Asking, Blank
  <2>. QED
    BY <1>0, <2>1, <2>3
<1>. QED
  BY <1>1, <1>2, <1>3, <1>4

\* A request's step that writes no row and makes no offer.
LEMMA ReadRows ==
  ASSUME Typed, Typed', RowInv, NEW r \in Requests,
         \/ LoadOrder(r) \/ Search(r) \/ Escalate(r) \/ LoadRejected(r)
         \/ Solve(r) \/ SolveFails(r) \/ Publish(r)
  PROVE  RowInv'
<1>. DEFINE q == req[r]
<1>. USE DEF AskingPlaces, CopyPlaces, DayPlaces
<1>1. q \in Request /\ Placed(q) /\ Careful(q)
  BY DEF Typed, RowInv
<1>2. SameRows /\ NothingAsked /\ q.pc # "idle" /\ jobs' = jobs
  BY DEF LoadOrder, Search, Escalate, LoadRejected, Solve, SolveFails, Publish, SameRows,
         NothingAsked
<1>3. \A x \in Requests \ {r} : req'[x] = req[x]
  BY DEF LoadOrder, Search, Escalate, LoadRejected, Solve, SolveFails, Publish, Finished, Typed
<1>4. ASSUME Finished(r) PROVE RowInv'
  <2>1. req'[r] = Blank /\ req'[r].pc = "idle"
    BY <1>4 DEF Finished, Typed, Blank
  <2>. QED
    BY <1>2, <1>3, <2>1, BlankCareful, RowMove
<1>5. ASSUME req'[r].order = q.order, Careful(req'[r]) PROVE RowInv'
  <2>1. Careful(req[r])'
    BY <1>2, <1>5 DEF Careful, Asking
  <2>. QED
    BY <1>2, <1>3, <1>5, <2>1, RowMove
<1>6. ASSUME LoadOrder(r) \/ LoadRejected(r), ~Finished(r) PROVE RowInv'
  <2>1. /\ q.pc \in {"load", "load_rejected"}
        /\ req'[r].pc \in {"search", "save_rejected"} /\ req'[r].order = q.order
        /\ req'[r].purpose = q.purpose /\ req'[r].copy = jobs[q.order]
    BY <1>1, <1>6 DEF LoadOrder, LoadRejected, Typed, Request
  <2>2. Careful(req'[r])
    BY <1>1, <2>1 DEF Careful, Asking
  <2>. QED
    BY <1>5, <2>1, <2>2
<1>7. ASSUME Search(r) PROVE RowInv'
  <2>1. /\ q.pc = "search" /\ req'[r].pc = "save_offer" /\ req'[r].order = q.order
        /\ req'[r].purpose = q.purpose /\ req'[r].copy = q.copy
    BY <1>1, <1>7 DEF Search, Typed, Request
  <2>2. Careful(req'[r])
    BY <1>1, <2>1 DEF Careful, Asking
  <2>. QED
    BY <1>5, <2>1, <2>2
<1>8. ASSUME Solve(r) \/ Publish(r), ~Finished(r) PROVE RowInv'
  <2>1. /\ q.pc \in DayPlaces /\ req'[r].pc \in DayPlaces /\ req'[r].order = q.order
        /\ req'[r].snapshot = q.snapshot
    BY <1>1, <1>8 DEF Solve, Publish, Typed, Request
  <2>2. Careful(req'[r])
    BY <1>1, <2>1 DEF Careful, Asking
  <2>. QED
    BY <1>5, <2>1, <2>2
<1>. QED
  BY <1>4, <1>6, <1>7, <1>8 DEF Escalate, SolveFails

\* Saving the copy of a row, edited or not, leaves the row as free or as bound.
LEMMA SaveRows ==
  ASSUME Typed, Typed', RowInv, NEW r \in Requests,
         \/ SaveTimes(r) \/ SaveOffered(r) \/ SaveRejected(r)
         \/ SaveReady(r) \/ SaveOption(r)
  PROVE  RowInv'
<1>. DEFINE q == req[r]
            o == q.order
<1>. USE DEF AskingPlaces, CopyPlaces, DayPlaces
<1>1. q \in Request /\ Placed(q) /\ Careful(q)
  BY DEF Typed, RowInv
<1>2. /\ q.pc \in {"save_times", "save_offered", "save_rejected", "save_ready", "save_option"}
      /\ o \in Orders /\ q.copy \in Job /\ UNCHANGED offers
  BY <1>1 DEF SaveTimes, SaveOffered, SaveRejected, SaveReady, SaveOption, Placed
<1>3. PICK row \in Job : /\ jobs' = [jobs EXCEPT ![o] = row]
                         /\ \/ row = q.copy
                            \/ row = [q.copy EXCEPT !.status = "offered"] /\ Asking(q)
                            \/ row = [q.copy EXCEPT !.status = "pending_planning"] /\ Asking(q)
  <2>1. /\ [q.copy EXCEPT !.status = "offered"] \in Job
        /\ [q.copy EXCEPT !.status = "pending_planning"] \in Job
    BY <1>2 DEF Job, PlanningStatus
  <2>2. q.pc \in {"save_offered", "save_rejected"} => Asking(q)
    BY <1>1 DEF Careful, Asking
  <2>. QED
    BY <1>2, <2>1, <2>2 DEF SaveTimes, SaveOffered, SaveRejected, SaveReady, SaveOption
<1>4. /\ jobs'[o] = row /\ \A x \in Orders \ {o} : jobs'[x] = jobs[x]
      /\ jobs[o] \in Job
  BY <1>2, <1>3 DEF Typed
<1>5. \/ Free(q.copy) /\ Free(jobs[o]) /\ Free(row)
      \/ Bound(q.copy) /\ Bound(jobs[o]) /\ row = q.copy /\ ~Asking(q)
  <2>1. Asking(q) => Free(q.copy) /\ Free(jobs[o])
    BY <1>1, <1>2 DEF Careful, Asking
  <2>2. Free(q.copy) => Free(row)
    BY <1>2, <1>3, CopyEdited
  <2>3. q.pc = "save_times" => Asking(q)
    BY <1>1 DEF Careful, Asking
  <2>4. ~Asking(q) => q.pc \in {"save_ready", "save_option"}
    BY <1>1, <1>2, <2>3 DEF Careful, Asking
  <2>5. ~Asking(q) => \/ Free(q.copy) /\ Free(jobs[o])
                      \/ Bound(q.copy) /\ Bound(jobs[o])
    BY <1>1, <2>4 DEF Careful
  <2>. QED
    BY <1>3, <2>1, <2>2, <2>5
<1>6. ~(Free(jobs[o]) /\ Bound(jobs[o]))
  BY <1>4, FreeOrBound
<1>. HIDE DEF o
<1>7. SameRows /\ NothingAsked
  <2>1. SameRows
    BY <1>4, <1>5, <1>6 DEF SameRows
  <2>. QED
    BY <1>2, <2>1 DEF NothingAsked
<1>8. \A x \in Requests \ {r} : req'[x] = req[x]
  BY DEF SaveTimes, SaveOffered, SaveRejected, SaveReady, SaveOption, Finished, Typed
<1>9. q.pc # "idle"
  BY <1>2
<1>10. CASE Finished(r)
  <2>1. req'[r] = Blank /\ req'[r].pc = "idle"
    BY <1>10 DEF Finished, Typed, Blank
  <2>. QED
    BY <1>7, <1>8, <1>9, <2>1, BlankCareful, RowMove
<1>11. CASE ~Finished(r)
  <2>1. /\ req'[r].order = o /\ req'[r].purpose = q.purpose /\ req'[r].copy = q.copy
        /\ req'[r].snapshot = q.snapshot
        /\ \/ req'[r].pc = "load" /\ Asking(q)
           \/ req'[r].pc = "search" /\ q.pc = "save_option"
           \/ req'[r].pc = "solve" /\ q.pc = "save_ready"
    <3>1. q.pc \in {"save_times", "save_rejected"} => Asking(q)
      BY <1>1 DEF Careful, Asking
    <3>. QED
      BY <1>1, <1>11, <3>1 DEF SaveTimes, SaveOffered, SaveRejected, SaveReady, SaveOption,
                               Typed, Request, o
  <2>2. Careful(req[r])'
    <3>1. CASE req'[r].pc = "load" /\ Asking(q)
      BY <1>4, <1>5, <2>1, <3>1 DEF Careful, Asking
    <3>2. CASE req'[r].pc = "search" /\ q.pc = "save_option"
      BY <1>1, <2>1, <3>2 DEF Careful, Asking
    <3>3. CASE req'[r].pc = "solve" /\ q.pc = "save_ready"
      <4>1. DOMAIN req'[r].snapshot = {}
        BY <1>1, <2>1, <3>3 DEF Careful, Nobody
      <4>. QED
        BY <3>3, <4>1 DEF Careful, Asking
    <3>. QED
      BY <2>1, <3>1, <3>2, <3>3
  <2>. QED
    BY <1>7, <1>8, <1>9, <2>1, <2>2, RowMove DEF o
<1>. QED
  BY <1>10, <1>11

\* A new offer, a claim and a stored rejection leave the rows alone.
LEMMA OfferRows ==
  ASSUME Typed, Typed', RowInv, NEW r \in Requests,
         SaveOffer(r) \/ Claim(r) \/ SaveRejection(r)
  PROVE  RowInv'
<1>. DEFINE q == req[r]
<1>. USE DEF AskingPlaces, CopyPlaces, DayPlaces
<1>1. q \in Request /\ Placed(q) /\ Careful(q)
  BY DEF Typed, RowInv
<1>2. SameRows /\ jobs' = jobs /\ q.pc # "idle"
  BY DEF SaveOffer, Claim, SaveRejection, SameRows
<1>3. \A x \in Requests \ {r} : req'[x] = req[x]
  BY DEF SaveOffer, Claim, SaveRejection, Finished, Typed
<1>4. NothingAsked
  <2>1. CASE SaveOffer(r)
    <3>1. \/ q.purpose = "recovery"
          \/ q.order \in Orders /\ Free(jobs[q.order])
      BY <1>1, <2>1 DEF Careful, Asking, Placed, SaveOffer
    <3>2. offers'[Len(offers) + 1].order = q.order /\ offers'[Len(offers) + 1].purpose = q.purpose
      BY <2>1, NewOffer
    <3>. QED
      BY <1>2, <2>1, <3>1, <3>2, NewOffer DEF NothingAsked
  <2>2. CASE Claim(r)
    <3>1. /\ \A g \in DOMAIN offers : offers[g] \in Offer
          /\ q.offer \in DOMAIN offers
      BY <1>1, <2>2, OfferFields DEF Claim, Placed
    <3>2. \/ offers' = offers
          \/ offers' = [offers EXCEPT ![q.offer].column = "rejected"]
      BY <2>2 DEF Claim
    <3>. QED
      BY <3>1, <3>2 DEF NothingAsked, Offer
  <2>3. CASE SaveRejection(r)
    <3>1. /\ \A g \in DOMAIN offers : offers[g] \in Offer
          /\ q.offer \in DOMAIN offers
      BY <1>1, <2>3, OfferFields DEF SaveRejection, Placed
    <3>2. offers' = [offers EXCEPT ![q.offer].column = "rejected", ![q.offer].data = "rejected"]
      BY <2>3 DEF SaveRejection
    <3>. QED
      BY <3>1, <3>2 DEF NothingAsked, Offer
  <2>. QED
    BY <2>1, <2>2, <2>3
<1>5. CASE Finished(r)
  <2>1. req'[r] = Blank /\ req'[r].pc = "idle"
    BY <1>5 DEF Finished, Typed, Blank
  <2>. QED
    BY <1>2, <1>3, <1>4, <2>1, BlankCareful, RowMove
<1>6. CASE ~Finished(r)
  <2>1. /\ req'[r].order = q.order /\ req'[r].purpose = q.purpose /\ req'[r].copy = q.copy
        /\ \/ req'[r].pc = "save_offered" /\ q.pc = "save_offer" /\ q.purpose # "recovery"
           \/ /\ req'[r].pc \in {"save_rejection", "load", "load_rejected"}
              /\ q.pc \in {"claim", "save_rejection"}
    BY <1>1, <1>6 DEF SaveOffer, Claim, SaveRejection, Typed, Request
  <2>2. Careful(req[r])'
    BY <1>1, <1>2, <2>1 DEF Careful, Asking
  <2>. QED
    BY <1>2, <1>3, <1>4, <2>1, <2>2, RowMove
<1>. QED
  BY <1>5, <1>6

\* What one stop of a sent-out route does to its row.
LEMMA Advancing ==
  ASSUME Typed, NEW r \in Requests, Advance(r)
  PROVE  \E o \in req[r].stops :
           /\ o \in Orders
           /\ \/ jobs' = jobs
              \/ /\ o \in DOMAIN req[r].snapshot /\ req[r].snapshot[o] \in Job
                 /\ req[r].snapshot[o].status \in AdvancedFrom(req[r].target)
                 /\ jobs' = [jobs EXCEPT ![o] =
                               [req[r].snapshot[o] EXCEPT !.status = req[r].target]]
           /\ \/ req'[r] = Blank
              \/ req'[r] = [req[r] EXCEPT !.stops = @ \ {o}]
<1>1. req[r] \in Request /\ req[r].snapshot \in Rows
  BY DEF Typed, Request
<1>2. \A o \in DOMAIN req[r].snapshot : req[r].snapshot[o] \in Job
  BY <1>1 DEF Rows
<1>3. PICK o \in req[r].stops :
        /\ \/ jobs' = jobs
           \/ /\ o \in DOMAIN req[r].snapshot
              /\ req[r].snapshot[o].status \in AdvancedFrom(req[r].target)
              /\ jobs' = [jobs EXCEPT ![o] =
                            [req[r].snapshot[o] EXCEPT !.status = req[r].target]]
        /\ \/ Finished(r)
           \/ req' = [req EXCEPT ![r].stops = @ \ {o}]
  BY DEF Advance
<1>4. o \in Orders
  BY <1>1, <1>3 DEF Request
<1>5. \/ req'[r] = Blank
      \/ req'[r] = [req[r] EXCEPT !.stops = @ \ {o}]
  BY <1>3 DEF Finished, Typed
<1>. QED
  BY <1>2, <1>3, <1>4, <1>5

LEMMA AdvanceRows ==
  ASSUME Typed, Typed', RowInv, NEW r \in Requests, Advance(r)
  PROVE  RowInv'
<1>. DEFINE q == req[r]
<1>. USE DEF AskingPlaces, CopyPlaces, DayPlaces
<1>1. /\ q \in Request /\ Careful(q) /\ q.pc = "advance" /\ q.target \in LockedStatuses
      /\ offers' = offers /\ \A x \in Requests \ {r} : req'[x] = req[x]
  <2>1. q \in Request /\ Careful(q)
    BY DEF Typed, RowInv
  <2>. QED
    BY <2>1 DEF Advance, Finished, Typed, Request, LockedStatuses
<1>2. PICK o \in q.stops :
        /\ o \in Orders
        /\ \/ jobs' = jobs
           \/ /\ o \in DOMAIN q.snapshot /\ q.snapshot[o] \in Job
              /\ jobs' = [jobs EXCEPT ![o] = [q.snapshot[o] EXCEPT !.status = q.target]]
        /\ \/ req'[r] = Blank
           \/ req'[r] = [q EXCEPT !.stops = @ \ {o}]
  BY Advancing
<1>3. SameRows
  <2>1. CASE jobs' = jobs
    BY <2>1 DEF SameRows
  <2>2. ASSUME o \in DOMAIN q.snapshot, q.snapshot[o] \in Job,
               NEW row, row = [q.snapshot[o] EXCEPT !.status = q.target],
               jobs' = [jobs EXCEPT ![o] = row]
        PROVE  SameRows
    <3>1. Bound(jobs[o]) /\ Bound(q.snapshot[o])
      BY <1>1, <2>2 DEF Careful
    <3>2. Bound(row)
      BY <1>1, <2>2, <3>1, CopyEdited
    <3>3. ~Free(jobs[o])
      BY <1>2, <3>1, FreeOrBound DEF Typed
    <3>4. jobs'[o] = row /\ \A x \in Orders \ {o} : jobs'[x] = jobs[x]
      BY <1>2, <2>2 DEF Typed
    <3>. QED
      BY <3>1, <3>2, <3>3, <3>4 DEF SameRows
  <2>. QED
    BY <1>2, <2>1, <2>2
<1>4. NothingAsked
  BY <1>1 DEF NothingAsked
<1>5. CASE req'[r] = Blank
  <2>1. req'[r].pc = "idle"
    BY <1>5 DEF Blank
  <2>. QED
    BY <1>1, <1>3, <1>4, <1>5, <2>1, BlankCareful, RowMove
<1>6. CASE req'[r] = [q EXCEPT !.stops = @ \ {o}]
  <2>1. req'[r].pc = "advance" /\ req'[r].order = q.order /\ req'[r].snapshot = q.snapshot
    BY <1>1, <1>6 DEF Request
  <2>2. q.snapshot \in Rows
    BY <1>1 DEF Request
  <2>3. DOMAIN q.snapshot \subseteq Orders
    BY <2>2 DEF Rows
  <2>4. Careful(req[r])'
    BY <1>1, <1>3, <2>1, <2>3 DEF Careful, Asking, SameRows
  <2>. QED
    BY <1>1, <1>3, <1>4, <2>1, <2>4, RowMove
<1>. QED
  BY <1>2, <1>5, <1>6

\* No request in flight is about the customer who accepts.
LEMMA AcceptAlone ==
  ASSUME OnePerOrder, NEW f \in DOMAIN offers, NEW s \in offers[f].slots, AcceptOffer(f, s)
  PROVE  \A r \in Requests : req[r].pc # "idle" => req[r].order # offers[f].order
  BY DEF OnePerOrder, AcceptOffer, Acceptable, MayStart, InFlight

\* Accepting binds the customer's row and closes every other question to them.
LEMMA AcceptRows ==
  ASSUME OnePerOrder, Typed, Typed', RowInv,
         NEW f \in DOMAIN offers, NEW s \in offers[f].slots, AcceptOffer(f, s)
  PROVE  RowInv' /\ Bound(jobs'[offers[f].order])
<1>. DEFINE o == offers[f].order
<1>1. /\ o \in Orders /\ s \in OfferedSlot /\ s.day \in Days /\ s.window \in Windows
      /\ jobs'[o].day = s.day /\ jobs'[o].window = s.window
      /\ jobs'[o].status = "confirmed"
      /\ \A x \in Orders \ {o} : jobs'[x] = jobs[x]
      /\ req' = req
  BY Acceptance, AcceptTyped DEF Accepted, OfferedSlot
<1>2. Bound(jobs'[o])
  BY <1>1, BookingAssumption DEF Bound, Loads, LockedStatuses
<1>3. \A x \in Requests : req[x].pc # "idle" => req[x].order # o
  BY AcceptAlone
<1>4. ASSUME NEW x \in Requests PROVE Careful(req[x])'
  <2>1. Asking(req[x]) \/ req[x].pc \in CopyPlaces => req[x].pc # "idle"
    BY DEF Asking, AskingPlaces, CopyPlaces
  <2>2. \A y \in Orders : /\ Free(jobs[y]) /\ (Asking(req[x]) \/ req[x].pc \in CopyPlaces)
                               /\ req[x].order = y => Free(jobs'[y])
                          /\ Bound(jobs[y]) => Bound(jobs'[y])
    BY <1>1, <1>2, <1>3, <2>1
  <2>3. req'[x] = req[x]
    BY <1>1
  <2>. QED
    BY <2>2, <2>3, OthersCareful
<1>5. Lone'
  BY <1>1 DEF Lone, RowInv
<1>6. \A y \in Orders : Free(jobs'[y]) \/ Bound(jobs'[y])
  BY <1>1, <1>2 DEF RowInv
<1>7. ASSUME NEW y \in Orders, jobs'[y].status \in LockedStatuses,
             NEW g \in DOMAIN offers', offers'[g].order = y, offers'[g].data = "sent"
      PROVE  offers'[g].purpose = "recovery"
  <2>1. g \in DOMAIN offers \ {f} /\ offers[g] \in Offer
    BY <1>7, Answering, OfferFields
  <2>2. offers'[g] = offers[g] /\ ~(offers[g].order = o /\ offers[g].data = "sent")
    BY <1>7, <2>1, Answering
  <2>3. y # o
    BY <1>7, <2>2
  <2>. QED
    BY <1>1, <1>7, <2>1, <2>2, <2>3 DEF RowInv, BookedNotAsked, OpenOffers, OffersOf, Open
<1>8. BookedNotAsked'
  BY <1>7 DEF BookedNotAsked, OpenOffers, OffersOf, Open
<1>. HIDE DEF o
<1>9. RowInv'
  BY <1>4, <1>5, <1>6, <1>8 DEF RowInv
<1>. QED
  BY <1>2, <1>9 DEF o

LEMMA InitRows == Init => RowInv
<1>. SUFFICES ASSUME Init PROVE RowInv
  OBVIOUS
<1>1. ASSUME NEW o \in Orders PROVE Free(jobs[o]) \/ Bound(jobs[o])
  <2>1. CASE o \in DOMAIN Held
    <3>1. jobs[o].status = "confirmed" /\ jobs[o].day \in Days /\ jobs[o].window \in Windows
      BY <2>1, BookingAssumption DEF Init
    <3>. QED
      BY <3>1, BookingAssumption DEF Bound, Loads, LockedStatuses
  <2>2. CASE o \notin DOMAIN Held
    BY <2>2 DEF Init, Free, Loads, LockedStatuses
  <2>. QED
    BY <2>1, <2>2
<1>2. \A r \in Requests : req[r] = Blank
  BY DEF Init
<1>3. \A r \in Requests : Careful(req[r])
  BY <1>2, BlankCareful
<1>4. Lone /\ BookedNotAsked
  BY <1>2 DEF Init, Lone, Blank, BookedNotAsked, OpenOffers, OffersOf
<1>. QED
  BY <1>1, <1>3, <1>4 DEF RowInv

LEMMA NextRows == ASSUME OnePerOrder PROVE IInv /\ RowInv /\ [Next]_vars => RowInv'
<1>. SUFFICES ASSUME IInv, RowInv, [Next]_vars PROVE RowInv'
  OBVIOUS
<1>1. Typed /\ Typed'
  BY NextTyped DEF IInv
<1>2. ASSUME NEW r \in Requests, NegotiationStep(r) \/ DisruptionStep(r) PROVE RowInv'
  BY <1>1, <1>2, ReadRows, SaveRows, OfferRows, AdvanceRows DEF NegotiationStep, DisruptionStep
<1>3. CASE Negotiate
  BY <1>1, <1>2, <1>3, AskRows, AcceptRows DEF Negotiate
<1>4. CASE Disrupt
  BY <1>1, <1>2, <1>4, CoordinatorRows DEF Disrupt
<1>5. CASE Crash
  <2>1. /\ \A r \in Requests : req'[r] = Blank
        /\ jobs' = jobs /\ offers' = offers
    BY <1>5 DEF Crash
  <2>2. SameRows /\ NothingAsked
    BY <2>1 DEF SameRows, NothingAsked
  <2>3. \A r \in Requests : Careful(req[r])'
    BY <2>1, BlankCareful
  <2>4. Lone'
    BY <2>1 DEF Lone, Blank
  <2>. QED
    BY <1>1, <2>2, <2>3, <2>4, StillNotAsked DEF RowInv
<1>6. CASE UNCHANGED vars
  <2>1. jobs' = jobs /\ offers' = offers /\ req' = req
    BY <1>6 DEF vars
  <2>2. SameRows /\ NothingAsked
    BY <2>1 DEF SameRows, NothingAsked
  <2>3. \A r \in Requests : Careful(req[r])'
    BY <1>1, <2>1, <2>2, OthersCareful DEF SameRows
  <2>4. Lone'
    BY <2>1 DEF Lone, RowInv
  <2>. QED
    BY <1>1, <2>2, <2>3, <2>4, StillNotAsked DEF RowInv
<1>. QED
  BY <1>3, <1>4, <1>5, <1>6 DEF Next

-----------------------------------------------------------------------------
\* What follows for the rows.

\* With one request per order every row is free or bound, and every request's copies
\* agree with the rows it will save over (offer_service.py, recovery_service.py).
THEOREM RowInvariance == ASSUME OnePerOrder PROVE Spec => [](IInv /\ RowInv)
<1>1. Init => IInv /\ RowInv
  BY InitIInv, InitRows
<1>2. IInv /\ RowInv /\ [Next]_vars => (IInv /\ RowInv)'
  BY NextIInv, NextRows
<1>. QED
  BY <1>1, <1>2, PTL DEF Spec

\* With one request per order, no interleaving of the endpoints saves a row that
\* JobRecord refuses to load: every handler writes back a copy that is as free or as
\* bound as the row still is (db.save_job, JobRecord._states_cannot_contradict).
THEOREM RowsAlwaysLoad == ASSUME OnePerOrder PROVE Spec => []RowsLoad
<1>1. RowInv => RowsLoad
  BY DEF RowInv, RowsLoad, Free, Bound
<1>. QED
  BY <1>1, RowInvariance, PTL

\* With one request per order, nobody is asked to choose a first appointment while
\* holding one (offer_service.accept_offer closes every other open offer).
THEOREM BookedIsNotAsked == ASSUME OnePerOrder PROVE Spec => []BookedNotAsked
<1>1. RowInv => BookedNotAsked
  BY DEF RowInv
<1>. QED
  BY <1>1, RowInvariance, PTL

-----------------------------------------------------------------------------
\* One coordinator: what the coordinator's requests know of the routes.

\* The fields of a coordinator's new request.
LEMMA CoordinatorBegins ==
  ASSUME OneCoordinator, Typed, RowInv, RouteInv, NEW r \in Requests,
         \/ \E o \in Orders, ready \in BOOLEAN : StartReadiness(r, o, ready)
         \/ \E d \in Days : StartReplan(r, d)
         \/ \E d \in Days : StartStops(r, d, "route_plan", "sequenced")
         \/ \E d \in Days : StartStops(r, d, "morning_run", "dispatched")
         \/ \E o \in Orders, d \in Days : StartRecovery(r, o, d)
  PROVE  RouteInv'
<1>. USE DEF AskingPlaces, CopyPlaces, DayPlaces
<1>0. ASSUME NEW endpoint \in {"readiness", "replan", "route_plan", "morning_run", "recovery"},
             NEW n, Begin(r, endpoint, n), Current(n)
      PROVE  RouteInv'
  <2>1. /\ req'[r] = n /\ req[r].pc = "idle" /\ jobs' = jobs
        /\ \A x \in Requests \ {r} : req'[x] = req[x]
        /\ endpoint \in Endpoints /\ MayStart(n.order)
    BY <1>0 DEF Begin, Typed
  <2>2. ~(Endpoints \subseteq CustomerEndpoints) /\ Concurrency = "none"
    BY <1>0, <2>1 DEF CustomerEndpoints, OneCoordinator, OnePerOrder
  <2>3. \A x \in Requests : req[x].pc = "idle"
    BY <2>1, <2>2 DEF MayStart, InFlight
  <2>4. Alone'
    BY <2>1, <2>2, <2>3 DEF Alone
  <2>5. \A x \in Requests : Current(req[x])'
    BY <1>0, <2>1, <2>3 DEF Current, Solved, RoutableJobs
  <2>. QED
    BY <2>4, <2>5 DEF RouteInv
<1>1. ASSUME NEW o \in Orders, NEW ready \in BOOLEAN, StartReadiness(r, o, ready)
      PROVE  RouteInv'
  <2>. DEFINE c == [jobs[o] EXCEPT !.ready = ready]
              day == IF jobs[o].ready = ready THEN NoDay ELSE jobs[o].day
              n == [Blank EXCEPT !.pc = "save_ready", !.order = o, !.copy = c, !.day = day]
  <2>1. Begin(r, "readiness", n)
    BY <1>1 DEF StartReadiness
  <2>2. jobs[o] \in Job
    BY DEF Typed
  <2>3. c.ready = ready /\ (jobs[o].ready = ready => c = jobs[o])
    BY <2>2 DEF Job
  <2>4. n.pc = "save_ready" /\ n.order = o /\ n.copy = c /\ n.day = day
    BY DEF Blank
  <2>5. c = [jobs[o] EXCEPT !.ready = c.ready]
    BY <2>3
  <2>. HIDE DEF n, c
  <2>6. Current(n)
    BY <2>3, <2>4, <2>5 DEF Current
  <2>. QED
    BY <1>0, <2>1, <2>6
<1>2. ASSUME NEW d \in Days, StartReplan(r, d) PROVE RouteInv'
  <2>. DEFINE n == [Blank EXCEPT !.pc = "solve", !.day = d]
  <2>1. Current(n)
    BY DEF Current, Blank, Nobody
  <2>. QED
    BY <1>0, <1>2, <2>1 DEF StartReplan
<1>3. ASSUME NEW d \in Days, NEW endpoint \in {"route_plan", "morning_run"}, NEW target,
             StartStops(r, d, endpoint, target)
      PROVE  RouteInv'
  <2>. DEFINE rows == [o \in RoutableJobs(jobs, d) |-> jobs[o]]
              n == [Blank EXCEPT !.pc = "solve", !.day = d, !.target = target,
                                 !.snapshot = rows]
  <2>1. Begin(r, endpoint, n)
    BY <1>3 DEF StartStops
  <2>2. \A o \in DOMAIN rows : rows[o] = jobs[o]
    OBVIOUS
  <2>. HIDE DEF rows
  <2>3. n.pc = "solve" /\ n.snapshot = rows
    BY DEF Blank
  <2>. HIDE DEF n
  <2>4. Current(n)
    BY <2>2, <2>3 DEF Current
  <2>. QED
    BY <1>0, <2>1, <2>4
<1>4. ASSUME NEW o \in Orders, NEW d \in Days, StartRecovery(r, o, d) PROVE RouteInv'
  <2>1. PICK p \in {"save_option", "search"} :
          Begin(r, "recovery", [Blank EXCEPT !.pc = p, !.order = o, !.copy = jobs[o],
                                             !.purpose = "recovery", !.day = d])
    BY <1>4 DEF StartRecovery
  <2>. DEFINE n == [Blank EXCEPT !.pc = p, !.order = o, !.copy = jobs[o],
                                 !.purpose = "recovery", !.day = d]
  <2>2. Current(n)
    BY DEF Current, Blank
  <2>. QED
    BY <1>0, <2>1, <2>2
<1>. QED
  BY <1>1, <1>2, <1>3, <1>4

\* A customer's new request.
LEMMA CustomerBegins ==
  ASSUME Typed, RowInv, RouteInv, NEW r \in Requests,
         \/ \E o \in Orders : StartPlan(r, o) \/ StartMessage(r, o) \/ StartTimes(r, o)
         \/ \E f \in DOMAIN offers, next \in {"booking", "alternative"} : StartReject(r, f, next)
  PROVE  RouteInv'
<1>1. ASSUME NEW n, req[r].pc = "idle", MayStart(n.order), n.pc \in AskingPlaces,
             n.purpose # "recovery", req' = [req EXCEPT ![r] = n], jobs' = jobs
      PROVE  RouteInv'
  <2>1. req'[r] = n /\ \A x \in Requests \ {r} : req'[x] = req[x]
    BY <1>1 DEF Typed
  <2>2. Concurrency = "none" => \A x \in Requests : req[x].pc = "idle"
    BY <1>1 DEF MayStart, InFlight
  <2>3. ~Coordinating(n)
    BY <1>1 DEF Coordinating, AskingPlaces, DayPlaces
  <2>4. Alone'
    BY <2>1, <2>2, <2>3 DEF Alone, RouteInv, Coordinating
  <2>5. \A x \in Requests : Current(req[x])'
    BY <1>1, <2>1 DEF Current, RouteInv, Solved, RoutableJobs, AskingPlaces
  <2>. QED
    BY <2>4, <2>5 DEF RouteInv
<1>2. ASSUME NEW o \in Orders, StartPlan(r, o) \/ StartMessage(r, o) PROVE RouteInv'
  <2>. DEFINE n == [Blank EXCEPT !.pc = "load", !.order = o, !.purpose = "booking"]
  <2>1. /\ n.order = o /\ n.pc \in AskingPlaces /\ n.purpose # "recovery"
        /\ req[r].pc = "idle" /\ MayStart(o) /\ req' = [req EXCEPT ![r] = n] /\ jobs' = jobs
    BY <1>2 DEF StartPlan, StartMessage, Arrive, Blank, AskingPlaces
  <2>. HIDE DEF n
  <2>. QED
    BY <1>1, <2>1
<1>3. ASSUME NEW o \in Orders, StartTimes(r, o) PROVE RouteInv'
  <2>. DEFINE n == [Blank EXCEPT !.pc = "save_times", !.order = o, !.copy = jobs[o]]
  <2>1. /\ n.order = o /\ n.pc \in AskingPlaces /\ n.purpose # "recovery"
        /\ req[r].pc = "idle" /\ MayStart(o) /\ req' = [req EXCEPT ![r] = n] /\ jobs' = jobs
    BY <1>3 DEF StartTimes, Blank, AskingPlaces
  <2>. HIDE DEF n
  <2>. QED
    BY <1>1, <2>1
<1>4. ASSUME NEW f \in DOMAIN offers, NEW next \in {"booking", "alternative"},
             StartReject(r, f, next)
      PROVE  RouteInv'
  <2>. DEFINE n == [Blank EXCEPT !.pc = "claim", !.order = offers[f].order, !.offer = f,
                                 !.purpose = next]
  <2>1. /\ n.order = offers[f].order /\ n.pc \in AskingPlaces /\ n.purpose # "recovery"
        /\ req[r].pc = "idle" /\ MayStart(offers[f].order)
        /\ req' = [req EXCEPT ![r] = n] /\ jobs' = jobs
    BY <1>4 DEF StartReject, Blank, AskingPlaces
  <2>. HIDE DEF n
  <2>. QED
    BY <1>1, <2>1
<1>. QED
  BY <1>2, <1>3, <1>4

\* A request goes on: if the coordinator's, it runs alone, and if not, no request of
\* the coordinator's is there to be misled.
LEMMA OwnStep ==
  ASSUME RouteInv, NEW r \in Requests, req[r].pc # "idle",
         \A x \in Requests \ {r} : req'[x] = req[x],
         Coordinating(req'[r]) => Coordinating(req[r]), Current(req[r])'
  PROVE  RouteInv'
<1>1. Alone'
  BY DEF RouteInv, Alone
<1>2. ASSUME NEW x \in Requests \ {r} PROVE Current(req[x])'
  <2>1. CASE Coordinating(req[x])
    BY <2>1 DEF RouteInv, Alone, Coordinating
  <2>2. CASE ~Coordinating(req[x])
    BY <2>2 DEF Current, Coordinating, DayPlaces
  <2>. QED
    BY <2>1, <2>2
<1>. QED
  BY <1>1, <1>2 DEF RouteInv

LEMMA StepRoutes ==
  ASSUME Typed, Typed', RowInv, RouteInv, NEW r \in Requests,
         NegotiationStep(r) \/ DisruptionStep(r)
  PROVE  RouteInv'
<1>. DEFINE q == req[r]
<1>. USE DEF AskingPlaces, CopyPlaces, DayPlaces
<1>1. q \in Request /\ Placed(q) /\ Careful(q) /\ Current(q)
  BY DEF Typed, RowInv, RouteInv
<1>2. /\ \A x \in Requests \ {r} : req'[x] = req[x]
      /\ q.pc # "idle"
  BY DEF NegotiationStep, DisruptionStep, SaveTimes, LoadOrder, Search, Escalate, SaveOffer,
         SaveOffered, Claim, SaveRejection, LoadRejected, SaveRejected, SaveReady, Solve,
         SolveFails, Publish, Advance, SaveOption, Finished, Typed
<1>3. CASE req'[r] = Blank
  <2>1. ~Coordinating(req'[r]) /\ Current(req[r])'
    BY <1>3 DEF Coordinating, Current, Blank
  <2>. QED
    BY <1>2, <2>1, OwnStep
<1>4. ASSUME NegotiationStep(r), ~(req'[r] = Blank) PROVE RouteInv'
  <2>1. /\ req'[r].pc \in {"load", "search", "save_offer", "save_offered", "save_rejection",
                           "load_rejected", "save_rejected"}
        /\ req'[r].purpose = q.purpose
        /\ q.pc \in AskingPlaces
    BY <1>1, <1>4 DEF NegotiationStep, SaveTimes, LoadOrder, Search, Escalate, SaveOffer,
         SaveOffered, Claim, SaveRejection, LoadRejected, SaveRejected, Finished, Typed, Request
  <2>2. Current(req[r])'
    BY <2>1 DEF Current
  <2>3. Coordinating(req'[r]) => Coordinating(q)
    BY <1>2, <2>1 DEF Coordinating
  <2>. QED
    BY <1>2, <2>2, <2>3, OwnStep
<1>5. ASSUME SaveReady(r), ~(req'[r] = Blank) PROVE RouteInv'
  <2>1. q.pc = "save_ready" /\ req'[r].pc = "solve" /\ req'[r].snapshot = q.snapshot
    BY <1>1, <1>5 DEF SaveReady, Finished, Typed, Request
  <2>2. DOMAIN req'[r].snapshot = {}
    BY <1>1, <2>1 DEF Careful, Nobody
  <2>3. Current(req[r])' /\ Coordinating(q)
    BY <2>1, <2>2 DEF Current, Coordinating
  <2>. QED
    BY <1>2, <2>3, OwnStep
<1>6. ASSUME SaveOption(r) PROVE RouteInv'
  <2>1. q.pc = "save_option" /\ req'[r].pc = "search"
    BY <1>1, <1>6 DEF SaveOption, Typed, Request
  <2>2. Current(req[r])' /\ Coordinating(q)
    BY <2>1 DEF Current, Coordinating
  <2>. QED
    BY <1>2, <2>2, OwnStep
<1>7. ASSUME Solve(r), ~(req'[r] = Blank) PROVE RouteInv'
  <2>1. /\ q.pc = "solve" /\ req'[r].pc = "publish" /\ jobs' = jobs
        /\ req'[r].snapshot = q.snapshot /\ req'[r].day = q.day
        /\ req'[r].route = Solved(jobs, q.day)
    BY <1>1, <1>7 DEF Solve, Finished, Typed, Request
  <2>2. Current(req[r])' /\ Coordinating(q)
    BY <1>1, <2>1 DEF Current, Coordinating, Solved, RoutableJobs
  <2>. QED
    BY <1>2, <2>2, OwnStep
<1>8. ASSUME Publish(r), ~(req'[r] = Blank) PROVE RouteInv'
  <2>1. /\ q.pc = "publish" /\ req'[r].pc = "advance" /\ jobs' = jobs
        /\ req'[r].snapshot = q.snapshot
    BY <1>1, <1>8 DEF Publish, Finished, Typed, Request
  <2>2. Current(req[r])' /\ Coordinating(q)
    BY <1>1, <2>1 DEF Current, Coordinating
  <2>. QED
    BY <1>2, <2>2, OwnStep
<1>9. ASSUME Advance(r), ~(req'[r] = Blank) PROVE RouteInv'
  <2>1. q.pc = "advance"
    BY <1>9 DEF Advance
  <2>2. PICK o \in q.stops :
          /\ o \in Orders
          /\ \/ jobs' = jobs
             \/ jobs' = [jobs EXCEPT ![o] = [q.snapshot[o] EXCEPT !.status = q.target]]
          /\ req'[r] = [q EXCEPT !.stops = @ \ {o}]
    BY <1>9, Advancing
  <2>3. \A x \in Orders \ {o} : jobs'[x] = jobs[x]
    BY <2>2 DEF Typed
  <2>4. /\ req'[r].pc = "advance" /\ req'[r].snapshot = q.snapshot
        /\ req'[r].stops = q.stops \ {o} /\ q.stops \subseteq Orders
    BY <1>1, <2>1, <2>2 DEF Request
  <2>5. Current(req[r])' /\ Coordinating(q)
    BY <1>1, <2>1, <2>3, <2>4 DEF Current, Coordinating
  <2>. QED
    BY <1>2, <2>5, OwnStep
<1>10. SolveFails(r) => req'[r] = Blank
  BY DEF SolveFails, Finished, Typed
<1>. QED
  BY <1>3, <1>4, <1>5, <1>6, <1>7, <1>8, <1>9, <1>10 DEF DisruptionStep

LEMMA InitRoutes == Init => RouteInv
  BY DEF Init, RouteInv, Alone, Current, Coordinating, Blank, DayPlaces

LEMMA NextRoutes ==
  ASSUME OneCoordinator PROVE IInv /\ RowInv /\ RouteInv /\ [Next]_vars => RouteInv'
<1>. SUFFICES ASSUME IInv, RowInv, RouteInv, [Next]_vars PROVE RouteInv'
  OBVIOUS
<1>1. Typed /\ Typed'
  BY NextTyped DEF IInv
<1>2. ASSUME NEW f \in DOMAIN offers, NEW s \in offers[f].slots, AcceptOffer(f, s)
      PROVE  RouteInv'
  <2>1. req' = req /\ (Concurrency = "none" => \A x \in Requests : req[x].pc = "idle")
    BY <1>2 DEF AcceptOffer, Acceptable, MayStart, InFlight
  <2>2. \A x \in Requests : Coordinating(req[x]) => FALSE
    BY <2>1 DEF RouteInv, Alone, Coordinating
  <2>3. \A x \in Requests : Current(req[x])'
    BY <2>1, <2>2 DEF Current, Coordinating, DayPlaces
  <2>4. Alone'
    BY <2>1 DEF RouteInv, Alone, Coordinating
  <2>. QED
    BY <2>3, <2>4 DEF RouteInv
<1>3. CASE Negotiate
  BY <1>1, <1>2, <1>3, CustomerBegins, StepRoutes DEF Negotiate
<1>4. CASE Disrupt
  BY <1>1, <1>4, CoordinatorBegins, StepRoutes DEF Disrupt
<1>5. CASE Crash
  BY <1>5 DEF Crash, RouteInv, Alone, Current, Coordinating, Blank, DayPlaces
<1>6. CASE UNCHANGED vars
  <2>1. req' = req /\ jobs' = jobs
    BY <1>6 DEF vars
  <2>2. \A x \in Requests : Current(req[x])'
    BY <2>1 DEF RouteInv, Current, Solved, RoutableJobs
  <2>3. Alone'
    BY <2>1 DEF RouteInv, Alone, Coordinating
  <2>. QED
    BY <2>2, <2>3 DEF RouteInv
<1>. QED
  BY <1>3, <1>4, <1>5, <1>6 DEF Next

-----------------------------------------------------------------------------
\* One coordinator: what a step may do to a row and to a route.

\* A row without an appointment is edited, a row's readiness is set, or an
\* appointment is sent further on its way.
Edited(o) ==
  \/ jobs'[o] = jobs[o]
  \/ Free(jobs[o]) /\ Free(jobs'[o])
  \/ \E r \in Requests, b \in BOOLEAN : /\ SaveReady(r) /\ req[r].order = o
                                        /\ jobs'[o] = [jobs[o] EXCEPT !.ready = b]
  \/ \E t \in LockedStatuses : /\ Bound(jobs[o]) /\ jobs[o].status # "dispatched"
                               /\ jobs'[o] = [jobs[o] EXCEPT !.status = t]

LEMMA AskedEdits ==
  ASSUME Typed, RowInv, NEW r \in Requests, NEW o \in Orders,
         SaveTimes(r) \/ SaveOffered(r) \/ SaveRejected(r)
  PROVE  Edited(o)
<1>. USE DEF AskingPlaces, CopyPlaces
<1>. DEFINE q == req[r]
<1>1. q \in Request /\ Placed(q) /\ Careful(q)
  BY DEF Typed, RowInv
<1>2. q.pc \in {"save_times", "save_offered", "save_rejected"}
  BY DEF SaveTimes, SaveOffered, SaveRejected
<1>3. /\ q.copy \in Job /\ q.order \in Orders
      /\ Free(q.copy) /\ Free(jobs[q.order])
  BY <1>1, <1>2 DEF Placed, Careful, Asking
<1>4. PICK row : Free(row) /\ jobs' = [jobs EXCEPT ![q.order] = row]
  <2>1. /\ Free([q.copy EXCEPT !.status = "offered"])
        /\ Free([q.copy EXCEPT !.status = "pending_planning"])
    BY <1>3, CopyEdited
  <2>. QED
    BY <1>3, <2>1 DEF SaveTimes, SaveOffered, SaveRejected
<1>. QED
  BY <1>3, <1>4 DEF Typed, Edited

LEMMA SentEdits ==
  ASSUME Typed, RowInv, RouteInv, NEW r \in Requests, NEW o \in Orders, Advance(r)
  PROVE  Edited(o)
<1>. DEFINE q == req[r]
<1>1. /\ q \in Request /\ Careful(q) /\ Current(q)
      /\ q.pc = "advance" /\ q.target \in LockedStatuses
  <2>1. q \in Request /\ Careful(q) /\ Current(q)
    BY DEF Typed, RowInv, RouteInv
  <2>. QED
    BY <2>1 DEF Advance, Request, LockedStatuses
<1>2. PICK x \in q.stops :
        /\ x \in Orders
        /\ \/ jobs' = jobs
           \/ /\ x \in DOMAIN q.snapshot
              /\ q.snapshot[x].status \in AdvancedFrom(q.target)
              /\ jobs' = [jobs EXCEPT ![x] = [q.snapshot[x] EXCEPT !.status = q.target]]
  BY Advancing
<1>3. CASE jobs' = jobs \/ x # o
  BY <1>2, <1>3 DEF Typed, Edited
<1>4. CASE jobs' # jobs /\ x = o
  <2>1. q.snapshot[o] = jobs[o] /\ Bound(jobs[o])
    BY <1>1, <1>2, <1>4 DEF Current, Careful, DayPlaces
  <2>2. jobs[o].status # "dispatched"
    BY <1>2, <1>4, <2>1 DEF AdvancedFrom
  <2>3. jobs'[o] = [jobs[o] EXCEPT !.status = q.target]
    BY <1>2, <1>4, <2>1 DEF Typed
  <2>. QED
    BY <1>1, <2>1, <2>2, <2>3 DEF Edited
<1>. QED
  BY <1>3, <1>4

LEMMA RowEdits ==
  ASSUME Typed, RowInv, RouteInv, [Next]_vars, NEW o \in Orders, ~Edited(o)
  PROVE  \E f \in DOMAIN offers : \E s \in offers[f].slots :
           AcceptOffer(f, s) /\ offers[f].order = o
<1>0. jobs[o] \in Job /\ jobs'[o] # jobs[o]
  BY DEF Typed, Edited
<1>1. ASSUME NEW r \in Requests PROVE ~NegotiationStep(r)
  BY <1>0, <1>1, AskedEdits DEF NegotiationStep, LoadOrder, Search, Escalate, SaveOffer,
     Claim, SaveRejection, LoadRejected
<1>2. ASSUME NEW r \in Requests PROVE ~DisruptionStep(r)
  <2>1. req[r] \in Request /\ Placed(req[r]) /\ Current(req[r])
    BY DEF Typed, RouteInv
  <2>2. ASSUME SaveOption(r) PROVE FALSE
    <3>1. req[r].pc = "save_option" /\ req[r].copy = jobs[req[r].order]
      BY <2>1, <2>2 DEF SaveOption, Current
    <3>. QED
      BY <1>0, <2>2, <3>1 DEF SaveOption, Typed
  <2>3. ASSUME SaveReady(r) PROVE FALSE
    <3>1. /\ req[r].pc = "save_ready" /\ req[r].copy \in Job /\ req[r].order \in Orders
          /\ req[r].copy = [jobs[req[r].order] EXCEPT !.ready = req[r].copy.ready]
      BY <2>1, <2>3 DEF SaveReady, Current, Placed, CopyPlaces
    <3>2. req[r].copy.ready \in BOOLEAN
      BY <3>1 DEF Job
    <3>3. req[r].order = o /\ jobs'[o] = req[r].copy
      BY <1>0, <2>3 DEF SaveReady, Typed
    <3>. DEFINE b == req[r].copy.ready
    <3>4. jobs'[o] = [jobs[o] EXCEPT !.ready = b]
      BY <3>1, <3>3
    <3>. QED
      BY <2>3, <3>2, <3>3, <3>4 DEF Edited
  <2>4. ASSUME DisruptionStep(r) PROVE FALSE
    BY <1>0, <2>2, <2>3, <2>4, SentEdits DEF DisruptionStep, Solve, SolveFails, Publish
  <2>. QED
    BY <2>4
<1>3. ASSUME NEW f \in DOMAIN offers, NEW s \in offers[f].slots, AcceptOffer(f, s)
      PROVE  offers[f].order = o
  BY <1>0, <1>3, Acceptance DEF Accepted
<1>4. CASE Negotiate
  <2>1. \E f \in DOMAIN offers : \E s \in offers[f].slots : AcceptOffer(f, s)
    BY <1>0, <1>1, <1>4 DEF Negotiate, StartPlan, StartMessage, StartTimes, StartReject, Arrive
  <2>. QED
    BY <1>3, <2>1
<1>5. CASE Disrupt
  BY <1>0, <1>2, <1>5 DEF Disrupt, StartReadiness, StartReplan, StartStops, StartRecovery, Begin
<1>. QED
  BY <1>0, <1>4, <1>5 DEF Next, Crash, vars

LEMMA ActiveKept ==
  ASSUME NEW d \in Days, history'[d] = history[d] PROVE Active(d)' = Active(d)
  BY DEF Active

LEMMA ActivePublished ==
  ASSUME Typed, NEW d \in Days, NEW route \in Routes,
         history'[d] \in Published(history[d], route)
  PROVE  Active(d)' = route
<1>1. history[d] \in Seq(Routes)
  BY DEF Typed
<1>. QED
  BY <1>1, PublishedIs DEF Active

\* A route stays, becomes what the rows make it, or is the tested one with the
\* accepting customer added.
LEMMA RouteEdits ==
  ASSUME Typed, RouteInv, [Next]_vars, NEW d \in Days,
         Active(d)' # Active(d), Active(d)' # Solved(jobs', d)
  PROVE  \E f \in DOMAIN offers : \E s \in offers[f].slots :
           /\ AcceptOffer(f, s) /\ s.day = d /\ s.source # 0
           /\ Active(d)' = Extended(jobs', offers[f].order, d)
<1>0. history' # history /\ history'[d] # history[d]
  BY ActiveKept
<1>1. ASSUME NEW r \in Requests, Publish(r) PROVE FALSE
  <2>1. /\ req[r] \in Request /\ Placed(req[r]) /\ Current(req[r]) /\ req[r].pc = "publish"
        /\ jobs' = jobs
    BY <1>1 DEF Typed, RouteInv, Publish
  <2>2. req[r].route = Solved(jobs, req[r].day) /\ req[r].route \in Routes
    BY <2>1 DEF Current, Request
  <2>3. req[r].day = d /\ history'[d] \in Published(history[d], req[r].route)
    BY <1>0, <1>1, <2>1 DEF Publish, Typed, Placed, DayPlaces
  <2>4. Active(d)' = Solved(jobs, d)
    BY <2>2, <2>3, ActivePublished
  <2>. QED
    BY <2>1, <2>4
<1>2. ASSUME NEW f \in DOMAIN offers, NEW s \in offers[f].slots, AcceptOffer(f, s)
      PROVE  s.day = d /\ s.source # 0 /\ Active(d)' = Extended(jobs', offers[f].order, d)
  <2>. DEFINE o == offers[f].order
              table == Booked(o, s)
              route == Target(table, o, s)
  <2>1. /\ jobs' = table /\ s.day \in Days /\ route \in Routes
        /\ history'[s.day] \in Published(history[s.day], route)
        /\ \A x \in Days \ {s.day} :
             \/ history'[x] = history[x]
             \/ /\ Solved(table, x) \in Routes
                /\ history'[x] \in Published(history[x], Solved(table, x))
    BY <1>2, Acceptance DEF Accepted
  <2>2. Active(s.day)' = route
    BY <2>1, ActivePublished
  <2>. HIDE DEF o, table
  <2>3. d = s.day
    BY <1>0, <2>1, ActivePublished
  <2>. QED
    BY <2>1, <2>2, <2>3 DEF Target, o
<1>3. CASE Negotiate
  BY <1>0, <1>2, <1>3 DEF Negotiate, StartPlan, StartMessage, StartTimes, StartReject, Arrive,
     NegotiationStep, SaveTimes, LoadOrder, Search, Escalate, SaveOffer, SaveOffered, Claim,
     SaveRejection, LoadRejected, SaveRejected
<1>4. CASE Disrupt
  BY <1>0, <1>1, <1>4 DEF Disrupt, StartReadiness, StartReplan, StartStops, StartRecovery,
     Begin, DisruptionStep, SaveReady, Solve, SolveFails, Advance, SaveOption
<1>. QED
  BY <1>0, <1>3, <1>4 DEF Next, Crash, vars

\* Edits of rows move no promise.
LEMMA EditedKeeps ==
  ASSUME Typed, NEW o \in Orders, Edited(o)
  PROVE  Promise(jobs'[o]) = Promise(jobs[o])
<1>. USE DEF Promise, Locked
<1>1. jobs[o] \in Job
  BY DEF Typed
<1>2. ASSUME NEW b \in BOOLEAN, jobs'[o] = [jobs[o] EXCEPT !.ready = b]
      PROVE  Promise(jobs'[o]) = Promise(jobs[o])
  BY <1>1, <1>2 DEF Job
<1>3. ASSUME NEW t \in LockedStatuses, Bound(jobs[o]),
             jobs'[o] = [jobs[o] EXCEPT !.status = t]
      PROVE  Promise(jobs'[o]) = Promise(jobs[o])
  BY <1>1, <1>3 DEF Job, Bound
<1>4. Free(jobs[o]) /\ Free(jobs'[o]) => Promise(jobs'[o]) = Promise(jobs[o])
  BY DEF Free
<1>. QED
  BY <1>2, <1>3, <1>4 DEF Edited

\* With one coordinator, moreover, a solved route still is what the rows make it when
\* it is published (plan_service.replan_day).
THEOREM RouteInvariance == ASSUME OneCoordinator PROVE Spec => [](IInv /\ RowInv /\ RouteInv)
<1>1. Init => IInv /\ RowInv /\ RouteInv
  BY InitIInv, InitRows, InitRoutes
<1>2. IInv /\ RowInv /\ RouteInv /\ [Next]_vars => (IInv /\ RowInv /\ RouteInv)'
  BY NextIInv, NextRows, NextRoutes DEF OneCoordinator
<1>. QED
  BY <1>1, <1>2, PTL DEF Spec

\* With one coordinator, a promise changes only in the step in which its customer
\* accepts another slot, and becomes that slot: no readiness report, re-solve, morning
\* run or recovery moves an appointment (recovery_service.py, plan_service.py).
THEOREM PromisesStand == ASSUME OneCoordinator PROVE Spec => PromiseStands
<1>. DEFINE Stands ==
       \A o \in Orders : Promise(jobs'[o]) # Promise(jobs[o]) =>
         \E f \in Accepts(o) :
           Promise(jobs'[o]) = <<offers'[f].accepted.day, offers'[f].accepted.window>>
<1>1. IInv /\ RowInv /\ RouteInv /\ [Next]_vars => Stands
  <2>. SUFFICES ASSUME IInv, RowInv, RouteInv, [Next]_vars, NEW o \in Orders,
                       Promise(jobs'[o]) # Promise(jobs[o])
                PROVE  \E f \in Accepts(o) :
                         Promise(jobs'[o]) =
                           <<offers'[f].accepted.day, offers'[f].accepted.window>>
    OBVIOUS
  <2>1. Typed /\ Typed'
    BY NextTyped DEF IInv
  <2>2. ~Edited(o)
    BY <2>1, EditedKeeps
  <2>3. PICK f \in DOMAIN offers : \E s \in offers[f].slots :
               AcceptOffer(f, s) /\ offers[f].order = o
    BY <2>1, <2>2, RowEdits
  <2>4. PICK s \in offers[f].slots : AcceptOffer(f, s)
    BY <2>3
  <2>5. offers[f].data = "sent" /\ offers'[f].data = "accepted" /\ offers'[f].accepted = s
    BY <2>1, <2>4, Answering
  <2>6. f \in Accepts(o)
    BY <2>3, <2>5 DEF Accepts, OffersOf
  <2>7. /\ jobs'[o].day = s.day /\ jobs'[o].window = s.window /\ jobs'[o].status = "confirmed"
        /\ jobs'[o].window \in Windows
    BY <2>1, <2>3, <2>4, Acceptance DEF Accepted
  <2>8. Promise(jobs'[o]) = <<s.day, s.window>>
    BY <2>7, BookingAssumption DEF Promise, Locked, LockedStatuses
  <2>. QED
    BY <2>5, <2>6, <2>8
<1>2. Stands => [Stands]_vars
  OBVIOUS
<1>. QED
  BY <1>1, <1>2, RouteInvariance, PTL DEF Spec, PromiseStands

\* With one coordinator, a stop that was sent out stays sent out unless its customer
\* accepts another slot (main.py: route_plan advances confirmed stops only).
THEOREM SentOutStaysSent == ASSUME OneCoordinator PROVE Spec => SentOutStays
<1>. DEFINE Stays ==
       \A o \in Orders : jobs[o].status = "dispatched" /\ Accepts(o) = {} =>
                           jobs'[o].status = "dispatched"
<1>1. IInv /\ RowInv /\ RouteInv /\ [Next]_vars => Stays
  <2>. SUFFICES ASSUME IInv, RowInv, RouteInv, [Next]_vars, NEW o \in Orders,
                       jobs[o].status = "dispatched", Accepts(o) = {}
                PROVE  jobs'[o].status = "dispatched"
    OBVIOUS
  <2>1. Typed /\ jobs[o] \in Job
    BY DEF IInv, Typed
  <2>2. CASE Edited(o)
    <3>1. ~Free(jobs[o])
      BY DEF Free, LockedStatuses
    <3>2. \A b \in BOOLEAN : [jobs[o] EXCEPT !.ready = b].status = jobs[o].status
      BY <2>1 DEF Job
    <3>. QED
      BY <2>2, <3>1, <3>2 DEF Edited
  <2>3. CASE ~Edited(o)
    <3>1. PICK f \in DOMAIN offers : \E s \in offers[f].slots :
                 AcceptOffer(f, s) /\ offers[f].order = o
      BY <2>1, <2>3, RowEdits
    <3>2. offers[f].data = "sent" /\ offers'[f].data = "accepted"
      BY <2>1, <3>1, Answering
    <3>. QED
      BY <3>1, <3>2 DEF Accepts, OffersOf
  <2>. QED
    BY <2>2, <2>3
<1>2. Stays => [Stays]_vars
  OBVIOUS
<1>. QED
  BY <1>1, <1>2, RouteInvariance, PTL DEF Spec, SentOutStays

\* With one coordinator, no step takes a customer whose appointment and goods both
\* stand off the active route: a route is only ever replaced by what the rows make it
\* or by itself with one stop more (plan_service.replan_day, insertion.py).
THEOREM ConfirmedStaysRouted == ASSUME OneCoordinator PROVE Spec => ConfirmedNotDropped
<1>. DEFINE Routed ==
       \A d \in Days : \A o \in DOMAIN Active(d) \ DOMAIN Active(d)' :
         o \notin RoutableJobs(jobs', d)
<1>1. IInv /\ RowInv /\ RouteInv /\ [Next]_vars => Routed
  <2>. SUFFICES ASSUME IInv, RowInv, RouteInv, [Next]_vars, NEW d \in Days,
                       NEW o \in DOMAIN Active(d), o \notin DOMAIN Active(d)'
                PROVE  o \notin RoutableJobs(jobs', d)
    OBVIOUS
  <2>1. Typed
    BY DEF IInv
  <2>2. Active(d)' # Active(d)
    OBVIOUS
  <2>3. CASE Active(d)' = Solved(jobs', d)
    BY <2>3 DEF Solved
  <2>4. CASE Active(d)' # Solved(jobs', d)
    <3>1. PICK f \in DOMAIN offers : \E s \in offers[f].slots :
                 Active(d)' = Extended(jobs', offers[f].order, d)
      BY <2>1, <2>2, <2>4, RouteEdits
    <3>2. DOMAIN Extended(jobs', offers[f].order, d) = DOMAIN Active(d) \cup {offers[f].order}
      BY DEF Extended
    <3>. QED
      BY <3>1, <3>2
  <2>. QED
    BY <2>3, <2>4
<1>2. Routed => [Routed]_vars
  OBVIOUS
<1>. QED
  BY <1>1, <1>2, RouteInvariance, PTL DEF Spec, ConfirmedNotDropped

-----------------------------------------------------------------------------
\* Nothing lost: the routes are the appointments.

LEMMA SolvedSame ==
  ASSUME NEW table, NEW d,
         \A o \in Orders : /\ o \in RoutableJobs(table, d) <=> o \in RoutableJobs(jobs, d)
                           /\ o \in RoutableJobs(jobs, d) => table[o].window = jobs[o].window
  PROVE  Solved(table, d) = Solved(jobs, d)
<1>1. RoutableJobs(table, d) = RoutableJobs(jobs, d)
  BY DEF RoutableJobs
<1>2. \A o \in RoutableJobs(jobs, d) : table[o].window = jobs[o].window
  BY DEF RoutableJobs
<1>. QED
  BY <1>1, <1>2 DEF Solved

\* A step that is no acceptance leaves what a date's rows ask for as it was, or the
\* date is being rebuilt.
LEMMA SolvedKept ==
  ASSUME Typed, Typed', RowInv, RouteInv, NEW d \in Days, \A o \in Orders : Edited(o)
  PROVE  Rebuilding(d)' \/ Solved(jobs', d) = Solved(jobs, d)
<1>. SUFFICES ASSUME ~Rebuilding(d)' PROVE Solved(jobs', d) = Solved(jobs, d)
  OBVIOUS
<1>1. ASSUME NEW o \in Orders
      PROVE  /\ o \in RoutableJobs(jobs', d) <=> o \in RoutableJobs(jobs, d)
             /\ o \in RoutableJobs(jobs, d) => jobs'[o].window = jobs[o].window
  <2>1. jobs[o] \in Job /\ jobs'[o] \in Job
    BY DEF Typed
  <2>2. CASE jobs'[o] = jobs[o]
    BY <2>2 DEF RoutableJobs
  <2>3. CASE Free(jobs[o]) /\ Free(jobs'[o])
    BY <2>3 DEF RoutableJobs, Free, RoutableStatuses, LockedStatuses
  <2>4. ASSUME NEW t \in LockedStatuses, Bound(jobs[o]), jobs'[o] = [jobs[o] EXCEPT !.status = t]
        PROVE  /\ o \in RoutableJobs(jobs', d) <=> o \in RoutableJobs(jobs, d)
               /\ o \in RoutableJobs(jobs, d) => jobs'[o].window = jobs[o].window
    <3>1. /\ jobs'[o].status = t /\ jobs'[o].day = jobs[o].day
          /\ jobs'[o].window = jobs[o].window /\ jobs'[o].ready = jobs[o].ready
      BY <2>1, <2>4 DEF Job
    <3>. QED
      BY <2>4, <3>1 DEF RoutableJobs, Bound, RoutableStatuses, LockedStatuses
  <2>5. ASSUME NEW r \in Requests, NEW b \in BOOLEAN, SaveReady(r), req[r].order = o,
               jobs'[o] = [jobs[o] EXCEPT !.ready = b], jobs'[o] # jobs[o]
        PROVE  /\ o \in RoutableJobs(jobs', d) <=> o \in RoutableJobs(jobs, d)
               /\ o \in RoutableJobs(jobs, d) => jobs'[o].window = jobs[o].window
    <3>1. /\ jobs'[o].status = jobs[o].status /\ jobs'[o].day = jobs[o].day
          /\ jobs'[o].window = jobs[o].window
      BY <2>1, <2>5 DEF Job
    <3>2. /\ req[r] \in Request /\ Current(req[r]) /\ req[r].pc = "save_ready"
          /\ jobs'[o] = req[r].copy
      BY <2>5 DEF Typed, RouteInv, SaveReady
    <3>3. CASE req[r].day = NoDay
      <4>1. jobs[o].day = NoDay
        BY <2>5, <3>2, <3>3 DEF Current
      <4>. QED
        BY <3>1, <4>1, BookingAssumption DEF RoutableJobs
    <3>4. CASE req[r].day # NoDay
      <4>1. req'[r].pc = "solve" /\ req'[r].day = req[r].day /\ req[r].day = jobs[o].day
        BY <2>5, <3>2, <3>4 DEF SaveReady, Current, Typed, Request
      <4>2. jobs[o].day # d
        BY <4>1 DEF Rebuilding, InFlight
      <4>. QED
        BY <3>1, <4>2 DEF RoutableJobs
    <3>. QED
      BY <3>3, <3>4
  <2>. QED
    BY <2>2, <2>3, <2>4, <2>5 DEF Edited
<1>. QED
  BY <1>1, SolvedSame

\* Under way, a rebuild stays under way until its route is published or a coordinator
\* is told.
LEMMA RebuildEnds ==
  ASSUME NothingLost, Typed, RowInv, RouteInv, [Next]_vars, NEW d \in Days,
         Rebuilding(d), ~Rebuilding(d)', d \notin reported'
  PROVE  Active(d)' = Solved(jobs', d)
<1>1. PICK r \in Requests : req[r].pc \in {"solve", "publish"} /\ req[r].day = d
  BY DEF Rebuilding, InFlight
<1>2. req'[r] # req[r]
  BY <1>1 DEF Rebuilding, InFlight
<1>3. /\ req[r] \in Request /\ Placed(req[r]) /\ Current(req[r])
  BY DEF Typed, RouteInv
<1>4. Coordinating(req[r])
  BY <1>1 DEF Coordinating, DayPlaces
<1>5. ~Crash
  BY <1>4 DEF RouteInv, Alone, NothingLost, Crash
<1>6. ASSUME Publish(r) PROVE Active(d)' = Solved(jobs', d)
  <2>1. /\ req[r].route = Solved(jobs, d) /\ req[r].route \in Routes /\ jobs' = jobs
        /\ history'[d] \in Published(history[d], req[r].route)
    BY <1>1, <1>3, <1>6 DEF Publish, Current, Request, Typed
  <2>. QED
    BY <2>1, ActivePublished
<1>7. ASSUME Solve(r) PROVE FALSE
  <2>1. DayLoads(jobs, req[r].day)
    BY DEF RowInv, DayLoads, Free, Bound
  <2>2. req'[r].pc = "publish" /\ req'[r].day = d
    BY <1>1, <1>3, <1>7, <2>1 DEF Solve, Typed, Request
  <2>. QED
    BY <2>2 DEF Rebuilding, InFlight
<1>8. ASSUME SolveFails(r) PROVE FALSE
  BY <1>1, <1>8 DEF SolveFails
<1>9. ASSUME NEW x \in Requests, NegotiationStep(x) PROVE FALSE
  BY <1>1, <1>2, <1>9 DEF NegotiationStep, SaveTimes, LoadOrder, Search, Escalate, SaveOffer,
     SaveOffered, Claim, SaveRejection, LoadRejected, SaveRejected, Finished, Typed
<1>10. ASSUME NEW x \in Requests, DisruptionStep(x) PROVE Publish(r) \/ Solve(r) \/ SolveFails(r)
  BY <1>1, <1>2, <1>10 DEF DisruptionStep, SaveReady, Solve, SolveFails, Publish, Advance,
     SaveOption, Finished, Typed
<1>11. CASE Negotiate
  BY <1>1, <1>2, <1>9, <1>11 DEF Negotiate, StartPlan, StartMessage, StartTimes, StartReject,
     Arrive, AcceptOffer, Typed
<1>12. CASE Disrupt
  BY <1>1, <1>2, <1>6, <1>7, <1>8, <1>10, <1>12 DEF Disrupt, StartReadiness, StartReplan,
     StartStops, StartRecovery, Begin, Typed
<1>. QED
  BY <1>2, <1>5, <1>11, <1>12 DEF Next, vars

-----------------------------------------------------------------------------
\* Goods that nobody reports late are there, and offers nobody asks for are solved.

LEMMA BlankReady == Ready(Blank) /\ Untested(Blank)
  BY DEF Ready, Untested, Asking, Blank, Nobody, CopyPlaces, AskingPlaces

LEMMA ReadyStep ==
  ASSUME Typed, AllReady, NEW r \in Requests, NegotiationStep(r) \/ DisruptionStep(r)
  PROVE  AllReady'
<1>. USE DEF CopyPlaces
<1>. DEFINE q == req[r]
<1>1. q \in Request /\ Placed(q) /\ Ready(q)
  BY DEF Typed, AllReady
<1>2. \A x \in Requests \ {r} : req'[x] = req[x]
  BY DEF NegotiationStep, DisruptionStep, SaveTimes, LoadOrder, Search, Escalate, SaveOffer,
         SaveOffered, Claim, SaveRejection, LoadRejected, SaveRejected, SaveReady, Solve,
         SolveFails, Publish, Advance, SaveOption, Finished, Typed
<1>3. Ready(req'[r])
  <2>1. CASE req'[r] = Blank
    BY <2>1, BlankReady
  <2>2. CASE req'[r] # Blank
    <3>1. /\ req'[r].snapshot = q.snapshot
          /\ \/ req'[r].copy = q.copy /\ (req'[r].pc \in CopyPlaces => q.pc \in CopyPlaces)
             \/ q.order \in Orders /\ req'[r].copy = jobs[q.order]
      BY <1>1, <2>2 DEF NegotiationStep, DisruptionStep, SaveTimes, LoadOrder, Search, Escalate,
         SaveOffer, SaveOffered, Claim, SaveRejection, LoadRejected, SaveRejected, SaveReady,
         Solve, SolveFails, Publish, Advance, SaveOption, Finished, Typed, Request, Placed,
         AskingPlaces
    <3>. QED
      BY <1>1, <3>1 DEF Ready, AllReady
  <2>. QED
    BY <2>1, <2>2
<1>4. \A o \in Orders : jobs'[o].ready
  <2>1. CASE Advance(r)
    <3>1. PICK o \in q.stops :
            /\ o \in Orders
            /\ \/ jobs' = jobs
               \/ /\ o \in DOMAIN q.snapshot /\ q.snapshot[o] \in Job
                  /\ jobs' = [jobs EXCEPT ![o] = [q.snapshot[o] EXCEPT !.status = q.target]]
      BY <2>1, Advancing
    <3>2. CASE jobs' = jobs
      BY <3>2 DEF AllReady
    <3>3. ASSUME o \in DOMAIN q.snapshot, q.snapshot[o] \in Job,
                 NEW row, row = [q.snapshot[o] EXCEPT !.status = q.target],
                 jobs' = [jobs EXCEPT ![o] = row]
          PROVE  \A x \in Orders : jobs'[x].ready
      <4>1. row.ready
        BY <1>1, <3>3 DEF Ready, Job
      <4>. QED
        BY <3>3, <4>1 DEF AllReady, Typed
    <3>. QED
      BY <3>1, <3>2, <3>3
  <2>2. CASE SaveTimes(r) \/ SaveOffered(r) \/ SaveRejected(r) \/ SaveReady(r) \/ SaveOption(r)
    <3>1. q.copy.ready /\ q.copy \in Job
      BY <1>1, <2>2 DEF SaveTimes, SaveOffered, SaveRejected, SaveReady, SaveOption, Ready, Placed
    <3>2. /\ [q.copy EXCEPT !.status = "offered"].ready
          /\ [q.copy EXCEPT !.status = "pending_planning"].ready
      BY <3>1 DEF Job
    <3>3. PICK row : row.ready /\ jobs' = [jobs EXCEPT ![q.order] = row]
      BY <2>2, <3>1, <3>2 DEF SaveTimes, SaveOffered, SaveRejected, SaveReady, SaveOption
    <3>. QED
      BY <3>3 DEF AllReady, Typed
  <2>3. CASE jobs' = jobs
    BY <2>3 DEF AllReady
  <2>. QED
    BY <2>1, <2>2, <2>3 DEF NegotiationStep, DisruptionStep, LoadOrder, Search, Escalate,
       SaveOffer, Claim, SaveRejection, LoadRejected, Solve, SolveFails, Publish
<1>. QED
  BY <1>2, <1>3, <1>4 DEF AllReady, Ready

LEMMA ReadyKept ==
  ASSUME Typed, "readiness" \notin Endpoints, AllReady, [Next]_vars
  PROVE  AllReady'
<1>. USE DEF CopyPlaces
<1>1. ASSUME NEW r \in Requests, NEW n, Ready(n), req' = [req EXCEPT ![r] = n], jobs' = jobs
      PROVE  AllReady'
  BY <1>1 DEF AllReady, Ready, Typed
<1>2. ASSUME NEW f \in DOMAIN offers, NEW s \in offers[f].slots, AcceptOffer(f, s)
      PROVE  AllReady'
  <2>1. /\ req' = req /\ offers[f].order \in Orders
        /\ jobs'[offers[f].order].ready = jobs[offers[f].order].ready
        /\ \A x \in Orders \ {offers[f].order} : jobs'[x] = jobs[x]
    BY <1>2, Acceptance DEF Accepted
  <2>. QED
    BY <2>1 DEF AllReady, Ready
<1>3. ASSUME NEW r \in Requests, NEW o \in Orders,
             StartPlan(r, o) \/ StartMessage(r, o) \/ StartTimes(r, o)
      PROVE  AllReady'
  <2>. DEFINE n == [Blank EXCEPT !.pc = "load", !.order = o, !.purpose = "booking"]
              m == [Blank EXCEPT !.pc = "save_times", !.order = o, !.copy = jobs[o]]
  <2>1. Ready(n) /\ Ready(m)
    BY DEF Ready, Blank, Nobody, AllReady
  <2>2. \E x \in {n, m} : req' = [req EXCEPT ![r] = x] /\ jobs' = jobs
    BY <1>3 DEF StartPlan, StartMessage, StartTimes, Arrive
  <2>. HIDE DEF n, m
  <2>. QED
    BY <1>1, <2>1, <2>2
<1>4. ASSUME NEW r \in Requests, NEW f \in DOMAIN offers, NEW next \in {"booking", "alternative"},
             StartReject(r, f, next)
      PROVE  AllReady'
  <2>. DEFINE n == [Blank EXCEPT !.pc = "claim", !.order = offers[f].order, !.offer = f,
                                 !.purpose = next]
  <2>1. Ready(n) /\ req' = [req EXCEPT ![r] = n] /\ jobs' = jobs
    BY <1>4 DEF Ready, Blank, Nobody, StartReject
  <2>. HIDE DEF n
  <2>. QED
    BY <1>1, <2>1
<1>5. ASSUME NEW r \in Requests, NEW d \in Days, StartReplan(r, d) PROVE AllReady'
  <2>. DEFINE n == [Blank EXCEPT !.pc = "solve", !.day = d]
  <2>1. Ready(n) /\ req' = [req EXCEPT ![r] = n] /\ jobs' = jobs
    BY <1>5 DEF Ready, Blank, Nobody, StartReplan, Begin
  <2>. HIDE DEF n
  <2>. QED
    BY <1>1, <2>1
<1>6. ASSUME NEW r \in Requests, NEW d \in Days, NEW endpoint, NEW target,
             StartStops(r, d, endpoint, target)
      PROVE  AllReady'
  <2>. DEFINE rows == [o \in RoutableJobs(jobs, d) |-> jobs[o]]
              n == [Blank EXCEPT !.pc = "solve", !.day = d, !.target = target,
                                 !.snapshot = rows]
  <2>1. \A o \in DOMAIN rows : rows[o].ready
    BY DEF RoutableJobs
  <2>. HIDE DEF rows
  <2>2. Ready(n)
    BY <2>1 DEF Ready, Blank
  <2>3. req' = [req EXCEPT ![r] = n] /\ jobs' = jobs
    BY <1>6 DEF StartStops, Begin, rows
  <2>. HIDE DEF n
  <2>. QED
    BY <1>1, <2>2, <2>3
<1>7. ASSUME NEW r \in Requests, NEW o \in Orders, NEW d \in Days, StartRecovery(r, o, d)
      PROVE  AllReady'
  <2>1. PICK p : req' = [req EXCEPT ![r] = [Blank EXCEPT !.pc = p, !.order = o, !.copy = jobs[o],
                                                    !.purpose = "recovery", !.day = d]]
                 /\ jobs' = jobs
    BY <1>7 DEF StartRecovery, Begin
  <2>. DEFINE n == [Blank EXCEPT !.pc = p, !.order = o, !.copy = jobs[o],
                                 !.purpose = "recovery", !.day = d]
  <2>2. Ready(n)
    BY DEF Ready, Blank, Nobody, AllReady
  <2>. HIDE DEF n
  <2>. QED
    BY <1>1, <2>1, <2>2 DEF n
<1>8. \A r \in Requests, o \in Orders, b \in BOOLEAN : ~StartReadiness(r, o, b)
  BY DEF StartReadiness, Begin
<1>9. CASE Negotiate
  BY <1>2, <1>3, <1>4, <1>9, ReadyStep DEF Negotiate
<1>10. CASE Disrupt
  BY <1>5, <1>6, <1>7, <1>8, <1>10, ReadyStep DEF Disrupt
<1>11. CASE Crash
  <2>1. jobs' = jobs /\ \A r \in Requests : req'[r] = Blank
    BY <1>11 DEF Crash
  <2>. QED
    BY <2>1, BlankReady DEF AllReady, Ready
<1>12. CASE UNCHANGED vars
  BY <1>12 DEF AllReady, Ready, vars
<1>. QED
  BY <1>9, <1>10, <1>11, <1>12 DEF Next

\* A freed date is offered from re-solved days only.
LEMMA RecoverySearch ==
  ASSUME Typed, NEW r \in Requests, Search(r), req[r].purpose = "recovery"
  PROVE  \A s \in req'[r].slots : s.source = 0
<1>1. PICK slots \in Choices(r) :
        req' = [req EXCEPT ![r].pc = "save_offer", ![r].slots = slots]
  BY DEF Search
<1>2. PICK s \in Evaluated(req[r].order, "recovery") : slots = {s}
  BY <1>1 DEF Choices
<1>3. s.source = 0
  BY <1>2 DEF Evaluated
<1>4. req'[r].slots = slots
  BY <1>1 DEF Typed, Request
<1>. QED
  BY <1>2, <1>3, <1>4

LEMMA UntestedKept ==
  ASSUME Typed, RowInv, Endpoints \cap {"plan", "message", "reject"} = {}, AllUntested,
         [Next]_vars
  PROVE  AllUntested'
<1>. USE DEF AskingPlaces
<1>1. ASSUME NEW r \in Requests, NEW n, Untested(n), req' = [req EXCEPT ![r] = n],
             offers' = offers
      PROVE  AllUntested'
  BY <1>1 DEF AllUntested, Untested, Asking, Typed
<1>2. ASSUME NEW f \in DOMAIN offers, NEW s \in offers[f].slots, AcceptOffer(f, s)
      PROVE  AllUntested'
  <2>1. req' = req
    BY <1>2 DEF AcceptOffer
  <2>2. /\ DOMAIN offers' = DOMAIN offers
        /\ \A g \in DOMAIN offers : offers'[g].slots = offers[g].slots
    <3>1. ASSUME NEW g \in DOMAIN offers PROVE offers'[g].slots = offers[g].slots
      <4>1. offers[g] \in Offer
        BY OfferFields
      <4>2. /\ [offers[g] EXCEPT !.column = "closed", !.data = "closed"].slots = offers[g].slots
            /\ [offers[g] EXCEPT !.column = "accepted", !.data = "accepted",
                                 !.accepted = s].slots = offers[g].slots
        BY <4>1 DEF Offer
      <4>3. \/ offers'[g] = offers[g]
            \/ offers'[g] = [offers[g] EXCEPT !.column = "closed", !.data = "closed"]
            \/ offers'[g] = [offers[g] EXCEPT !.column = "accepted", !.data = "accepted",
                                              !.accepted = s]
        BY <1>2 DEF AcceptOffer, Answered
      <4>. QED
        BY <4>2, <4>3
    <3>. QED
      BY <1>2, <3>1, Answering
  <2>. QED
    BY <2>1, <2>2 DEF AllUntested, Untested, Asking
<1>3. \A r \in Requests, o \in Orders : ~StartPlan(r, o) /\ ~StartMessage(r, o) /\ ~StartTimes(r, o)
  BY DEF StartPlan, StartMessage, StartTimes
<1>4. \A r \in Requests, f \in DOMAIN offers, next \in {"booking", "alternative"} :
        ~StartReject(r, f, next)
  BY DEF StartReject
<1>5. ASSUME NEW r \in Requests, NegotiationStep(r) PROVE AllUntested'
  <2>1. /\ req[r] \in Request /\ Untested(req[r]) /\ Careful(req[r])
        /\ req[r].pc \in AskingPlaces
    BY <1>5 DEF Typed, AllUntested, RowInv, NegotiationStep, SaveTimes, LoadOrder, Search,
       Escalate, SaveOffer, SaveOffered, Claim, SaveRejection, LoadRejected, SaveRejected
  <2>2. req[r].purpose = "recovery" /\ req[r].pc \in {"search", "save_offer"}
    BY <2>1 DEF Untested, Asking, Careful
  <2>3. ASSUME Search(r) PROVE AllUntested'
    <3>1. /\ req'[r].purpose = "recovery" /\ offers' = offers
          /\ \A x \in Requests \ {r} : req'[x] = req[x]
      BY <2>1, <2>2, <2>3 DEF Search, Typed, Request
    <3>2. Untested(req'[r])
      BY <2>2, <2>3, <3>1, RecoverySearch DEF Untested, Asking
    <3>. QED
      BY <3>1, <3>2 DEF AllUntested, Untested, Asking
  <2>4. ASSUME Escalate(r) PROVE AllUntested'
    BY <1>1, <2>4, BlankReady DEF Escalate, Finished
  <2>5. ASSUME SaveOffer(r) PROVE AllUntested'
    <3>1. req' = [req EXCEPT ![r] = Blank]
      BY <2>2, <2>5 DEF SaveOffer, Finished
    <3>2. \A f \in DOMAIN offers' : \A s \in offers'[f].slots : s.source = 0
      BY <2>1, <2>5, NewOffer DEF AllUntested, Untested
    <3>3. \A x \in Requests : Untested(req'[x])
      BY <3>1, BlankReady DEF AllUntested, Typed
    <3>. QED
      BY <3>2, <3>3 DEF AllUntested, Untested, Asking
  <2>. QED
    BY <1>5, <2>2, <2>3, <2>4, <2>5 DEF NegotiationStep, SaveTimes, LoadOrder,
       SaveOffered, Claim, SaveRejection, LoadRejected, SaveRejected
<1>6. ASSUME NEW r \in Requests, DisruptionStep(r) PROVE AllUntested'
  <2>1. req[r] \in Request /\ Untested(req[r]) /\ Careful(req[r])
    BY DEF Typed, AllUntested, RowInv
  <2>2. /\ offers' = offers
        /\ \A x \in Requests \ {r} : req'[x] = req[x]
        /\ \/ req'[r] = Blank
           \/ /\ req'[r].slots = req[r].slots /\ req'[r].purpose = req[r].purpose
              /\ \/ req'[r].pc \in DayPlaces
                 \/ req'[r].pc = "search" /\ req[r].pc = "save_option"
    BY <1>6, <2>1 DEF DisruptionStep, SaveReady, Solve, SolveFails, Publish, Advance, SaveOption,
       Finished, Typed, Request, DayPlaces
  <2>3. Untested(req'[r])
    <3>1. CASE req'[r] = Blank
      BY <3>1, BlankReady
    <3>2. CASE req'[r] # Blank
      BY <2>1, <2>2, <3>2 DEF Untested, Asking, Careful, DayPlaces
    <3>. QED
      BY <3>1, <3>2
  <2>. QED
    BY <2>2, <2>3 DEF AllUntested, Untested, Asking
<1>7. ASSUME NEW r \in Requests,
             \/ \E o \in Orders, ready \in BOOLEAN : StartReadiness(r, o, ready)
             \/ \E d \in Days : StartReplan(r, d)
             \/ \E d \in Days : StartStops(r, d, "route_plan", "sequenced")
             \/ \E d \in Days : StartStops(r, d, "morning_run", "dispatched")
             \/ \E o \in Orders, d \in Days : StartRecovery(r, o, d)
      PROVE  AllUntested'
  <2>1. ASSUME NEW endpoint, NEW n, Begin(r, endpoint, n), Untested(n) PROVE AllUntested'
    BY <1>1, <2>1 DEF Begin
  <2>2. ASSUME NEW o \in Orders, NEW ready \in BOOLEAN, StartReadiness(r, o, ready)
        PROVE  AllUntested'
    <3>. DEFINE n == [Blank EXCEPT !.pc = "save_ready", !.order = o,
                                   !.copy = [jobs[o] EXCEPT !.ready = ready],
                                   !.day = IF jobs[o].ready = ready THEN NoDay ELSE jobs[o].day]
    <3>1. Begin(r, "readiness", n) /\ Untested(n)
      BY <2>2 DEF StartReadiness, Untested, Asking, Blank
    <3>. HIDE DEF n
    <3>. QED
      BY <2>1, <3>1
  <2>3. ASSUME NEW d \in Days, StartReplan(r, d) PROVE AllUntested'
    <3>. DEFINE n == [Blank EXCEPT !.pc = "solve", !.day = d]
    <3>1. Begin(r, "replan", n) /\ Untested(n)
      BY <2>3 DEF StartReplan, Untested, Asking, Blank
    <3>. HIDE DEF n
    <3>. QED
      BY <2>1, <3>1
  <2>4. ASSUME NEW d \in Days, NEW endpoint, NEW target, StartStops(r, d, endpoint, target)
        PROVE  AllUntested'
    <3>. DEFINE n == [Blank EXCEPT !.pc = "solve", !.day = d, !.target = target,
                                   !.snapshot = [o \in RoutableJobs(jobs, d) |-> jobs[o]]]
    <3>1. Begin(r, endpoint, n) /\ Untested(n)
      BY <2>4 DEF StartStops, Untested, Asking, Blank
    <3>. HIDE DEF n
    <3>. QED
      BY <2>1, <3>1
  <2>5. ASSUME NEW o \in Orders, NEW d \in Days, StartRecovery(r, o, d) PROVE AllUntested'
    <3>1. PICK p : Begin(r, "recovery", [Blank EXCEPT !.pc = p, !.order = o, !.copy = jobs[o],
                                                      !.purpose = "recovery", !.day = d])
      BY <2>5 DEF StartRecovery
    <3>. DEFINE n == [Blank EXCEPT !.pc = p, !.order = o, !.copy = jobs[o],
                                   !.purpose = "recovery", !.day = d]
    <3>2. Begin(r, "recovery", n) /\ Untested(n)
      BY <3>1 DEF Untested, Asking, Blank
    <3>. HIDE DEF n
    <3>. QED
      BY <2>1, <3>2
  <2>. QED
    BY <1>7, <2>2, <2>3, <2>4, <2>5
<1>8. CASE Crash
  <2>1. offers' = offers /\ \A r \in Requests : req'[r] = Blank
    BY <1>8 DEF Crash
  <2>. QED
    BY <2>1, BlankReady DEF AllUntested, Untested, Asking
<1>9. CASE UNCHANGED vars
  BY <1>9 DEF AllUntested, Untested, Asking, vars
<1>10. CASE Negotiate
  BY <1>2, <1>3, <1>4, <1>5, <1>10 DEF Negotiate
<1>11. CASE Disrupt
  BY <1>6, <1>7, <1>11 DEF Disrupt
<1>. QED
  BY <1>8, <1>9, <1>10, <1>11 DEF Next

LEMMA ReadyOrSolvedKept ==
  ASSUME Typed, RowInv, ReadyOrSolved, [Next]_vars PROVE ReadyOrSolved'
<1>1. "readiness" \notin Endpoints => AllReady'
  BY ReadyKept DEF ReadyOrSolved
<1>2. Endpoints \cap {"plan", "message", "reject"} = {} => AllUntested'
  BY UntestedKept DEF ReadyOrSolved
<1>. QED
  BY <1>1, <1>2 DEF ReadyOrSolved

\* An acceptance leaves every date it touches the route of its appointments, or the
\* date left behind is reported.
LEMMA AcceptMatches ==
  ASSUME NothingLost, Typed, RowInv, ReadyOrSolved, NEW d \in Days,
         NEW f \in DOMAIN offers, NEW s \in offers[f].slots, AcceptOffer(f, s),
         d \in reported \/ Active(d) = Solved(jobs, d)
  PROVE  d \in reported' \/ Active(d)' = Solved(jobs', d)
<1>. DEFINE o == offers[f].order
            table == Booked(o, s)
            left == jobs[o].day
            route == Target(table, o, s)
<1>1. Accepted(o, s, table, left, route)
  BY Acceptance
<1>2. /\ o \in Orders /\ s.day \in Days /\ jobs' = table
      /\ table[o].window = s.window /\ table[o].window \in Windows
      /\ table[o].day = s.day /\ table[o].status = "confirmed"
      /\ table[o].ready = jobs[o].ready
      /\ \A x \in Orders \ {o} : table[x] = jobs[x]
      /\ route \in Routes /\ reported \subseteq reported'
      /\ history'[s.day] \in Published(history[s.day], route)
      /\ \A x \in Days \ {s.day} :
           \/ history'[x] = history[x] /\ (x = left => x \in reported')
           \/ x = left /\ Solved(table, x) \in Routes
              /\ history'[x] \in Published(history[x], Solved(table, x))
  BY <1>1 DEF Accepted
<1>3. CASE d = s.day /\ s.source = 0
  BY <1>2, <1>3, ActivePublished DEF Target
<1>4. ASSUME d = s.day, s.source # 0, d \notin reported'
      PROVE  Active(d)' = Solved(jobs', d)
  <2>1. jobs[o].ready
    <3>1. ~AllUntested
      BY <1>4 DEF AllUntested
    <3>. QED
      BY <1>2, <3>1 DEF ReadyOrSolved, NothingLost, AllReady
  <2>2. Active(d)' = Extended(table, o, d)
    BY <1>2, <1>4, ActivePublished DEF Target
  <2>3. /\ Active(d) = [x \in RoutableJobs(jobs, d) |-> jobs[x].window]
        /\ DOMAIN Active(d) = RoutableJobs(jobs, d)
        /\ o \notin DOMAIN Active(d)
    BY <1>2, <1>4 DEF Solved, AcceptOffer, Rebuilds
  <2>. HIDE DEF o, table
  <2>4. RoutableJobs(table, d) = RoutableJobs(jobs, d) \cup {o}
    BY <1>2, <1>4, <2>1, <2>3 DEF RoutableJobs, RoutableStatuses
  <2>5. \A x \in RoutableJobs(jobs, d) : Bound(jobs[x]) /\ table[x] = jobs[x]
    BY <1>2, <2>3 DEF RowInv, Free, RoutableJobs, RoutableStatuses, LockedStatuses
  <2>6. ASSUME NEW x \in RoutableJobs(table, d)
        PROVE  table[x].window # NoWindow
    BY <1>2, <2>4, <2>5, BookingAssumption DEF Bound, Loads
  <2>7. Extended(table, o, d) = [x \in RoutableJobs(table, d) |-> table[x].window]
    BY <2>3, <2>4, <2>6 DEF Extended
  <2>. QED
    BY <1>2, <2>2, <2>7 DEF Solved
<1>5. ASSUME d # s.day, d # left, Active(d) = Solved(jobs, d)
      PROVE  Active(d)' = Solved(jobs', d)
  <2>1. history'[d] = history[d]
    BY <1>2, <1>5
  <2>2. Active(d)' = Active(d)
    BY <2>1, ActiveKept
  <2>. HIDE DEF o, table
  <2>3. \A x \in Orders : /\ x \in RoutableJobs(table, d) <=> x \in RoutableJobs(jobs, d)
                          /\ x \in RoutableJobs(jobs, d) => table[x].window = jobs[x].window
    BY <1>2, <1>5 DEF RoutableJobs, left
  <2>4. Solved(table, d) = Solved(jobs, d)
    BY <2>3, SolvedSame
  <2>. QED
    BY <1>2, <1>5, <2>2, <2>4
<1>6. ASSUME d # s.day, d = left, d \notin reported'
      PROVE  Active(d)' = Solved(jobs', d)
  <2>1. history'[d] \in Published(history[d], Solved(table, d)) /\ Solved(table, d) \in Routes
    BY <1>2, <1>6
  <2>. QED
    BY <1>2, <2>1, ActivePublished
<1>. QED
  BY <1>2, <1>3, <1>4, <1>5, <1>6

LEMMA NextMatches ==
  ASSUME NothingLost
  PROVE  IInv /\ RowInv /\ RouteInv /\ MatchInv /\ [Next]_vars => MatchInv'
<1>. SUFFICES ASSUME IInv, RowInv, RouteInv, MatchInv, [Next]_vars, NEW d \in Days,
                     ~Rebuilding(d)', d \notin reported'
              PROVE  Active(d)' = Solved(jobs', d)
  <2>1. IInv /\ RowInv /\ MatchInv /\ [Next]_vars => ReadyOrSolved'
    BY ReadyOrSolvedKept DEF IInv, MatchInv
  <2>. QED
    BY <2>1 DEF MatchInv, RoutesMatchPromises
<1>1. Typed /\ Typed'
  BY NextTyped DEF IInv
<1>2. CASE Rebuilding(d)
  BY <1>1, <1>2, RebuildEnds
<1>3. CASE ~Rebuilding(d)
  <2>1. d \in reported \/ Active(d) = Solved(jobs, d)
    BY <1>3 DEF MatchInv, RoutesMatchPromises
  <2>2. CASE \E f \in DOMAIN offers : \E s \in offers[f].slots : AcceptOffer(f, s)
    BY <1>1, <2>1, <2>2, AcceptMatches DEF MatchInv
  <2>3. CASE ~(\E f \in DOMAIN offers : \E s \in offers[f].slots : AcceptOffer(f, s))
    <3>1. d \notin reported
      <4>1. reported \subseteq reported'
        BY <2>3 DEF Next, Negotiate, Disrupt, StartPlan, StartMessage, StartTimes, StartReject,
           Arrive, NegotiationStep, SaveTimes, LoadOrder, Search, Escalate, SaveOffer,
           SaveOffered, Claim, SaveRejection, LoadRejected, SaveRejected, StartReadiness,
           StartReplan, StartStops, StartRecovery, Begin, DisruptionStep, SaveReady, Solve,
           SolveFails, Publish, Advance, SaveOption, Crash, vars
      <4>. QED
        BY <4>1
    <3>2. \A o \in Orders : Edited(o)
      BY <1>1, <2>3, RowEdits
    <3>3. Solved(jobs', d) = Solved(jobs, d)
      BY <1>1, <3>2, SolvedKept
    <3>4. Active(d)' = Active(d) \/ Active(d)' = Solved(jobs', d)
      BY <1>1, <2>3, RouteEdits
    <3>. QED
      BY <2>1, <3>1, <3>3, <3>4
  <2>. QED
    BY <2>2, <2>3
<1>. QED
  BY <1>2, <1>3

LEMMA InitMatches == Init => MatchInv
<1>. SUFFICES ASSUME Init PROVE MatchInv
  OBVIOUS
<1>1. AllReady
  BY BlankReady DEF Init, AllReady
<1>2. AllUntested
  BY BlankReady DEF Init, AllUntested
<1>3. ASSUME NEW d \in Days PROVE Active(d) = Solved(jobs, d)
  <2>1. CASE RoutableJobs(jobs, d) = {}
    <3>1. history[d] = << >>
      BY <2>1 DEF Init
    <3>2. Active(d) = [o \in {} |-> NoWindow] /\ Solved(jobs, d) = [o \in {} |-> jobs[o].window]
      BY <2>1, <3>1 DEF Active, EmptyRoute, Solved
    <3>. QED
      BY <3>2
  <2>2. CASE RoutableJobs(jobs, d) # {}
    <3>1. history[d] = << Solved(jobs, d) >>
      BY <2>2 DEF Init
    <3>. QED
      BY <3>1 DEF Active
  <2>. QED
    BY <2>1, <2>2
<1>. QED
  BY <1>1, <1>2, <1>3 DEF MatchInv, ReadyOrSolved, RoutesMatchPromises

\* Where nothing is lost, moreover, goods are delayed only if nobody is on a tested
\* route, and a route differs from the promises only while its date is being rebuilt
\* (recovery_service.mark_readiness, insertion.build_tested_sequence).
THEOREM MatchInvariance ==
  ASSUME NothingLost PROVE Spec => [](IInv /\ RowInv /\ RouteInv /\ MatchInv)
<1>1. Init => IInv /\ RowInv /\ RouteInv /\ MatchInv
  BY InitIInv, InitRows, InitRoutes, InitMatches
<1>2. IInv /\ RowInv /\ RouteInv /\ MatchInv /\ [Next]_vars
        => (IInv /\ RowInv /\ RouteInv /\ MatchInv)'
  BY NextIInv, NextRows, NextRoutes, NextMatches DEF NothingLost, OneCoordinator
<1>. QED
  BY <1>1, <1>2, PTL DEF Spec

\* With one coordinator, and goods delayed only where no tested insertion waits for
\* an answer, the active route of every date visits exactly the ready customers who
\* hold an appointment on it, each in the promised window, unless the date is being
\* rebuilt or was reported (plan_service.py, insertion.py, recovery_service.py).
THEOREM RoutesMatch == ASSUME NothingLost PROVE Spec => []RoutesMatchPromises
<1>1. MatchInv => RoutesMatchPromises
  BY DEF MatchInv
<1>. QED
  BY <1>1, MatchInvariance, PTL

\* In the same environment, no order whose goods are missing is left on an active
\* route without a rebuild under way or a report to a coordinator
\* (recovery_service.mark_readiness).
THEOREM MissingNotRouted == ASSUME NothingLost PROVE Spec => []NotReadyNotRouted
<1>1. RoutesMatchPromises => NotReadyNotRouted
  BY DEF RoutesMatchPromises, NotReadyNotRouted, Solved, RoutableJobs
<1>. QED
  BY <1>1, RoutesMatch, PTL

-----------------------------------------------------------------------------
\* Customers alone: Coordinator implements Appointments.

LEMMA InitStays == Init => StayInv
  BY DEF Init, StayInv, Blank

\* A customer who is asked for a first appointment holds none to leave.
LEMMA NothingLeft ==
  ASSUME Typed, RowInv, StayInv,
         NEW f \in DOMAIN offers, NEW s \in offers[f].slots, AcceptOffer(f, s)
  PROVE  jobs[offers[f].order].day = NoDay
<1>. DEFINE o == offers[f].order
<1>1. o \in Orders /\ offers[f].data = "sent" /\ offers[f].purpose # "recovery"
  BY Answering, OfferFields DEF StayInv
<1>2. jobs[o].status \notin LockedStatuses
  BY <1>1 DEF RowInv, BookedNotAsked, OpenOffers, OffersOf, Open
<1>. QED
  BY <1>1, <1>2 DEF RowInv, Bound, Free

LEMMA NextStays ==
  ASSUME CustomersOnly PROVE IInv /\ RowInv /\ RouteInv /\ StayInv /\ [Next]_vars => StayInv'
<1>. SUFFICES ASSUME IInv, RowInv, RouteInv, StayInv, [Next]_vars PROVE StayInv'
  OBVIOUS
<1>1. Typed
  BY DEF IInv
<1>2. ASSUME NEW r \in Requests, NEW n, req' = [req EXCEPT ![r] = n], n.purpose # "recovery",
             offers' = offers, reported' = reported
      PROVE  StayInv'
  BY <1>1, <1>2 DEF StayInv, Typed
<1>3. ASSUME NEW r \in Requests, NegotiationStep(r) PROVE StayInv'
  <2>1. req[r] \in Request /\ reported' = reported
    BY <1>1, <1>3 DEF Typed, NegotiationStep, SaveTimes, LoadOrder, Search, Escalate, SaveOffer,
       SaveOffered, Claim, SaveRejection, LoadRejected, SaveRejected
  <2>2. /\ \A x \in Requests \ {r} : req'[x] = req[x]
        /\ req'[r] = Blank \/ req'[r].purpose = req[r].purpose
    BY <1>1, <1>3, <2>1 DEF NegotiationStep, SaveTimes, LoadOrder, Search, Escalate, SaveOffer,
       SaveOffered, Claim, SaveRejection, LoadRejected, SaveRejected, Finished, Typed, Request
  <2>3. \A x \in Requests : req'[x].purpose # "recovery"
    BY <2>2 DEF StayInv, Blank
  <2>4. \A f \in DOMAIN offers' : offers'[f].purpose # "recovery"
    <3>1. CASE SaveOffer(r)
      BY <1>1, <3>1, NewOffer DEF StayInv
    <3>2. CASE Claim(r) \/ SaveRejection(r)
      <4>1. /\ \A f \in DOMAIN offers : offers[f] \in Offer
            /\ DOMAIN offers' = DOMAIN offers /\ req[r].offer \in DOMAIN offers
        BY <1>1, <3>2, OfferFields, RejectsTyped DEF Typed, Placed, Claim, SaveRejection
      <4>2. /\ [offers[req[r].offer] EXCEPT !.column = "rejected"].purpose
                 = offers[req[r].offer].purpose
            /\ [offers[req[r].offer] EXCEPT !.column = "rejected", !.data = "rejected"].purpose
                 = offers[req[r].offer].purpose
        BY <4>1 DEF Offer
      <4>3. ASSUME NEW f \in DOMAIN offers PROVE offers'[f].purpose = offers[f].purpose
        BY <3>2, <4>1, <4>2 DEF Claim, SaveRejection
      <4>. QED
        BY <4>1, <4>3 DEF StayInv
    <3>3. CASE offers' = offers
      BY <3>3 DEF StayInv
    <3>. QED
      BY <1>3, <3>1, <3>2, <3>3 DEF NegotiationStep, SaveTimes, LoadOrder, Search, Escalate,
         SaveOffered, LoadRejected, SaveRejected
  <2>. QED
    BY <2>1, <2>3, <2>4 DEF StayInv
<1>4. ASSUME NEW f \in DOMAIN offers, NEW s \in offers[f].slots, AcceptOffer(f, s)
      PROVE  StayInv'
  <2>1. reported' = reported /\ req' = req
    <3>1. jobs[offers[f].order].day = NoDay
      BY <1>1, <1>4, NothingLeft
    <3>. QED
      BY <1>1, <1>4, <3>1, Acceptance DEF Accepted
  <2>2. ASSUME NEW g \in DOMAIN offers PROVE offers'[g].purpose = offers[g].purpose
    <3>1. offers[g] \in Offer
      BY <1>1, OfferFields
    <3>2. /\ [offers[g] EXCEPT !.column = "closed", !.data = "closed"].purpose
               = offers[g].purpose
          /\ [offers[g] EXCEPT !.column = "accepted", !.data = "accepted",
                               !.accepted = s].purpose = offers[g].purpose
      BY <3>1 DEF Offer
    <3>3. \/ offers'[g] = offers[g]
          \/ offers'[g] = [offers[g] EXCEPT !.column = "closed", !.data = "closed"]
          \/ offers'[g] = [offers[g] EXCEPT !.column = "accepted", !.data = "accepted",
                                            !.accepted = s]
      BY <1>4 DEF AcceptOffer, Answered
    <3>. QED
      BY <3>2, <3>3
  <2>3. DOMAIN offers' = DOMAIN offers
    BY <1>1, <1>4, Answering
  <2>. QED
    BY <2>1, <2>2, <2>3 DEF StayInv
<1>5. ASSUME NEW r \in Requests,
             \/ \E o \in Orders : StartPlan(r, o) \/ StartMessage(r, o) \/ StartTimes(r, o)
             \/ \E f \in DOMAIN offers, next \in {"booking", "alternative"} :
                  StartReject(r, f, next)
      PROVE  StayInv'
  <2>1. /\ offers' = offers /\ reported' = reported
        /\ \A x \in Requests \ {r} : req'[x] = req[x]
        /\ req'[r].purpose # "recovery"
    BY <1>1, <1>5 DEF StartPlan, StartMessage, StartTimes, StartReject, Arrive, Blank, Typed
  <2>. QED
    BY <2>1 DEF StayInv
<1>6. CASE Negotiate
  BY <1>3, <1>4, <1>5, <1>6 DEF Negotiate
<1>7. ASSUME Disrupt PROVE FALSE
  <2>1. ASSUME NEW r \in Requests PROVE ~DisruptionStep(r)
    <3>1. req[r] \in Request /\ Careful(req[r]) /\ ~Coordinating(req[r])
      BY <1>1 DEF Typed, RowInv, RouteInv, Alone, CustomersOnly
    <3>. QED
      BY <3>1 DEF DisruptionStep, SaveReady, Solve, SolveFails, Publish, Advance, SaveOption,
         Coordinating, DayPlaces
  <2>2. \A endpoint \in {"readiness", "replan", "route_plan", "morning_run", "recovery"} :
          endpoint \notin Endpoints
    BY DEF CustomersOnly, CustomerEndpoints
  <2>. QED
    BY <1>7, <2>1, <2>2 DEF Disrupt, StartReadiness, StartReplan, StartStops, StartRecovery,
       Begin
<1>8. CASE Crash
  BY <1>8 DEF Crash, StayInv, Blank
<1>9. CASE UNCHANGED vars
  BY <1>9 DEF vars, StayInv
<1>. QED
  BY <1>6, <1>7, <1>8, <1>9 DEF Next

\* The appointments of the rows, as the abstract specification holds them.
Promises == [o \in Orders |-> Promise(jobs[o])]
ActiveRoutes == [d \in Days |-> Active(d)]

\* A ready customer is routed where and when they were promised to be.
LEMMA RoutesAreStops ==
  ASSUME Typed, RowInv, AllReady, \A d \in Days : Active(d) = Solved(jobs, d)
  PROVE  ActiveRoutes = [d \in Days |-> Promised!Stops(Promises, d)]
<1>. SUFFICES ASSUME NEW d \in Days PROVE Solved(jobs, d) = Promised!Stops(Promises, d)
  BY DEF ActiveRoutes
<1>1. ASSUME NEW o \in Orders
      PROVE  /\ o \in RoutableJobs(jobs, d) <=>
                  Promises[o] # <<NoDay, NoWindow>> /\ Promises[o][1] = d
             /\ o \in RoutableJobs(jobs, d) => Promises[o][2] = jobs[o].window
  <2>1. jobs[o] \in Job /\ jobs[o].ready /\ Promises[o] = Promise(jobs[o])
    BY DEF Typed, AllReady, Promises
  <2>2. CASE Bound(jobs[o])
    <3>1. Promises[o] = <<jobs[o].day, jobs[o].window>>
      BY <2>1, <2>2, FreeOrBound DEF Promise
    <3>2. jobs[o].day # NoDay
      BY <2>1, <2>2, FreeOrBound, BookingAssumption
    <3>. QED
      BY <2>1, <2>2, <3>1, <3>2 DEF Bound, RoutableJobs, RoutableStatuses, LockedStatuses
  <2>3. CASE Free(jobs[o])
    <3>1. Promises[o] = <<NoDay, NoWindow>>
      BY <2>1, <2>3, FreeOrBound DEF Promise
    <3>. QED
      BY <2>3, <3>1 DEF Free, RoutableJobs, RoutableStatuses, LockedStatuses
  <2>. QED
    BY <2>2, <2>3 DEF RowInv
<1>2. RoutableJobs(jobs, d) =
        {o \in Orders : Promises[o] # <<NoDay, NoWindow>> /\ Promises[o][1] = d}
  BY <1>1 DEF RoutableJobs
<1>3. \A o \in RoutableJobs(jobs, d) : Promises[o][2] = jobs[o].window
  BY <1>1 DEF RoutableJobs
<1>. QED
  BY <1>2, <1>3 DEF Solved, Promised!Stops

\* What holds between two steps when only customers use the system.
CustomerInv == IInv /\ RowInv /\ RouteInv /\ MatchInv /\ StayInv

LEMMA CustomerRoutes ==
  ASSUME CustomersOnly, CustomerInv
  PROVE  ActiveRoutes = [d \in Days |-> Promised!Stops(Promises, d)]
<1>1. \A r \in Requests : ~Coordinating(req[r])
  BY DEF CustomerInv, RouteInv, Alone, CustomersOnly
<1>2. \A d \in Days : ~Rebuilding(d) /\ d \notin reported
  BY <1>1 DEF Rebuilding, InFlight, Coordinating, DayPlaces, CustomerInv, StayInv
<1>3. \A d \in Days : Active(d) = Solved(jobs, d)
  BY <1>2 DEF CustomerInv, MatchInv, RoutesMatchPromises
<1>4. AllReady
  BY DEF CustomerInv, MatchInv, ReadyOrSolved, CustomersOnly, CustomerEndpoints
<1>. QED
  BY <1>3, <1>4, RoutesAreStops DEF CustomerInv, IInv

\* With customers only, moreover, no recovery offer is made and nothing is reported, so
\* that the routes match the promises at every step (offer_service.accept_offer).
THEOREM CustomerInvariance == ASSUME CustomersOnly PROVE Spec => []CustomerInv
<1>0. NothingLost
  BY DEF CustomersOnly, NothingLost, OneCoordinator, CustomerEndpoints
<1>1. Init => StayInv
  BY InitStays
<1>2. IInv /\ RowInv /\ RouteInv /\ StayInv /\ [Next]_vars => StayInv'
  BY NextStays
<1>. QED
  BY <1>0, <1>1, <1>2, MatchInvariance, PTL DEF Spec, CustomerInv

\* While only customers use the system, every behaviour of the rows and routes is one
\* of Appointments: each accept_offer makes one appointment and its route in one step,
\* and whatever else any interleaving of the endpoints does shows in neither
\* (offer_service.accept_offer, BEGIN IMMEDIATE).
THEOREM AppointmentsKept == ASSUME CustomersOnly PROVE Spec => KeepsAppointments
<1>1. Init => Promised!Init
  <2>. SUFFICES ASSUME Init PROVE Promised!Init
    OBVIOUS
  <2>0. NothingLost
    BY DEF CustomersOnly, NothingLost, OneCoordinator, CustomerEndpoints
  <2>1. CustomerInv
    BY InitIInv, InitRows, InitRoutes, InitMatches, InitStays DEF CustomerInv
  <2>2. ActiveRoutes = [d \in Days |-> Promised!Stops(Promises, d)]
    BY <2>1, CustomerRoutes
  <2>3. Promises \in [Orders -> (Days \X Windows) \cup {<<NoDay, NoWindow>>}]
    <3>1. ASSUME NEW o \in Orders
          PROVE  Promise(jobs[o]) \in (Days \X Windows) \cup {<<NoDay, NoWindow>>}
      <4>1. jobs[o] \in Job /\ (Free(jobs[o]) \/ Bound(jobs[o]))
        BY <2>1 DEF CustomerInv, IInv, Typed, RowInv
      <4>. QED
        BY <4>1, FreeOrBound DEF Promise
    <3>. QED
      BY <3>1 DEF Promises
  <2>. QED
    BY <2>2, <2>3 DEF Promised!Init, Promises, ActiveRoutes
<1>2. CustomerInv /\ CustomerInv' /\ [Next]_vars => [Promised!Next]_(Promised!vars)
  <2>. SUFFICES ASSUME CustomerInv, CustomerInv', [Next]_vars
                PROVE  [Promised!Next]_(Promised!vars)
    OBVIOUS
  <2>1. ActiveRoutes = [d \in Days |-> Promised!Stops(Promises, d)]
    BY CustomerRoutes
  <2>2. ActiveRoutes' = [d \in Days |-> Promised!Stops(Promises', d)]
    <3>1. (CustomersOnly /\ CustomerInv =>
             ActiveRoutes = [d \in Days |-> Promised!Stops(Promises, d)])'
      BY CustomerRoutes, PTL
    <3>. QED
      BY <3>1
  <2>3. Typed /\ Typed' /\ RowInv /\ RouteInv
    BY DEF CustomerInv, IInv
  <2>4. ASSUME NEW f \in DOMAIN offers, NEW s \in offers[f].slots, AcceptOffer(f, s)
        PROVE  Promised!Next
    <3>. DEFINE o == offers[f].order
    <3>1. /\ o \in Orders /\ s \in OfferedSlot /\ s.day \in Days /\ s.window \in Windows
          /\ jobs'[o].day = s.day /\ jobs'[o].window = s.window
          /\ jobs'[o].status = "confirmed" /\ jobs'[o].window \in Windows
          /\ \A x \in Orders \ {o} : jobs'[x] = jobs[x]
      BY <2>3, <2>4, Acceptance DEF Accepted, OfferedSlot
    <3>2. Promise(jobs'[o]) = <<s.day, s.window>>
      BY <3>1, BookingAssumption DEF Promise, Locked, LockedStatuses
    <3>. HIDE DEF o
    <3>3. Promises' = [Promises EXCEPT ![o] = <<s.day, s.window>>]
      BY <3>1, <3>2 DEF Promises
    <3>4. Promised!Confirm(o, s.day, s.window)
      BY <2>2, <3>3 DEF Promised!Confirm, Promises, ActiveRoutes
    <3>. QED
      BY <3>1, <3>4 DEF Promised!Next
  <2>5. ASSUME ~(\E f \in DOMAIN offers : \E s \in offers[f].slots : AcceptOffer(f, s))
        PROVE  UNCHANGED Promised!vars
    <3>1. \A o \in Orders : Promise(jobs'[o]) = Promise(jobs[o])
      BY <2>3, <2>5, RowEdits, EditedKeeps
    <3>2. Promises' = Promises
      BY <3>1 DEF Promises
    <3>3. ActiveRoutes' = ActiveRoutes
      BY <2>1, <2>2, <3>2
    <3>. QED
      BY <3>2, <3>3 DEF Promised!vars, Promises, ActiveRoutes
  <2>. QED
    BY <2>4, <2>5
<1>. QED
  BY <1>1, <1>2, CustomerInvariance, PTL DEF Spec, KeepsAppointments, Promised!Spec
=============================================================================
