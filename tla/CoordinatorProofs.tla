-------------------------- MODULE CoordinatorProofs --------------------------
(***************************************************************************)
(* What holds of Coordinator in every environment: any customers, dates    *)
(* and threads, requests overlapping as they may, customers with an        *)
(* appointment asking for another one.  The rows keep their types because  *)
(* every copy a handler will save does (Placed), and an answer is final    *)
(* because a claim is a conditional UPDATE of a column that never returns  *)
(* to "sent" (Answers, Claimed).                                           *)
(***************************************************************************)
EXTENDS Coordinator, SequenceTheorems, TLAPS

AskingPlaces == {"save_times", "load", "search", "save_offer", "save_offered",
                 "claim", "save_rejection", "load_rejected", "save_rejected"}
DayPlaces == {"solve", "publish", "advance"}
CopyPlaces == {"save_times", "search", "save_offer", "save_offered", "save_rejected",
               "save_ready", "save_option"}
Places == AskingPlaces \cup DayPlaces \cup {"idle", "save_ready", "save_option"}

Rows == UNION {[S -> Job] : S \in SUBSET Orders}

Request == [pc : Places, order : Orders \cup {NoOrder},
            purpose : {"booking", "alternative", "recovery"}, offer : Nat,
            copy : Job \cup {Nobody}, slots : SUBSET OfferedSlot,
            day : Days \cup {NoDay}, route : Routes, snapshot : Rows,
            stops : SUBSET Orders, target : {"confirmed", "sequenced", "dispatched"}]

\* What a request in flight holds, by where it is in its handler.
Placed(q) ==
  /\ q.pc \in AskingPlaces \cup {"save_ready", "save_option"} => q.order \in Orders
  /\ q.pc \in CopyPlaces => q.copy \in Job
  /\ q.pc \in {"claim", "save_rejection"} => q.offer \in DOMAIN offers
  /\ q.pc \in DayPlaces => q.day \in Days

Typed ==
  /\ jobs \in [Orders -> Job]
  /\ offers \in Seq(Offer)
  /\ history \in [Days -> Seq(Routes)]
  /\ req \in [Requests -> Request]
  /\ \A r \in Requests : Placed(req[r])

\* The status column and the stored object agree on acceptance, and an offer whose
\* column was not yet claimed is stored as sent.
Answers ==
  \A f \in DOMAIN offers :
    /\ offers[f].column = "accepted" <=> offers[f].data = "accepted"
    /\ offers[f].column = "sent" => offers[f].data = "sent"

\* Whoever is about to store a rejection has won the column.
Claimed ==
  \A r \in Requests : req[r].pc = "save_rejection" =>
    offers[req[r].offer].column \in {"rejected", "closed"}

IInv == Typed /\ Answers /\ Claimed

-----------------------------------------------------------------------------
\* Rows, routes and requests.

\* A route re-solved from rows that load visits its stops inside their windows.
LEMMA SolvedIsRoute ==
  ASSUME NEW table \in [Orders -> Job], NEW d, DayLoads(table, d)
  PROVE  /\ Solved(table, d) \in Routes
         /\ DOMAIN Solved(table, d) = RoutableJobs(table, d)
         /\ \A o \in RoutableJobs(table, d) : Solved(table, d)[o] = table[o].window
<1>1. \A o \in RoutableJobs(table, d) : o \in Orders /\ table[o].window \in Windows
  BY DEF RoutableJobs, DayLoads, Loads, Job, RoutableStatuses, LockedStatuses
<1>2. Solved(table, d) \in [RoutableJobs(table, d) -> Windows]
  BY <1>1 DEF Solved
<1>3. RoutableJobs(table, d) \in SUBSET Orders
  BY DEF RoutableJobs
<1>. QED
  BY <1>2, <1>3 DEF Solved, Routes

LEMMA EmptyIsRoute == EmptyRoute \in Routes /\ DOMAIN EmptyRoute = {}
<1>1. EmptyRoute \in [{} -> Windows]
  BY DEF EmptyRoute
<1>. QED
  BY <1>1 DEF Routes, EmptyRoute

\* The active route of a date is one that was published, or empty.
LEMMA ActiveIsRoute ==
  ASSUME Typed, NEW d \in Days
  PROVE  /\ Active(d) \in Routes
         /\ DOMAIN Active(d) \subseteq Orders
<1>1. history[d] \in Seq(Routes)
  BY DEF Typed
<1>2. Active(d) \in Routes
  BY <1>1, EmptyIsRoute DEF Active
<1>. QED
  BY <1>2 DEF Routes

\* Publishing makes the route the active one, as a new version or as the same.
LEMMA PublishedIs ==
  ASSUME NEW h \in Seq(Routes), NEW route \in Routes, NEW g \in Published(h, route)
  PROVE  /\ g \in Seq(Routes)
         /\ g # << >>
         /\ g[Len(g)] = route
         /\ g = h \/ g = Append(h, route)
  BY DEF Published

LEMMA BlankIsRequest == Blank \in Request /\ Placed(Blank)
<1>1. Nobody \in Rows
  <2>1. Nobody \in [{} -> Job]
    BY DEF Nobody
  <2>. QED
    BY <2>1 DEF Rows
<1>2. Blank \in Request
  BY <1>1, EmptyIsRoute DEF Blank, Request, Places
<1>. QED
  BY <1>2 DEF Blank, Placed, AskingPlaces, CopyPlaces, DayPlaces

\* Offers are numbered from one, and each has its fields.
LEMMA OfferFields ==
  ASSUME Typed, NEW f \in DOMAIN offers
  PROVE  /\ f \in Nat /\ DOMAIN offers = 1..Len(offers) /\ Len(offers) \in Nat
         /\ offers[f] \in Offer
         /\ offers[f].order \in Orders
         /\ offers[f].slots \subseteq OfferedSlot
<1>1. offers \in Seq(Offer)
  BY DEF Typed
<1>2. offers[f] \in Offer /\ f \in Nat /\ DOMAIN offers = 1..Len(offers) /\ Len(offers) \in Nat
  BY <1>1
<1>. QED
  BY <1>2 DEF Offer

-----------------------------------------------------------------------------
\* Types: one lemma per kind of step.

LEMMA InitTyped == Init => Typed
<1>. SUFFICES ASSUME Init PROVE Typed
  OBVIOUS
<1>1. jobs \in [Orders -> Job]
  BY BookingAssumption DEF Init, Job, PlanningStatus
<1>2. \A o \in Orders : Loads(jobs[o])
  <2>. TAKE o \in Orders
  <2>1. CASE o \in DOMAIN Held
    <3>1. jobs[o].status = "confirmed" /\ jobs[o].day \in Days /\ jobs[o].window \in Windows
      BY <2>1, BookingAssumption DEF Init
    <3>. QED
      BY <3>1, BookingAssumption DEF Loads, LockedStatuses
  <2>2. CASE o \notin DOMAIN Held
    BY <2>2 DEF Init, Loads, LockedStatuses
  <2>. QED
    BY <2>1, <2>2
<1>3. history \in [Days -> Seq(Routes)]
  <2>1. \A d \in Days : Solved(jobs, d) \in Routes
    BY <1>1, <1>2, SolvedIsRoute DEF DayLoads
  <2>2. history = [d \in Days |->
          IF RoutableJobs(jobs, d) = {} THEN << >> ELSE << Solved(jobs, d) >>]
    BY DEF Init
  <2>. QED
    BY <2>1, <2>2
<1>4. req \in [Requests -> Request] /\ \A r \in Requests : Placed(req[r])
  BY BlankIsRequest DEF Init
<1>5. offers \in Seq(Offer)
  BY DEF Init
<1>. QED
  BY <1>1, <1>3, <1>4, <1>5 DEF Typed

\* A request ends.
LEMMA FinishTyped ==
  ASSUME Typed, NEW r \in Requests, Finished(r)
  PROVE  /\ req' \in [Requests -> Request]
         /\ DOMAIN offers \subseteq DOMAIN offers' => (\A q \in Requests : Placed(req[q]))'
<1>1. req'[r] = Blank /\ \A q \in Requests \ {r} : req'[q] = req[q]
  BY DEF Typed, Finished
<1>2. req' \in [Requests -> Request]
  BY BlankIsRequest DEF Typed, Finished
<1>. QED
  BY <1>1, <1>2 DEF Typed, Placed, Blank, AskingPlaces, CopyPlaces, DayPlaces

\* A request goes on to the fields q.
LEMMA MoveTyped ==
  ASSUME Typed, NEW r \in Requests, NEW q \in Request, Placed(q),
         req' = [req EXCEPT ![r] = q], UNCHANGED <<offers, history>>,
         jobs' \in [Orders -> Job]
  PROVE  Typed'
  BY DEF Typed, Placed

LEMMA StartsTyped ==
  ASSUME Typed, NEW r \in Requests, NEW o \in Orders,
         StartPlan(r, o) \/ StartMessage(r, o) \/ StartTimes(r, o)
  PROVE  Typed'
<1>. USE DEF Typed
<1>1. ASSUME Arrive(r, o, "booking") PROVE Typed'
  <2>. DEFINE q == [Blank EXCEPT !.pc = "load", !.order = o, !.purpose = "booking"]
  <2>1. q \in Request
    BY BlankIsRequest DEF Request, Places, AskingPlaces
  <2>2. Placed(q)
    BY DEF Placed, Blank, CopyPlaces, DayPlaces
  <2>. HIDE DEF q
  <2>. QED
    BY <1>1, <2>1, <2>2, MoveTyped DEF Arrive, q
<1>2. ASSUME StartTimes(r, o) PROVE Typed'
  <2>. DEFINE q == [Blank EXCEPT !.pc = "save_times", !.order = o, !.copy = jobs[o]]
  <2>1. q \in Request
    BY BlankIsRequest DEF Request, Places, AskingPlaces
  <2>2. Placed(q)
    BY DEF Placed, Blank, CopyPlaces, DayPlaces
  <2>. HIDE DEF q
  <2>. QED
    BY <1>2, <2>1, <2>2, MoveTyped DEF StartTimes, q
<1>. QED
  BY <1>1, <1>2 DEF StartPlan, StartMessage

LEMMA StartRejectTyped ==
  ASSUME Typed, NEW r \in Requests, NEW f \in DOMAIN offers,
         NEW next \in {"booking", "alternative"}, StartReject(r, f, next)
  PROVE  Typed'
<1>. DEFINE q == [Blank EXCEPT !.pc = "claim", !.order = offers[f].order, !.offer = f,
                               !.purpose = next]
<1>1. offers[f].order \in Orders /\ f \in Nat
  BY OfferFields
<1>2. q \in Request
  BY <1>1, BlankIsRequest DEF Request, Places, AskingPlaces
<1>3. Placed(q)
  BY <1>1 DEF Placed, Blank, CopyPlaces, DayPlaces
<1>. HIDE DEF q
<1>. QED
  BY <1>2, <1>3, MoveTyped DEF StartReject, Typed, q

\* The steps of a request that write nothing but their own place and copies.
LEMMA ReadsTyped ==
  ASSUME Typed, NEW r \in Requests,
         LoadOrder(r) \/ Search(r) \/ Escalate(r) \/ LoadRejected(r)
  PROVE  Typed'
<1>. DEFINE q == req[r]
<1>1. q \in Request /\ Placed(q)
  BY DEF Typed
<1>2. ASSUME NEW p \in {"search", "save_rejected"}, q.order \in Orders,
             NEW c, c = jobs[q.order],
             req' = [req EXCEPT ![r].pc = p, ![r].copy = c],
             UNCHANGED <<jobs, offers, history>>
      PROVE  Typed'
  <2>. DEFINE n == [q EXCEPT !.pc = p, !.copy = c]
  <2>1. n \in Request /\ Placed(n)
    BY <1>1, <1>2 DEF Typed, Request, Placed, Places, AskingPlaces, CopyPlaces, DayPlaces
  <2>2. req' = [req EXCEPT ![r] = n]
    BY <1>2
  <2>. QED
    BY <2>1, <2>2, <1>2, MoveTyped DEF Typed
<1>3. ASSUME Finished(r), UNCHANGED <<jobs, offers, history>> PROVE Typed'
  BY <1>3, FinishTyped DEF Typed
<1>4. CASE LoadOrder(r)
  BY <1>1, <1>2, <1>3, <1>4 DEF LoadOrder, Placed, AskingPlaces
<1>5. CASE LoadRejected(r)
  BY <1>1, <1>2, <1>3, <1>5 DEF LoadRejected, Placed, AskingPlaces
<1>6. CASE Escalate(r)
  BY <1>3, <1>6 DEF Escalate
<1>7. CASE Search(r)
  <2>1. PICK slots \in Choices(r) :
          req' = [req EXCEPT ![r].pc = "save_offer", ![r].slots = slots]
    BY <1>7 DEF Search
  <2>2. slots \subseteq OfferedSlot
    <3>1. Insertions \subseteq OfferedSlot
      BY DEF Insertions
    <3>2. \A o, u : Evaluated(o, u) \subseteq OfferedSlot
      BY DEF Evaluated
    <3>. QED
      BY <2>1, <3>1, <3>2, <1>1 DEF Choices, Request
  <2>. DEFINE n == [q EXCEPT !.pc = "save_offer", !.slots = slots]
  <2>3. q.pc = "search"
    BY <1>7 DEF Search
  <2>4. n \in Request /\ Placed(n)
    BY <1>1, <2>2, <2>3 DEF Request, Placed, Places, AskingPlaces, CopyPlaces, DayPlaces
  <2>5. req' = [req EXCEPT ![r] = n]
    BY <2>1
  <2>. QED
    BY <2>4, <2>5, <1>7, MoveTyped DEF Search, Typed
<1>. QED
  BY <1>4, <1>5, <1>6, <1>7

\* The steps that save the row a request has read.
LEMMA SavesTyped ==
  ASSUME Typed, NEW r \in Requests,
         \/ SaveTimes(r) \/ SaveOffered(r) \/ SaveRejected(r)
         \/ SaveReady(r) \/ SaveOption(r)
  PROVE  Typed'
<1>. DEFINE q == req[r]
<1>1. q \in Request /\ Placed(q)
  BY DEF Typed
<1>2. q.order \in Orders /\ q.copy \in Job
  BY <1>1 DEF SaveTimes, SaveOffered, SaveRejected, SaveReady, SaveOption, Placed,
              AskingPlaces, CopyPlaces
<1>3. jobs' \in [Orders -> Job]
  <2>1. ASSUME NEW c \in Job, jobs' = [jobs EXCEPT ![q.order] = c]
        PROVE  jobs' \in [Orders -> Job]
    BY <2>1, <1>2 DEF Typed
  <2>2. /\ [q.copy EXCEPT !.status = "offered"] \in Job
        /\ [q.copy EXCEPT !.status = "pending_planning"] \in Job
    BY <1>2 DEF Job, PlanningStatus
  <2>. QED
    BY <1>2, <2>1, <2>2 DEF SaveTimes, SaveOffered, SaveRejected, SaveReady, SaveOption
<1>4. ASSUME NEW p \in {"load", "solve", "search"},
             p \in {"load", "search"} \/ q.day # NoDay,
             req' = [req EXCEPT ![r].pc = p], UNCHANGED <<offers, history>>
      PROVE  Typed'
  <2>. DEFINE n == [q EXCEPT !.pc = p]
  <2>1. n \in Request /\ Placed(n)
    BY <1>1, <1>2, <1>4 DEF Request, Placed, Places, AskingPlaces, CopyPlaces, DayPlaces
  <2>2. req' = [req EXCEPT ![r] = n]
    BY <1>4
  <2>. QED
    BY <2>1, <2>2, <1>3, <1>4, MoveTyped
<1>5. ASSUME Finished(r), UNCHANGED <<offers, history>> PROVE Typed'
  BY <1>3, <1>5, FinishTyped DEF Typed
<1>. QED
  BY <1>4, <1>5 DEF SaveTimes, SaveOffered, SaveRejected, SaveReady, SaveOption

LEMMA SaveOfferTyped ==
  ASSUME Typed, NEW r \in Requests, SaveOffer(r)
  PROVE  Typed'
<1>. DEFINE q == req[r]
            new == [order |-> q.order, purpose |-> q.purpose, slots |-> q.slots,
                    column |-> "sent", data |-> "sent", accepted |-> NoSlot]
<1>1. q \in Request /\ Placed(q) /\ q.pc = "save_offer"
  BY DEF Typed, SaveOffer
<1>2. new \in Offer
  BY <1>1 DEF Request, Placed, AskingPlaces, Offer, OfferStatus
<1>3. offers' \in Seq(Offer) /\ DOMAIN offers \subseteq DOMAIN offers'
  <2>1. offers \in Seq(Offer) /\ offers' = Append(offers, new)
    BY DEF Typed, SaveOffer
  <2>. HIDE DEF new
  <2>. QED
    BY <2>1, <1>2
<1>4. req' \in [Requests -> Request] /\ (\A x \in Requests : Placed(req[x]))'
  <2>1. CASE Finished(r)
    BY <2>1, <1>3, FinishTyped
  <2>2. CASE req' = [req EXCEPT ![r].pc = "save_offered"]
    <3>1. /\ \A x \in Requests \ {r} : req'[x] = req[x]
          /\ req'[r] = [q EXCEPT !.pc = "save_offered"]
          /\ req' \in [Requests -> Request]
      BY <2>2, <1>1 DEF Typed, Request, Places, AskingPlaces
    <3>2. \A x \in Requests \ {r} : Placed(req[x])'
      BY <3>1, <1>3 DEF Typed, Placed
    <3>3. Placed(req[r])'
      BY <3>1, <1>1 DEF Request, Placed, Places, AskingPlaces, CopyPlaces, DayPlaces
    <3>. QED
      BY <3>1, <3>2, <3>3
  <2>. QED
    BY <2>1, <2>2 DEF SaveOffer
<1>. QED
  BY <1>3, <1>4 DEF Typed, SaveOffer

\* A claim and a rejection rewrite statuses of one offer.
LEMMA RejectsTyped ==
  ASSUME Typed, NEW r \in Requests, Claim(r) \/ SaveRejection(r)
  PROVE  Typed' /\ DOMAIN offers' = DOMAIN offers
<1>. DEFINE q == req[r]
            f == q.offer
<1>1. q \in Request /\ Placed(q) /\ q.pc \in {"claim", "save_rejection"} /\ f \in DOMAIN offers
  BY DEF Typed, Claim, SaveRejection, Placed
<1>2. offers' \in Seq(Offer) /\ DOMAIN offers' = DOMAIN offers
  <2>1. offers \in Seq(Offer) /\ offers[f] \in Offer
    BY <1>1, OfferFields DEF Typed
  <2>2. ASSUME NEW n \in Offer, offers' = [offers EXCEPT ![f] = n]
        PROVE  offers' \in Seq(Offer) /\ DOMAIN offers' = DOMAIN offers
    BY <2>1, <2>2, <1>1
  <2>3. /\ [offers[f] EXCEPT !.column = "rejected"] \in Offer
        /\ [offers[f] EXCEPT !.column = "rejected", !.data = "rejected"] \in Offer
    BY <2>1 DEF Offer, OfferStatus
  <2>4. \/ offers' = offers
        \/ offers' = [offers EXCEPT ![f] = [offers[f] EXCEPT !.column = "rejected"]]
        \/ offers' = [offers EXCEPT ![f] =
                        [offers[f] EXCEPT !.column = "rejected", !.data = "rejected"]]
    BY <2>1 DEF Claim, SaveRejection
  <2>. QED
    BY <2>1, <2>2, <2>3, <2>4
<1>3. PICK p \in {"save_rejection", "load", "load_rejected"} : req' = [req EXCEPT ![r].pc = p]
  BY DEF Claim, SaveRejection
<1>4. req' \in [Requests -> Request] /\ (\A x \in Requests : Placed(req[x]))'
  <2>1. /\ \A x \in Requests \ {r} : req'[x] = req[x]
        /\ req'[r] = [q EXCEPT !.pc = p]
        /\ req' \in [Requests -> Request]
    BY <1>3, <1>1 DEF Typed, Request, Places, AskingPlaces
  <2>2. \A x \in Requests \ {r} : Placed(req[x])'
    BY <2>1, <1>2 DEF Typed, Placed
  <2>3. Placed(req[r])'
    BY <2>1, <1>1, <1>2 DEF Request, Placed, Places, AskingPlaces, CopyPlaces, DayPlaces
  <2>. QED
    BY <2>1, <2>2, <2>3
<1>. QED
  BY <1>2, <1>4 DEF Typed, Claim, SaveRejection

\* The coordinator's requests start on rows that load.
LEMMA BeginTyped ==
  ASSUME Typed, NEW r \in Requests, NEW endpoint, NEW q \in Request, Placed(q),
         Begin(r, endpoint, q)
  PROVE  Typed'
  BY MoveTyped DEF Begin, Typed

LEMMA CoordinatorStartsTyped ==
  ASSUME Typed, NEW r \in Requests,
         \/ \E o \in Orders, ready \in BOOLEAN : StartReadiness(r, o, ready)
         \/ \E d \in Days : StartReplan(r, d)
         \/ \E d \in Days : StartStops(r, d, "route_plan", "sequenced")
         \/ \E d \in Days : StartStops(r, d, "morning_run", "dispatched")
         \/ \E o \in Orders, d \in Days : StartRecovery(r, o, d)
  PROVE  Typed'
<1>1. ASSUME NEW o \in Orders, NEW ready \in BOOLEAN, StartReadiness(r, o, ready)
      PROVE  Typed'
  <2>. DEFINE c == [jobs[o] EXCEPT !.ready = ready]
              day == IF jobs[o].ready = ready THEN NoDay ELSE jobs[o].day
              q == [Blank EXCEPT !.pc = "save_ready", !.order = o, !.copy = c, !.day = day]
  <2>1. c \in Job /\ day \in Days \cup {NoDay}
    BY DEF Typed, Job
  <2>2. q \in Request /\ Placed(q)
    BY <2>1, BlankIsRequest DEF Request, Places, Placed, Blank, AskingPlaces, CopyPlaces, DayPlaces
  <2>. QED
    BY <1>1, <2>2, BeginTyped DEF StartReadiness
<1>2. ASSUME NEW d \in Days, StartReplan(r, d) PROVE Typed'
  <2>. DEFINE q == [Blank EXCEPT !.pc = "solve", !.day = d]
  <2>1. q \in Request /\ Placed(q)
    BY BlankIsRequest DEF Request, Places, Placed, Blank, AskingPlaces, CopyPlaces, DayPlaces
  <2>. QED
    BY <1>2, <2>1, BeginTyped DEF StartReplan
<1>3. ASSUME NEW d \in Days, NEW endpoint, NEW target \in {"sequenced", "dispatched"},
             StartStops(r, d, endpoint, target)
      PROVE  Typed'
  <2>. DEFINE rows == [o \in RoutableJobs(jobs, d) |-> jobs[o]]
              q == [Blank EXCEPT !.pc = "solve", !.day = d, !.target = target,
                                 !.snapshot = rows]
  <2>1. rows \in Rows
    <3>1. RoutableJobs(jobs, d) \in SUBSET Orders
      BY DEF RoutableJobs
    <3>2. rows \in [RoutableJobs(jobs, d) -> Job]
      BY <3>1 DEF Typed
    <3>. QED
      BY <3>1, <3>2 DEF Rows
  <2>. HIDE DEF rows
  <2>2. q \in Request /\ Placed(q)
    BY <2>1, BlankIsRequest DEF Request, Places, Placed, Blank, AskingPlaces, CopyPlaces, DayPlaces
  <2>. QED
    BY <1>3, <2>2, BeginTyped DEF StartStops, rows
<1>4. ASSUME NEW o \in Orders, NEW d \in Days, StartRecovery(r, o, d) PROVE Typed'
  <2>1. PICK p \in {"save_option", "search"} :
          Begin(r, "recovery", [Blank EXCEPT !.pc = p, !.order = o, !.copy = jobs[o],
                                             !.purpose = "recovery", !.day = d])
    BY <1>4 DEF StartRecovery
  <2>. DEFINE q == [Blank EXCEPT !.pc = p, !.order = o, !.copy = jobs[o],
                                 !.purpose = "recovery", !.day = d]
  <2>2. q \in Request /\ Placed(q)
    BY BlankIsRequest DEF Typed, Request, Places, Placed, Blank, AskingPlaces, CopyPlaces, DayPlaces
  <2>. QED
    BY <2>1, <2>2, BeginTyped
<1>. QED
  BY <1>1, <1>2, <1>3, <1>4

LEMMA SolveTyped ==
  ASSUME Typed, NEW r \in Requests, Solve(r) \/ SolveFails(r)
  PROVE  Typed'
<1>. DEFINE q == req[r]
            n == [q EXCEPT !.pc = "publish", !.route = Solved(jobs, q.day)]
<1>1. q \in Request /\ Placed(q) /\ q.pc = "solve" /\ jobs \in [Orders -> Job]
  BY DEF Typed, Solve, SolveFails
<1>2. CASE Finished(r)
  BY <1>2, FinishTyped DEF Typed, Solve, SolveFails
<1>3. CASE ~Finished(r)
  <2>1. DayLoads(jobs, q.day) /\ req' = [req EXCEPT ![r] = n]
    BY <1>3 DEF Solve, SolveFails
  <2>2. Solved(jobs, q.day) \in Routes
    BY <1>1, <2>1, SolvedIsRoute
  <2>3. n \in Request /\ Placed(n)
    BY <1>1, <2>2 DEF Request, Placed, Places, AskingPlaces, CopyPlaces, DayPlaces
  <2>. HIDE DEF n
  <2>. QED
    BY <2>1, <2>3, <1>1, <1>3, MoveTyped DEF Solve, SolveFails, Typed
<1>. QED
  BY <1>2, <1>3

LEMMA PublishTyped ==
  ASSUME Typed, NEW r \in Requests, Publish(r)
  PROVE  Typed'
<1>. DEFINE q == req[r]
            n == [q EXCEPT !.pc = "advance", !.stops = DOMAIN q.route]
<1>1. q \in Request /\ Placed(q) /\ q.pc = "publish" /\ q.day \in Days /\ q.route \in Routes
  BY DEF Typed, Publish, Placed, DayPlaces, Request
<1>2. history' \in [Days -> Seq(Routes)]
  <2>1. PICK h \in Published(history[q.day], q.route) : history' = [history EXCEPT ![q.day] = h]
    BY DEF Publish
  <2>2. history[q.day] \in Seq(Routes)
    BY <1>1 DEF Typed
  <2>3. h \in Seq(Routes)
    BY <2>1, <2>2, <1>1, PublishedIs
  <2>. QED
    BY <2>1, <2>3 DEF Typed
<1>3. req' \in [Requests -> Request] /\ (\A x \in Requests : Placed(req[x]))'
  <2>1. CASE Finished(r)
    BY <2>1, FinishTyped DEF Publish
  <2>2. CASE ~Finished(r)
    <3>1. DOMAIN q.route \subseteq Orders
      BY <1>1 DEF Routes
    <3>2. n \in Request /\ Placed(n)
      BY <1>1, <3>1 DEF Request, Placed, Places, AskingPlaces, CopyPlaces, DayPlaces
    <3>3. req' = [req EXCEPT ![r] = n]
      BY <2>2 DEF Publish
    <3>. HIDE DEF n
    <3>. QED
      BY <3>2, <3>3 DEF Typed, Publish, Placed
  <2>. QED
    BY <2>1, <2>2
<1>. QED
  BY <1>2, <1>3 DEF Typed, Publish

LEMMA AdvanceTyped ==
  ASSUME Typed, NEW r \in Requests, Advance(r)
  PROVE  Typed'
<1>. DEFINE q == req[r]
            row == q.snapshot
<1>1. q \in Request /\ Placed(q) /\ q.pc = "advance" /\ row \in Rows
  BY DEF Typed, Advance, Request
<1>2. PICK o \in q.stops :
        /\ \/ jobs' = jobs
           \/ o \in DOMAIN row /\ jobs' = [jobs EXCEPT ![o] = [row[o] EXCEPT !.status = q.target]]
        /\ \/ Finished(r)
           \/ req' = [req EXCEPT ![r].stops = @ \ {o}]
  BY DEF Advance
<1>3. jobs' \in [Orders -> Job]
  <2>1. o \in DOMAIN row => [row[o] EXCEPT !.status = q.target] \in Job
    <3>1. o \in DOMAIN row => row[o] \in Job
      BY <1>1 DEF Rows
    <3>2. q.target \in PlanningStatus
      BY <1>1 DEF Request, PlanningStatus
    <3>. QED
      BY <3>1, <3>2 DEF Job
  <2>. HIDE DEF q, row
  <2>. QED
    BY <1>2, <2>1 DEF Typed
<1>4. CASE Finished(r)
  BY <1>3, <1>4, FinishTyped DEF Typed, Advance
<1>5. CASE req' = [req EXCEPT ![r].stops = @ \ {o}]
  <2>. DEFINE n == [q EXCEPT !.stops = @ \ {o}]
  <2>1. n \in Request /\ Placed(n)
    BY <1>1 DEF Request, Placed, Places, AskingPlaces, CopyPlaces, DayPlaces
  <2>2. req' = [req EXCEPT ![r] = n]
    BY <1>5
  <2>. HIDE DEF n
  <2>. QED
    BY <2>1, <2>2, <1>3, MoveTyped DEF Advance
<1>. QED
  BY <1>2, <1>4, <1>5

LEMMA CrashTyped == ASSUME Typed, Crash PROVE Typed'
  BY BlankIsRequest DEF Typed, Crash, Placed, Blank, AskingPlaces, CopyPlaces, DayPlaces

\* The tested route with one more stop is a route, and what it visits.
LEMMA ExtendedIsRoute ==
  ASSUME Typed, NEW o \in Orders, NEW d \in Days, NEW table \in [Orders -> Job],
         table[o].window # NoWindow
  PROVE  /\ Extended(table, o, d) \in Routes
         /\ DOMAIN Extended(table, o, d) = DOMAIN Active(d) \cup {o}
<1>. DEFINE S == DOMAIN Active(d) \cup {o}
            E == Extended(table, o, d)
<1>1. Active(d) \in Routes /\ S \in SUBSET Orders
  BY ActiveIsRoute
<1>2. ASSUME NEW x \in S
      PROVE  (IF table[x].window # NoWindow THEN table[x].window ELSE Active(d)[x]) \in Windows
  <2>1. x \in Orders /\ table[x].window \in Windows \cup {NoWindow}
    BY <1>1 DEF Job
  <2>2. x # o => Active(d)[x] \in Windows
    BY <1>1 DEF Routes
  <2>. QED
    BY <2>1, <2>2
<1>3. E \in [S -> Windows]
  BY <1>2 DEF Extended
<1>. QED
  BY <1>1, <1>3 DEF Routes

\* What an acceptance does to the rows and to the routes of each date.
Accepted(o, s, table, left, route) ==
  /\ o \in Orders /\ s \in OfferedSlot /\ s.day \in Days
  /\ left \in Days \cup {NoDay}
  /\ jobs' = table /\ table \in [Orders -> Job] /\ table[o].window \in Windows
  /\ table[o].day = s.day /\ table[o].window = s.window
  /\ table[o].status = "confirmed" /\ table[o].ready = jobs[o].ready
  /\ \A x \in Orders \ {o} : table[x] = jobs[x]
  /\ route \in Routes
  /\ history' \in [Days -> Seq(Routes)]
  /\ history'[s.day] \in Published(history[s.day], route)
  /\ \A x \in Days \ {s.day} :
       \/ /\ history'[x] = history[x]
          /\ x = left => x \in reported'
       \/ /\ x = left
          /\ DayLoads(table, x)
          /\ Solved(table, x) \in Routes
          /\ history'[x] \in Published(history[x], Solved(table, x))
  /\ reported \subseteq reported'
  /\ left \in {NoDay, s.day} => reported' = reported
  /\ req' = req

LEMMA Acceptance ==
  ASSUME Typed, NEW f \in DOMAIN offers, NEW s \in offers[f].slots, AcceptOffer(f, s)
  PROVE  LET o == offers[f].order
             table == Booked(o, s)
         IN  Accepted(o, s, table, jobs[o].day, Target(table, o, s))
<1>. DEFINE o == offers[f].order
            table == Booked(o, s)
            left == jobs[o].day
            route == Target(table, o, s)
<1>. DEFINE d == s.day
<1>1. o \in Orders /\ s \in OfferedSlot /\ d \in Days /\ s.window \in Windows
  BY OfferFields DEF OfferedSlot
<1>2. left \in Days \cup {NoDay}
  BY <1>1 DEF Typed, Job
<1>3. /\ jobs' = table /\ table \in [Orders -> Job]
      /\ table[o].day = s.day /\ table[o].window = s.window
      /\ table[o].status = "confirmed" /\ table[o].ready = jobs[o].ready
      /\ \A x \in Orders \ {o} : table[x] = jobs[x]
  <2>. DEFINE row == [jobs[o] EXCEPT !.day = s.day, !.window = s.window, !.status = "confirmed"]
  <2>1. jobs \in [Orders -> Job] /\ jobs[o] \in Job
    BY <1>1 DEF Typed
  <2>2. /\ row \in Job
        /\ row.day = s.day /\ row.window = s.window
        /\ row.status = "confirmed" /\ row.ready = jobs[o].ready
    BY <1>1, <2>1 DEF Job, PlanningStatus
  <2>3. table = [jobs EXCEPT ![o] = row]
    BY <1>1, <2>1 DEF Booked, Job
  <2>4. jobs' = table
    BY DEF AcceptOffer
  <2>. HIDE DEF row, table, o
  <2>. QED
    BY <1>1, <2>1, <2>2, <2>3, <2>4
<1>4. route \in Routes
  <2>1. CASE s.source # 0
    <3>1. table[o].window # NoWindow
      BY <1>1, <1>3, BookingAssumption
    <3>. QED
      BY <2>1, <3>1, <1>1, <1>3, ExtendedIsRoute DEF Target
  <2>2. CASE s.source = 0
    BY <2>2, <1>3, SolvedIsRoute DEF Target, AcceptOffer, Rebuilds
  <2>. QED
    BY <2>1, <2>2
<1>5. PICK h \in Published(history[d], route) : Republish(table, h, left, d) /\ req' = req
  BY DEF AcceptOffer
<1>. HIDE DEF o, table, left, route
<1>6. history[d] \in Seq(Routes) /\ h \in Seq(Routes)
  BY <1>1, <1>4, <1>5, PublishedIs DEF Typed
<1>0. table[o].window \in Windows
  BY <1>1, <1>3
<1>7. ASSUME left \in {NoDay, d} PROVE Accepted(o, s, table, left, route)
  <2>1. history' = [history EXCEPT ![d] = h] /\ reported' = reported
    BY <1>5, <1>7 DEF Republish
  <2>2. history'[d] = h /\ \A x \in Days \ {d} : history'[x] = history[x] /\ x # left
    BY <2>1, <1>1, <1>7, BookingAssumption DEF Typed
  <2>3. history' \in [Days -> Seq(Routes)]
    BY <2>1, <1>6 DEF Typed
  <2>. QED
    BY <2>1, <2>2, <2>3, <1>0, <1>1, <1>2, <1>3, <1>4, <1>5, <1>6 DEF Accepted
<1>8. ASSUME left \notin {NoDay, d} PROVE Accepted(o, s, table, left, route)
  <2>1. DayLoads(table, left) /\ left \in Days \ {d} /\ Solved(table, left) \in Routes
    BY <1>2, <1>3, <1>5, <1>8, SolvedIsRoute DEF Republish
  <2>2. CASE history' = [history EXCEPT ![d] = h] /\ reported' = reported \cup {left}
    <3>1. history'[d] = h /\ \A x \in Days \ {d} : history'[x] = history[x]
      BY <2>2, <1>1 DEF Typed
    <3>2. history' \in [Days -> Seq(Routes)]
      BY <2>2, <1>6 DEF Typed
    <3>. QED
      BY <3>1, <3>2, <2>2, <1>0, <1>1, <1>2, <1>3, <1>4, <1>5, <1>6, <1>8 DEF Accepted
  <2>3. CASE \E g \in Published(history[left], Solved(table, left)) :
               history' = [history EXCEPT ![d] = h, ![left] = g] /\ reported' = reported
    <3>1. PICK g \in Published(history[left], Solved(table, left)) :
               history' = [history EXCEPT ![d] = h, ![left] = g] /\ reported' = reported
      BY <2>3
    <3>2. g \in Seq(Routes)
      BY <2>1, PublishedIs DEF Typed
    <3>3. /\ history'[d] = h /\ history'[left] = g
          /\ \A x \in Days \ {d, left} : history'[x] = history[x]
      BY <3>1, <2>1, <1>1 DEF Typed
    <3>4. history' \in [Days -> Seq(Routes)]
      BY <3>1, <3>2, <1>6 DEF Typed
    <3>. QED
      BY <3>1, <3>3, <3>4, <2>1, <1>0, <1>1, <1>2, <1>3, <1>4, <1>5, <1>6, <1>8 DEF Accepted
  <2>. QED
    BY <2>2, <2>3, <1>5, <1>8 DEF Republish
<1>9. Accepted(o, s, table, left, route)
  BY <1>7, <1>8
<1>. QED
  BY <1>9 DEF o, table, left, route

\* What an acceptance does to each offer.
LEMMA Answering ==
  ASSUME Typed, NEW f \in DOMAIN offers, NEW s \in offers[f].slots, AcceptOffer(f, s)
  PROVE  /\ offers' \in Seq(Offer) /\ DOMAIN offers' = DOMAIN offers
         /\ offers[f].column = "sent" /\ offers[f].data = "sent"
         /\ offers'[f] = [offers[f] EXCEPT !.column = "accepted", !.data = "accepted",
                                           !.accepted = s]
         /\ offers'[f].column = "accepted" /\ offers'[f].data = "accepted"
         /\ offers'[f].accepted = s
         /\ \A g \in DOMAIN offers \ {f} :
              \/ /\ offers'[g] = offers[g]
                 /\ ~(offers[g].order = offers[f].order /\ offers[g].data = "sent")
              \/ /\ offers[g].order = offers[f].order
                 /\ offers[g].data = "sent"
                 /\ offers'[g] = [offers[g] EXCEPT !.column = "closed", !.data = "closed"]
                 /\ offers'[g].column = "closed" /\ offers'[g].data = "closed"
<1>1. offers' = Answered(f, s) /\ offers[f].column = "sent" /\ offers[f].data = "sent"
  BY DEF AcceptOffer, Acceptable, Open
<1>2. /\ \A g \in DOMAIN offers : offers[g] \in Offer
      /\ DOMAIN offers = 1..Len(offers) /\ Len(offers) \in Nat /\ s \in OfferedSlot
  BY OfferFields
<1>3. /\ DOMAIN offers' = DOMAIN offers /\ offers' = [g \in DOMAIN offers |-> offers'[g]]
      /\ offers'[f] = [offers[f] EXCEPT !.column = "accepted", !.data = "accepted",
                                        !.accepted = s]
      /\ \A g \in DOMAIN offers \ {f} :
           \/ /\ offers'[g] = offers[g]
              /\ ~(offers[g].order = offers[f].order /\ offers[g].data = "sent")
           \/ /\ offers[g].order = offers[f].order
              /\ offers[g].data = "sent"
              /\ offers'[g] = [offers[g] EXCEPT !.column = "closed", !.data = "closed"]
  BY <1>1 DEF Answered, Open
<1>4. \A g \in DOMAIN offers : offers'[g] \in Offer
  <2>. TAKE g \in DOMAIN offers
  <2>1. offers[g] \in Offer
    BY <1>2
  <2>2. /\ [offers[g] EXCEPT !.column = "closed", !.data = "closed"] \in Offer
        /\ [offers[g] EXCEPT !.column = "accepted", !.data = "accepted", !.accepted = s] \in Offer
    BY <2>1, <1>2 DEF Offer, OfferStatus
  <2>. QED
    BY <2>1, <2>2, <1>3
<1>5. offers' \in [1..Len(offers) -> Offer]
  BY <1>2, <1>3, <1>4
<1>6. offers' \in Seq(Offer)
  BY <1>2, <1>5, SeqDef
<1>7. \A g \in DOMAIN offers :
        /\ [offers[g] EXCEPT !.column = "closed", !.data = "closed"].column = "closed"
        /\ [offers[g] EXCEPT !.column = "closed", !.data = "closed"].data = "closed"
  BY <1>2 DEF Offer
<1>8. /\ offers'[f].column = "accepted" /\ offers'[f].data = "accepted"
      /\ offers'[f].accepted = s
  <2>. DEFINE n == [offers[f] EXCEPT !.column = "accepted", !.data = "accepted", !.accepted = s]
  <2>1. n.column = "accepted" /\ n.data = "accepted" /\ n.accepted = s
    BY <1>2 DEF Offer
  <2>2. offers'[f] = n
    BY <1>3
  <2>. QED
    BY <2>1, <2>2
<1>9. \A g \in DOMAIN offers \ {f} :
        \/ /\ offers'[g] = offers[g]
           /\ ~(offers[g].order = offers[f].order /\ offers[g].data = "sent")
        \/ /\ offers[g].order = offers[f].order
           /\ offers[g].data = "sent"
           /\ offers'[g] = [offers[g] EXCEPT !.column = "closed", !.data = "closed"]
           /\ offers'[g].column = "closed" /\ offers'[g].data = "closed"
  BY <1>3, <1>7, Zenon
<1>. QED
  BY <1>1, <1>3, <1>6, <1>8, <1>9, Zenon

LEMMA AcceptTyped ==
  ASSUME Typed, NEW f \in DOMAIN offers, NEW s \in offers[f].slots, AcceptOffer(f, s)
  PROVE  Typed'
<1>1. jobs' \in [Orders -> Job] /\ history' \in [Days -> Seq(Routes)] /\ req' = req
  BY Acceptance DEF Accepted
<1>2. offers' \in Seq(Offer) /\ DOMAIN offers' = DOMAIN offers
  BY Answering
<1>. QED
  BY <1>1, <1>2 DEF Typed, Placed

\* Every step keeps the types.
LEMMA NextTyped == Typed /\ [Next]_vars => Typed'
<1>. SUFFICES ASSUME Typed, [Next]_vars PROVE Typed'
  OBVIOUS
<1>1. ASSUME NEW r \in Requests, NegotiationStep(r) PROVE Typed'
  BY <1>1, ReadsTyped, SavesTyped, SaveOfferTyped, RejectsTyped DEF NegotiationStep
<1>2. ASSUME NEW r \in Requests, DisruptionStep(r) PROVE Typed'
  BY <1>2, SavesTyped, SolveTyped, PublishTyped, AdvanceTyped DEF DisruptionStep
<1>3. CASE Negotiate
  BY <1>1, <1>3, StartsTyped, StartRejectTyped, AcceptTyped DEF Negotiate
<1>4. CASE Disrupt
  BY <1>2, <1>4, CoordinatorStartsTyped DEF Disrupt
<1>5. CASE UNCHANGED vars
  BY <1>5 DEF vars, Typed, Placed
<1>. QED
  BY <1>3, <1>4, <1>5, CrashTyped DEF Next

-----------------------------------------------------------------------------
\* Offers: which steps touch them, and what a request may hold of a claim.

\* A request's step that neither writes an offer nor takes or gives up a claim.
Apart(r) ==
  /\ UNCHANGED offers
  /\ req[r].pc # "save_rejection" /\ req'[r].pc # "save_rejection"
  /\ \A q \in Requests \ {r} : req'[q] = req[q]

LEMMA StartsApart ==
  ASSUME Typed, NEW r \in Requests,
         \/ \E o \in Orders : StartPlan(r, o) \/ StartMessage(r, o) \/ StartTimes(r, o)
         \/ \E f \in DOMAIN offers, next \in {"booking", "alternative"} : StartReject(r, f, next)
         \/ \E o \in Orders, ready \in BOOLEAN : StartReadiness(r, o, ready)
         \/ \E d \in Days : StartReplan(r, d)
         \/ \E d \in Days : StartStops(r, d, "route_plan", "sequenced")
         \/ \E d \in Days : StartStops(r, d, "morning_run", "dispatched")
         \/ \E o \in Orders, d \in Days : StartRecovery(r, o, d)
  PROVE  Apart(r)
<1>1. ASSUME NEW q, req[r].pc = "idle", q.pc # "save_rejection",
             req' = [req EXCEPT ![r] = q], UNCHANGED offers
      PROVE  Apart(r)
  BY <1>1 DEF Typed, Apart
<1>. QED
  BY <1>1 DEF StartPlan, StartMessage, Arrive, StartTimes, StartReject, StartReadiness,
              StartReplan, StartStops, StartRecovery, Begin, Blank

LEMMA StepsApart ==
  ASSUME Typed, NEW r \in Requests, NegotiationStep(r) \/ DisruptionStep(r),
         ~SaveOffer(r), ~Claim(r), ~SaveRejection(r)
  PROVE  Apart(r)
<1>1. req[r] \in Request
  BY DEF Typed
<1>2. ASSUME Finished(r), req[r].pc # "save_rejection", UNCHANGED offers PROVE Apart(r)
  BY <1>2 DEF Typed, Apart, Finished, Blank
<1>3. CASE SaveTimes(r) \/ LoadOrder(r) \/ Search(r) \/ Escalate(r) \/ SaveOffered(r)
  BY <1>1, <1>2, <1>3 DEF SaveTimes, LoadOrder, Search, Escalate, SaveOffered, Typed, Apart, Request
<1>4. CASE LoadRejected(r) \/ SaveRejected(r) \/ SaveReady(r) \/ SaveOption(r)
  BY <1>1, <1>2, <1>4 DEF LoadRejected, SaveRejected, SaveReady, SaveOption, Typed, Apart, Request
<1>5. CASE Solve(r) \/ SolveFails(r) \/ Publish(r)
  BY <1>1, <1>2, <1>5 DEF Solve, SolveFails, Publish, Typed, Apart, Request
<1>6. CASE Advance(r)
  BY <1>1, <1>2, <1>6 DEF Advance, Typed, Apart, Request
<1>. QED
  BY <1>3, <1>4, <1>5, <1>6 DEF NegotiationStep, DisruptionStep

\* Every step either leaves offers and claims alone or is one of the five that do not.
LEMMA StepKinds ==
  ASSUME Typed, [Next]_vars
  PROVE  \/ \E r \in Requests : Apart(r)
         \/ \E r \in Requests : SaveOffer(r) \/ Claim(r) \/ SaveRejection(r)
         \/ \E f \in DOMAIN offers : \E s \in offers[f].slots : AcceptOffer(f, s)
         \/ Crash
         \/ UNCHANGED vars
<1>1. CASE Negotiate
  BY <1>1, StartsApart, StepsApart DEF Negotiate
<1>2. CASE Disrupt
  <2>1. \A r \in Requests : DisruptionStep(r) => ~SaveOffer(r) /\ ~Claim(r) /\ ~SaveRejection(r)
    BY DEF DisruptionStep, SaveReady, Solve, SolveFails, Publish, Advance, SaveOption,
           SaveOffer, Claim, SaveRejection
  <2>. QED
    BY <1>2, <2>1, StartsApart, StepsApart DEF Disrupt
<1>. QED
  BY <1>1, <1>2 DEF Next

\* A new offer is sent, and the earlier ones stay as they are.
LEMMA NewOffer ==
  ASSUME Typed, NEW r \in Requests, SaveOffer(r)
  PROVE  /\ DOMAIN offers' = DOMAIN offers \cup {Len(offers) + 1}
         /\ Len(offers) + 1 \notin DOMAIN offers
         /\ \A g \in DOMAIN offers : offers'[g] = offers[g]
         /\ LET n == offers'[Len(offers) + 1] IN
              /\ n.column = "sent" /\ n.data = "sent"
              /\ n.order = req[r].order /\ n.purpose = req[r].purpose
              /\ n.slots = req[r].slots
         /\ \A q \in Requests \ {r} : req'[q] = req[q]
         /\ req[r].pc = "save_offer" /\ req'[r].pc \in {"idle", "save_offered"}
<1>. DEFINE new == [order |-> req[r].order, purpose |-> req[r].purpose,
                    slots |-> req[r].slots, column |-> "sent", data |-> "sent",
                    accepted |-> NoSlot]
<1>1. offers \in Seq(Offer) /\ offers' = Append(offers, new)
  BY DEF Typed, SaveOffer
<1>2. req[r] \in Request
  BY DEF Typed
<1>3. /\ \A q \in Requests \ {r} : req'[q] = req[q]
      /\ req[r].pc = "save_offer" /\ req'[r].pc \in {"idle", "save_offered"}
  BY <1>2 DEF SaveOffer, Finished, Blank, Typed, Request
<1>4. new.column = "sent" /\ new.data = "sent" /\ new.order = req[r].order
      /\ new.purpose = req[r].purpose /\ new.slots = req[r].slots
  OBVIOUS
<1>. HIDE DEF new
<1>5. /\ DOMAIN offers' = DOMAIN offers \cup {Len(offers) + 1}
      /\ Len(offers) + 1 \notin DOMAIN offers
      /\ \A g \in DOMAIN offers : offers'[g] = offers[g]
      /\ offers'[Len(offers) + 1] = new
  BY <1>1
<1>. QED
  BY <1>3, <1>4, <1>5

\* The conditional UPDATE is won by the request that finds the column sent.
LEMMA Claiming ==
  ASSUME Typed, NEW r \in Requests, Claim(r), NEW f, f = req[r].offer
  PROVE  /\ f \in DOMAIN offers
         /\ \A g \in DOMAIN offers \ {f} : offers'[g] = offers[g]
         /\ DOMAIN offers' = DOMAIN offers
         /\ \A q \in Requests \ {r} : req'[q] = req[q]
         /\ req[r].pc = "claim"
         /\ \/ /\ offers[f].column = "sent"
               /\ offers'[f] = [offers[f] EXCEPT !.column = "rejected"]
               /\ offers'[f].column = "rejected" /\ offers'[f].data = offers[f].data
               /\ req'[r].pc = "save_rejection" /\ req'[r].offer = f
            \/ offers' = offers /\ req'[r].pc = "load"
<1>1. req[r] \in Request /\ req[r].pc = "claim" /\ f \in DOMAIN offers
  BY DEF Typed, Claim, Placed
<1>2. offers[f] \in Offer /\ DOMAIN offers' = DOMAIN offers
  BY <1>1, OfferFields, RejectsTyped
<1>3. offers' = [offers EXCEPT ![f].column = "rejected"] =>
        /\ offers'[f] = [offers[f] EXCEPT !.column = "rejected"]
        /\ offers'[f].column = "rejected" /\ offers'[f].data = offers[f].data
  BY <1>1, <1>2 DEF Offer
<1>. QED
  BY <1>1, <1>2, <1>3 DEF Claim, Typed, Request

\* The rejection stored afterwards.
LEMMA Rejecting ==
  ASSUME Typed, NEW r \in Requests, SaveRejection(r), NEW f, f = req[r].offer
  PROVE  /\ f \in DOMAIN offers
         /\ \A g \in DOMAIN offers \ {f} : offers'[g] = offers[g]
         /\ DOMAIN offers' = DOMAIN offers
         /\ \A q \in Requests \ {r} : req'[q] = req[q]
         /\ req[r].pc = "save_rejection" /\ req'[r].pc = "load_rejected"
         /\ offers'[f].column = "rejected" /\ offers'[f].data = "rejected"
<1>1. req[r] \in Request /\ req[r].pc = "save_rejection" /\ f \in DOMAIN offers
  BY DEF Typed, SaveRejection, Placed
<1>2. offers[f] \in Offer /\ DOMAIN offers' = DOMAIN offers
  BY <1>1, OfferFields, RejectsTyped
<1>3. offers'[f].column = "rejected" /\ offers'[f].data = "rejected"
  BY <1>1, <1>2 DEF Offer, SaveRejection
<1>. QED
  BY <1>1, <1>2, <1>3 DEF SaveRejection, Typed, Request

-----------------------------------------------------------------------------
\* The inductive invariant.

LEMMA InitIInv == Init => IInv
<1>1. ASSUME Init PROVE Answers /\ Claimed
  BY <1>1 DEF Init, Answers, Claimed, Blank
<1>. QED
  BY <1>1, InitTyped DEF IInv

LEMMA NextIInv == IInv /\ [Next]_vars => IInv'
<1>. SUFFICES ASSUME IInv, [Next]_vars PROVE Answers' /\ Claimed'
  BY NextTyped DEF IInv
<1>. USE DEF IInv
<1>0. \A q \in Requests : req[q].pc = "save_rejection" => req[q].offer \in DOMAIN offers
  BY DEF Typed, Placed
<1>1. ASSUME NEW r \in Requests, Apart(r) PROVE Answers' /\ Claimed'
  BY <1>1 DEF Apart, Answers, Claimed
<1>2. ASSUME NEW r \in Requests, SaveOffer(r) PROVE Answers' /\ Claimed'
  <2>1. Answers'
    BY <1>2, NewOffer DEF Answers
  <2>2. Claimed'
    BY <1>0, <1>2, NewOffer DEF Claimed
  <2>. QED
    BY <2>1, <2>2
<1>3. ASSUME NEW r \in Requests, Claim(r) PROVE Answers' /\ Claimed'
  <2>. DEFINE f == req[r].offer
  <2>1. CASE offers' = offers /\ req'[r].pc = "load"
    BY <1>3, <2>1, Claiming DEF Answers, Claimed
  <2>2. CASE ~(offers' = offers /\ req'[r].pc = "load")
    <3>1. /\ f \in DOMAIN offers /\ offers[f].column = "sent"
          /\ offers'[f].column = "rejected" /\ offers'[f].data = offers[f].data
          /\ req'[r].offer = f /\ DOMAIN offers' = DOMAIN offers
          /\ \A g \in DOMAIN offers \ {f} : offers'[g] = offers[g]
          /\ \A q \in Requests \ {r} : req'[q] = req[q]
      BY <1>3, <2>2, Claiming
    <3>2. Answers'
      BY <3>1 DEF Answers
    <3>3. Claimed'
      BY <1>0, <3>1 DEF Claimed
    <3>. QED
      BY <3>2, <3>3
  <2>. QED
    BY <2>1, <2>2
<1>4. ASSUME NEW r \in Requests, SaveRejection(r) PROVE Answers' /\ Claimed'
  <2>1. Answers'
    BY <1>4, Rejecting DEF Answers
  <2>2. Claimed'
    BY <1>0, <1>4, Rejecting DEF Claimed
  <2>. QED
    BY <2>1, <2>2
<1>5. ASSUME NEW f \in DOMAIN offers, NEW s \in offers[f].slots, AcceptOffer(f, s)
      PROVE  Answers' /\ Claimed'
  <2>1. /\ DOMAIN offers' = DOMAIN offers
        /\ \A g \in DOMAIN offers : offers[g] \in Offer
        /\ offers[f].column = "sent"
        /\ req' = req
    BY <1>5, Answering, OfferFields, Acceptance DEF Accepted
  <2>2. /\ offers'[f].column = "accepted" /\ offers'[f].data = "accepted"
        /\ \A g \in DOMAIN offers \ {f} :
             offers'[g] = offers[g] \/ (offers'[g].column = "closed" /\ offers'[g].data = "closed")
    BY <1>5, Answering
  <2>3. Answers'
    BY <2>1, <2>2 DEF Answers
  <2>4. Claimed'
    BY <1>0, <2>1, <2>2 DEF Claimed
  <2>. QED
    BY <2>3, <2>4
<1>6. CASE Crash
  BY <1>6 DEF Crash, Answers, Claimed, Blank
<1>7. CASE UNCHANGED vars
  BY <1>7 DEF vars, Answers, Claimed
<1>. QED
  BY <1>1, <1>2, <1>3, <1>4, <1>5, <1>6, <1>7, StepKinds

-----------------------------------------------------------------------------
\* The theorems.

\* The types of every row, copy and route, and the agreement between an offer's
\* two statuses, survive any order of the handlers' steps (offer_service.py,
\* recovery_service.py, plan_service.py).
THEOREM Invariance == Spec => []IInv
  BY InitIInv, NextIInv, PTL DEF Spec

\* Whatever requests overlap, every stored row, offer and route has a shape the
\* program can store (db.save_job, db.save_offer).
THEOREM TypeCorrect == Spec => []TypeOK
<1>1. IInv => TypeOK
  <2>. SUFFICES ASSUME Typed PROVE TypeOK
    BY DEF IInv
  <2>1. ASSUME NEW r \in Requests
        PROVE  /\ req[r].order \in Orders \cup {NoOrder} /\ req[r].route \in Routes
               /\ req[r].slots \subseteq OfferedSlot /\ req[r].stops \subseteq Orders
               /\ DOMAIN req[r].snapshot \subseteq Orders
    <3>1. req[r] \in Request
      BY DEF Typed
    <3>2. req[r].snapshot \in Rows
      BY <3>1 DEF Request
    <3>. QED
      BY <3>1, <3>2 DEF Request, Rows
  <2>. QED
    BY <2>1 DEF Typed, TypeOK
<1>. QED
  BY <1>1, Invariance, PTL

\* An accepted offer keeps its slot, and one claimed by a rejection is never
\* accepted, however many answers overlap (offer_service.py: accept_offer,
\* reject_offer, db.claim_offer_response).
THEOREM AnswersStayFinal == Spec => AnswersFinal
<1>. DEFINE Final ==
       \A f \in DOMAIN offers :
         /\ offers[f].data = "accepted" => offers'[f] = offers[f]
         /\ offers[f].column = "rejected" =>
              offers'[f].column # "accepted" /\ offers'[f].data # "accepted"
<1>1. IInv /\ [Next]_vars => Final
  <2>. SUFFICES ASSUME IInv, [Next]_vars, NEW f \in DOMAIN offers
                PROVE  /\ offers[f].data = "accepted" => offers'[f] = offers[f]
                       /\ offers[f].column = "rejected" =>
                            offers'[f].column # "accepted" /\ offers'[f].data # "accepted"
    OBVIOUS
  <2>. USE DEF IInv
  <2>0. offers[f].column = "rejected" => offers[f].data # "accepted"
    BY DEF Answers
  <2>1. CASE offers'[f] = offers[f]
    BY <2>0, <2>1
  <2>2. ASSUME NEW r \in Requests, Claim(r), offers'[f] # offers[f] PROVE offers[f].column = "sent"
    BY <2>2, Claiming
  <2>3. ASSUME NEW r \in Requests, SaveRejection(r), offers'[f] # offers[f]
        PROVE  /\ offers[f].column \in {"rejected", "closed"}
               /\ offers'[f].column = "rejected" /\ offers'[f].data = "rejected"
    BY <2>3, Rejecting DEF Claimed
  <2>4. ASSUME NEW g \in DOMAIN offers, NEW s \in offers[g].slots, AcceptOffer(g, s),
               offers'[f] # offers[f]
        PROVE  \/ offers[f].column = "sent" /\ offers[f].data = "sent"
               \/ /\ offers[f].data = "sent"
                  /\ offers'[f].column = "closed" /\ offers'[f].data = "closed"
    <3>1. offers[f] \in Offer
      BY OfferFields
    <3>2. CASE f = g
      BY <2>4, <3>2, Answering
    <3>3. CASE f # g
      BY <2>4, <3>3, Answering
    <3>. QED
      BY <3>2, <3>3
  <2>5. CASE offers'[f] # offers[f]
    <3>1. \/ \E r \in Requests : Claim(r) \/ SaveRejection(r)
          \/ \E g \in DOMAIN offers : \E s \in offers[g].slots : AcceptOffer(g, s)
      BY <2>5, StepKinds, NewOffer DEF Apart, Crash, vars
    <3>2. offers[f].column = "sent" => offers[f].data = "sent"
      BY DEF Answers
    <3>3. offers[f].data = "accepted" => offers[f].column = "accepted"
      BY DEF Answers
    <3>. QED
      BY <3>1, <3>2, <3>3, <2>0, <2>2, <2>3, <2>4, <2>5
  <2>. QED
    BY <2>1, <2>5
<1>2. Final => [Final]_vars
  OBVIOUS
<1>. QED
  BY <1>1, Invariance, PTL DEF Spec, AnswersFinal

\* A tested insertion makes the next version out of the one it was tested against.
LEMMA InsertionPublishes ==
  ASSUME Typed, NEW f \in DOMAIN offers, NEW s \in offers[f].slots, AcceptOffer(f, s),
         s.source # 0
  PROVE  /\ Len(history'[s.day]) = s.source + 1
         /\ DOMAIN history'[s.day][s.source + 1]
              = DOMAIN history[s.day][s.source] \cup {offers[f].order}
<1>. DEFINE o == offers[f].order
            table == Booked(o, s)
            d == s.day
            route == Target(table, o, s)
<1>1. /\ o \in Orders /\ s \in OfferedSlot /\ d \in Days
      /\ table \in [Orders -> Job] /\ table[o].window \in Windows
      /\ route \in Routes
      /\ history'[d] \in Published(history[d], route)
  BY Acceptance DEF Accepted
<1>2. /\ o \notin DOMAIN Active(d)
      /\ s.source = Len(history[d])
      /\ route = Extended(table, o, d)
  BY DEF AcceptOffer, Acceptable, Rebuilds, Target, Fresh
<1>3. DOMAIN route = DOMAIN Active(d) \cup {o}
  BY <1>1, <1>2, BookingAssumption, ExtendedIsRoute
<1>4. /\ history[d] \in Seq(Routes) /\ history[d] # << >>
      /\ Active(d) = history[d][s.source]
  <2>1. history[d] \in Seq(Routes)
    BY <1>1 DEF Typed
  <2>2. history[d] # << >>
    BY <1>2
  <2>. QED
    BY <2>1, <2>2, <1>2 DEF Active
<1>5. history'[d] # history[d]
  BY <1>1, <1>2, <1>3, <1>4, PublishedIs
<1>6. history'[d] = Append(history[d], route)
  BY <1>1, <1>4, <1>5, PublishedIs
<1>. HIDE DEF route, o, table
<1>7. Len(history'[d]) = s.source + 1 /\ history'[d][s.source + 1] = route
  BY <1>2, <1>4, <1>6
<1>. QED
  BY <1>3, <1>4, <1>7 DEF o

\* Accepting a tested insertion publishes, as the next version, the route it was
\* tested against with this customer added and no stop dropped
\* (offer_service._accept_offer, insertion.build_tested_sequence).
THEOREM TestedRoutePublished == Spec => TestedRouteIsPublished
<1>. DEFINE Shown(f) ==
              LET s == offers'[f].accepted
                  tested == history[s.day][s.source]
              IN f \in Accepts(offers[f].order) /\ s.source # 0 =>
                   /\ Len(history'[s.day]) = s.source + 1
                   /\ DOMAIN history'[s.day][s.source + 1]
                        = DOMAIN tested \cup {offers[f].order}
<1>1. IInv /\ [Next]_vars => \A f \in DOMAIN offers : Shown(f)
  <2>. SUFFICES ASSUME IInv, [Next]_vars, NEW f \in DOMAIN offers,
                       offers[f].data # "accepted", offers'[f].data = "accepted",
                       NEW s, s = offers'[f].accepted, s.source # 0
                PROVE  /\ Len(history'[s.day]) = s.source + 1
                       /\ DOMAIN history'[s.day][s.source + 1]
                            = DOMAIN history[s.day][s.source] \cup {offers[f].order}
    BY DEF Accepts
  <2>. USE DEF IInv
  <2>0. PICK g \in DOMAIN offers : \E t \in offers[g].slots : AcceptOffer(g, t)
    <3>1. \A r \in Requests : Claim(r) => offers'[f].data = offers[f].data
      BY Claiming
    <3>2. \A r \in Requests : SaveRejection(r) =>
            offers'[f] = offers[f] \/ offers'[f].data = "rejected"
      BY Rejecting
    <3>. QED
      BY <3>1, <3>2, StepKinds, NewOffer DEF Apart, Crash, vars
  <2>1. PICK t \in offers[g].slots : AcceptOffer(g, t)
    BY <2>0
  <2>2. g = f /\ t = s
    <3>1. g # f => offers'[f] = offers[f] \/ offers'[f].data = "closed"
      BY <2>1, Answering
    <3>. QED
      BY <2>1, <3>1, Answering
  <2>9. s \in offers[f].slots /\ AcceptOffer(f, s)
    BY <2>1, <2>2
  <2>. QED
    BY <2>9, InsertionPublishes
<1>2. (\A f \in DOMAIN offers : Shown(f)) => [\A f \in DOMAIN offers : Shown(f)]_vars
  OBVIOUS
<1>. QED
  BY <1>1, <1>2, Invariance, PTL DEF Spec, TestedRouteIsPublished

\* While the server does not die between the claim and the save of a rejection,
\* an offer a reader finds open can still be claimed: the stored object lags the
\* status column only while its rejection is being recorded.
THEOREM OpenAnswerable == ASSUME ~Crashes PROVE Spec => []OpenCanBeAnswered
<1>1. Init => OpenCanBeAnswered
  BY DEF Init, OpenCanBeAnswered
<1>2. IInv /\ OpenCanBeAnswered /\ [Next]_vars => OpenCanBeAnswered'
  <2>. SUFFICES ASSUME IInv, OpenCanBeAnswered, [Next]_vars, NEW f \in DOMAIN offers',
                       offers'[f].column # offers'[f].data
                PROVE  \E r \in Requests :
                         /\ req'[r].pc = "save_rejection" /\ req'[r].offer = f
    BY DEF OpenCanBeAnswered, InFlight
  <2>. USE DEF IInv
  <2>0. f \in DOMAIN offers =>
          \/ offers[f].column = offers[f].data
          \/ \E r \in Requests : req[r].pc = "save_rejection" /\ req[r].offer = f
    BY DEF OpenCanBeAnswered, InFlight
  <2>1. ASSUME NEW r \in Requests, Apart(r)
        PROVE  \E q \in Requests : req'[q].pc = "save_rejection" /\ req'[q].offer = f
    BY <2>0, <2>1 DEF Apart
  <2>2. ASSUME NEW r \in Requests, SaveOffer(r)
        PROVE  \E q \in Requests : req'[q].pc = "save_rejection" /\ req'[q].offer = f
    BY <2>0, <2>2, NewOffer
  <2>3. ASSUME NEW r \in Requests, Claim(r)
        PROVE  \E q \in Requests : req'[q].pc = "save_rejection" /\ req'[q].offer = f
    <3>1. CASE f = req[r].offer /\ offers' # offers
      <4>1. req'[r].pc = "save_rejection" /\ req'[r].offer = f
        BY <2>3, <3>1, Claiming, Zenon
      <4>. QED
        BY <4>1
    <3>2. CASE ~(f = req[r].offer /\ offers' # offers)
      <4>1. f \in DOMAIN offers /\ offers'[f] = offers[f]
        BY <2>3, <3>2, Claiming
      <4>2. PICK q \in Requests : req[q].pc = "save_rejection" /\ req[q].offer = f
        BY <2>0, <4>1
      <4>. QED
        BY <2>3, <4>2, Claiming
    <3>. QED
      BY <3>1, <3>2
  <2>4. ASSUME NEW r \in Requests, SaveRejection(r)
        PROVE  \E q \in Requests : req'[q].pc = "save_rejection" /\ req'[q].offer = f
    BY <2>0, <2>4, Rejecting
  <2>5. ASSUME NEW g \in DOMAIN offers, NEW s \in offers[g].slots, AcceptOffer(g, s)
        PROVE  \E q \in Requests : req'[q].pc = "save_rejection" /\ req'[q].offer = f
    <3>1. f \in DOMAIN offers /\ req' = req
      BY <2>5, Answering, Acceptance DEF Accepted
    <3>2. f = g => offers'[f].column = offers'[f].data
      BY <2>5, Answering
    <3>3. f # g => offers'[f] = offers[f] \/ offers'[f].column = offers'[f].data
      <4>1. f # g => f \in DOMAIN offers \ {g}
        BY <3>1
      <4>. QED
        BY <2>5, <4>1, Answering
    <3>. QED
      BY <2>0, <3>1, <3>2, <3>3
  <2>6. CASE UNCHANGED vars
    BY <2>0, <2>6 DEF vars
  <2>. QED
    BY <2>1, <2>2, <2>3, <2>4, <2>5, <2>6, StepKinds DEF Crash
<1>. QED
  BY <1>1, <1>2, Invariance, PTL DEF Spec
=============================================================================
