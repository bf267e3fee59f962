----------------------------- MODULE Coordinator -----------------------------
(***************************************************************************)
(* The planning services together: customers negotiating (Negotiation) and *)
(* the coordinator's own operations (Disruption) over the same rows, the   *)
(* server process that may die between two commits, and what must be true  *)
(* of appointments, offers and routes whatever the order of events.        *)
(***************************************************************************)
EXTENDS Negotiation, Disruption

\* The booked days of the seeded scenario: each held appointment confirmed and
\* on its date's first published route, everyone else still to be planned.
Init ==
  /\ jobs = [o \in Orders |->
       IF o \in DOMAIN Held
       THEN [status |-> "confirmed", day |-> Held[o].day, window |-> Held[o].window,
             ready |-> TRUE]
       ELSE [status |-> "pending_planning", day |-> NoDay, window |-> NoWindow,
             ready |-> TRUE]]
  /\ offers = << >>
  /\ history = [d \in Days |->
       IF RoutableJobs(jobs, d) = {} THEN << >> ELSE << Solved(jobs, d) >>]
  /\ reported = {}
  /\ req = [r \in Requests |-> Blank]

\* The server process dies: every request in flight is lost, commits stay.
Crash ==
  /\ Crashes
  /\ InFlight # {}
  /\ req' = [r \in Requests |-> Blank]
  /\ UNCHANGED <<jobs, offers, history, reported>>

Next == Negotiate \/ Disrupt \/ Crash
Spec == Init /\ [][Next]_vars

\* A thread that has started a request goes on with it.  Customers and the
\* coordinator owe nothing.
Fairness == \A r \in Requests : WF_vars(NegotiationStep(r) \/ DisruptionStep(r))
FairSpec == Spec /\ Fairness

\* The appointments the rows hold and the routes the drivers get, as the abstract
\* specification sees them.
Promise(job) == IF Locked(job) THEN <<job.day, job.window>> ELSE <<NoDay, NoWindow>>

Promised == INSTANCE Appointments WITH
  None <- <<NoDay, NoWindow>>,
  promise <- [o \in Orders |-> Promise(jobs[o])],
  route <- [d \in Days |-> Active(d)]

-----------------------------------------------------------------------------
\* Every row, offer and route has a shape the program can store.
TypeOK ==
  /\ jobs \in [Orders -> Job]
  /\ offers \in Seq(Offer)
  /\ history \in [Days -> Seq(Routes)]
  /\ DOMAIN req = Requests
  /\ \A r \in Requests : /\ req[r].order \in Orders \cup {NoOrder}
                         /\ req[r].route \in Routes
                         /\ req[r].slots \subseteq OfferedSlot
                         /\ req[r].stops \subseteq Orders
                         /\ DOMAIN req[r].snapshot \subseteq Orders

\* No sequence of saves leaves a row that JobRecord refuses to load: a locked
\* status always has its date and window, any other status no window.
RowsLoad == \A o \in Orders : Loads(jobs[o])

\* d is being re-solved: whoever saved the change has not yet published.
Rebuilding(d) == \E r \in InFlight : req[r].day = d /\ req[r].pc \in {"solve", "publish"}

\* The active route of a date visits exactly the customers who hold an
\* appointment on it and whose goods are ready, each in the promised window,
\* unless the date is being rebuilt or a coordinator was told it could not be.
RoutesMatchPromises ==
  \A d \in Days : \/ Rebuilding(d)
                  \/ d \in reported
                  \/ Active(d) = Solved(jobs, d)

\* A customer who holds an appointment is not at the same time being asked to
\* choose one: accepting settles every other question still open.
BookedNotAsked ==
  \A o \in Orders : jobs[o].status \in LockedStatuses =>
    \A f \in OpenOffers(o) : offers[f].purpose = "recovery"

\* The two copies of an offer's status agree except while its rejection is being
\* recorded, so an offer a reader finds open can still be claimed.
OpenCanBeAnswered ==
  \A f \in DOMAIN offers :
    \/ offers[f].column = offers[f].data
    \/ \E r \in InFlight : req[r].offer = f /\ req[r].pc = "save_rejection"

\* At most one round of each kind of offer waits for the customer's answer.
OneOpenRound ==
  \A o \in Orders : \A f, g \in OpenOffers(o) :
    offers[f].purpose = offers[g].purpose => f = g

\* An order whose goods are not there is on no active route, unless the date is
\* being rebuilt or a coordinator was told it could not be.
NotReadyNotRouted ==
  \A d \in Days : \/ Rebuilding(d) \/ d \in reported
                  \/ \A o \in DOMAIN Active(d) : jobs[o].ready

Accepts(o) == {f \in OffersOf(o) : offers[f].data # "accepted" /\ offers'[f].data = "accepted"}

\* What a customer was promised changes only in the step in which that customer
\* accepts another slot, and becomes that slot.
PromiseStands ==
  [][\A o \in Orders : Promise(jobs'[o]) # Promise(jobs[o]) =>
       \E f \in Accepts(o) :
         Promise(jobs'[o]) = <<offers'[f].accepted.day, offers'[f].accepted.window>>]_vars

\* Appointments and routes change together, one customer's acceptance at a time:
\* no commit of accept_offer shows a promise its route does not keep.
KeepsAppointments == Promised!Spec

\* No step takes a customer whose appointment and goods both stand off the active
\* route of their date.
ConfirmedNotDropped ==
  [][\A d \in Days : \A o \in DOMAIN Active(d) \ DOMAIN Active(d)' :
       o \notin RoutableJobs(jobs', d)]_vars

\* A stop that was sent out stays sent out unless its customer accepts another
\* slot: regenerating the route afterwards does not call the van back.
SentOutStays ==
  [][\A o \in Orders :
       jobs[o].status = "dispatched" /\ Accepts(o) = {} => jobs'[o].status = "dispatched"]_vars

\* An answer is final: an accepted offer keeps its slot, and an offer claimed by
\* a rejection is never accepted, however many requests answer it at once.
AnswersFinal ==
  [][\A f \in DOMAIN offers :
       /\ offers[f].data = "accepted" => offers'[f] = offers[f]
       /\ offers[f].column = "rejected" =>
            offers'[f].column # "accepted" /\ offers'[f].data # "accepted"]_vars

\* Accepting a tested insertion publishes, as the next version, the route it was
\* tested against with this customer added and no stop dropped.
TestedRouteIsPublished ==
  [][\A f \in DOMAIN offers :
       LET s == offers'[f].accepted
           tested == history[s.day][s.source]
       IN f \in Accepts(offers[f].order) /\ s.source # 0 =>
            /\ Len(history'[s.day]) = s.source + 1
            /\ DOMAIN history'[s.day][s.source + 1] = DOMAIN tested \cup {offers[f].order}]_vars

\* Goods reported late leave the route, or come in, or a coordinator hears that
\* the date could not be rebuilt: the re-solve is never forgotten.
DelayedLeavesRoute ==
  \A o \in Orders, d \in Days :
    (~jobs[o].ready /\ o \in DOMAIN Active(d)) ~>
      (jobs[o].ready \/ o \notin DOMAIN Active(d) \/ d \in reported)
=============================================================================
