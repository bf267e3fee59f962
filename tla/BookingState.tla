---------------------------- MODULE BookingState ----------------------------
(***************************************************************************)
(* The rows the planning services share, and how a row is read and judged: *)
(* jobs (db.save_job / get_job), appointment_offers, and per date the      *)
(* history of published routes (PlanRegister, which PlanVersions           *)
(* implements).  FastAPI serves requests from a pool of threads, and each  *)
(* repository call outside JobsRepository.transaction commits on its own,  *)
(* so a request is a sequence of steps holding copies of rows it has read. *)
(***************************************************************************)
EXTENDS Naturals, Sequences, FiniteSets

CONSTANTS
  Orders,      \* customer orders
  Days,        \* delivery dates of the planning horizon, a set of numbers
  Windows,     \* promise windows within a day (morning, afternoon, ...)
  Held,        \* appointments existing at the start: a function Orders' subset -> Slot
  Requests,    \* worker threads
  NoDay, NoWindow, NoOrder,
  Alternatives,\* REQUIRED_ALTERNATIVES, three in the code
  Endpoints,   \* which operations the instance exercises
  Concurrency, \* which requests may overlap: "none", "orders" or "any"
  BookedWrite, \* whether a customer with an appointment may ask for another time
  Crashes,     \* whether the server process may die
  MaxOffers,   \* bound: offers in all
  MaxVersions  \* bound: published versions per date

ASSUME BookingAssumption ==
  /\ Days \subseteq Nat /\ NoDay \notin Days
  /\ NoWindow \notin Windows /\ NoOrder \notin Orders
  /\ DOMAIN Held \subseteq Orders
  /\ \A o \in DOMAIN Held : Held[o].day \in Days /\ Held[o].window \in Windows
  /\ MaxOffers \in Nat /\ MaxVersions \in Nat

VARIABLES
  jobs,     \* [Orders -> Job], the jobs table
  offers,   \* appointment_offers in rowid order
  history,  \* [Days -> Seq(Route)]: published versions, the last one active
  reported, \* dates a coordinator was told could not be rebuilt
  req       \* [Requests -> Request], a thread's place in its handler and its copies

vars == <<jobs, offers, history, reported, req>>

PlanningStatus == {"pending_planning", "offered", "confirmed", "sequenced", "dispatched"}
LockedStatuses == {"confirmed", "sequenced", "dispatched"}
RoutableStatuses == {"confirmed", "sequenced", "dispatched"}

Job == [status : PlanningStatus, day : Days \cup {NoDay},
        window : Windows \cup {NoWindow}, ready : BOOLEAN]

\* source: the version an insertion was tested against, 0 without evidence.
OfferedSlot == [day : Days, window : Windows, source : 0..MaxVersions]
NoSlot == [day |-> NoDay, window |-> NoWindow, source |-> 0]

\* column is the status column, which a claim updates; data the stored object,
\* which every reader deserialises.
OfferStatus == {"sent", "accepted", "rejected", "closed"}
Offer == [order : Orders, purpose : {"booking", "alternative", "recovery"},
          slots : SUBSET OfferedSlot, column : OfferStatus, data : OfferStatus,
          accepted : OfferedSlot \cup {NoSlot}]

Routes == UNION {[S -> Windows] : S \in SUBSET Orders}
EmptyRoute == [o \in {} |-> NoWindow]

Nobody == [o \in {} |-> NoOrder]   \* no rows read yet

\* copy: the row of order read by the handler; snapshot: the rows of a whole
\* date; day, route and stops: a date being re-solved; target: the status its
\* stops are advanced to ("confirmed" for none).
Blank == [pc |-> "idle", order |-> NoOrder, purpose |-> "booking", offer |-> 0,
          copy |-> Nobody, slots |-> {}, day |-> NoDay, route |-> EmptyRoute,
          snapshot |-> Nobody, stops |-> {}, target |-> "confirmed"]
Finished(r) == req' = [req EXCEPT ![r] = Blank]
InFlight == {r \in Requests : req[r].pc # "idle"}

-----------------------------------------------------------------------------
\* Rows.

\* JobRecord._states_cannot_contradict, which runs whenever a row is read.
Loads(job) ==
  /\ job.status \in LockedStatuses => job.day # NoDay /\ job.window # NoWindow
  /\ job.status \notin LockedStatuses => job.window = NoWindow

\* jobs_for_date raises when any row of the date does not load.
DayLoads(table, d) == \A o \in Orders : table[o].day = d => Loads(table[o])

Locked(job) == job.status \in LockedStatuses /\ job.window # NoWindow

RoutableJobs(table, d) ==
  {o \in Orders : /\ table[o].day = d
                  /\ table[o].status \in RoutableStatuses
                  /\ table[o].ready}

\* What solve_day returns when it does not raise: every routable job, each
\* arrival inside its locked window (assert_locks_respected).
Solved(table, d) == [o \in RoutableJobs(table, d) |-> table[o].window]

Active(d) == IF history[d] = << >> THEN EmptyRoute ELSE history[d][Len(history[d])]

\* publish_plan_version: same content, same version.  A re-solve may also find
\* another sequence of the same stops and windows, which is a new version.
Published(h, route) ==
  {Append(h, route)}
    \cup {same \in {h} : h # << >> /\ h[Len(h)] = route}

OffersOf(o) == {f \in DOMAIN offers : offers[f].order = o}
Rounds(o, purpose) == {f \in OffersOf(o) : offers[f].purpose = purpose}
Open(f) == offers[f].data = "sent"
OpenOffers(o) == {f \in OffersOf(o) : Open(f)}

\* MAX_OFFER_ROUNDS, MAX_RECOVERY_OFFERS and the single fallback round.
Cap(purpose) == IF purpose = "booking" THEN 2 ELSE 1

\* The environment: which requests may be in flight together.  The code itself
\* takes no lock per order or per date.
MayStart(o) ==
  \/ Concurrency = "any"
  \/ Concurrency = "orders" /\ \A r \in InFlight : req[r].order # o
  \/ Concurrency = "none" /\ InFlight = {}
=============================================================================
