------------------------------ MODULE DayWindows ------------------------------
(***************************************************************************)
(* Which time a customer is asked about, and whether the day can keep it.  *)
(*                                                                         *)
(* An order that waits for a date is offered a time in one of two ways:    *)
(* "solve" -- the customer's own windows, less what was turned down, are   *)
(* solved with the day, and a promise is cut around the arrival the solver *)
(* chose (planning/candidate_service.py, planning/promise_window.py);      *)
(* "insert" -- the published route is driven with one stop added at each   *)
(* place near the customer, and the delivery slot of that arrival is       *)
(* offered (planning/insertion.py).  What is declined is carved out of the *)
(* order's availability and the next round searches again.  The routes of  *)
(* this module change only by the customer's own acceptance: plans that    *)
(* move under an offer are module Negotiation's subject.                   *)
(***************************************************************************)
EXTENDS Integers, FiniteSets, FiniteSetsExt, Sequences, SequencesExt

CONSTANTS
    Dates,           \* the bookable dates, integers: earlier ones sort first
    Home,            \* the date of the order's own delivery region
    Order,           \* the order that is negotiated
    Booked,          \* [Dates -> sets of orders already promised that day]
    Depot,
    Minutes, Km,     \* the legs between two places: driving time, distance
    Duration,        \* how long a visit takes
    Radius,          \* settings.anchor_radius_km
    DayStart, Cutoff, RouteEnd,
    Snap, PromiseMinutes, MinSlack,
    Slots,           \* the delivery slots, a sequence of windows
    Given,           \* the windows promised to the orders booked at the start
    Stated,          \* the windows a customer may state
    MaxRounds, MaxSlots, Alternatives,
    MaxRestated      \* a bound: the times named while the negotiation goes on

ASSUME DayAssumption ==
    /\ Dates \subseteq Nat
    /\ Duration[Order] \in Nat \ {0}
    /\ DayStart \in Int /\ Cutoff \in Int /\ DayStart <= Cutoff
    /\ Snap \in Nat \ {0} /\ PromiseMinutes \in Nat /\ MinSlack \in Nat
    /\ Slots \in Seq([start : Int, end : Int])
    /\ Stated \subseteq [start : Int, end : Int]

\* Everybody the van may visit.
Stops == (UNION {Booked[d] : d \in Dates}) \cup {Order}

\* Whole minutes and metres, and a matrix with every leg of the places of a day.
ASSUME LegAssumption ==
    /\ Home \in Dates /\ RouteEnd \in Int
    /\ IsFiniteSet(Dates) /\ \A d \in Dates : IsFiniteSet(Booked[d])
    /\ \A p, q \in Stops \cup {Depot} : Minutes[p, q] \in Int /\ Km[p, q] \in Int
    /\ \A p \in Stops : Duration[p] \in Int
    /\ Given \subseteq [start : Int, end : Int]
    /\ Alternatives \in Nat \ {0}

VARIABLES
    path,        \* how this order's times are found
    only,        \* the customer said no other time is possible
    routes,      \* the orders each date visits, in turn
    lock,        \* the promised window of every booked order
    options,     \* the order's availability, each with its exclusions
    offer,       \* the slots put to the customer, and what for
    asked,       \* the rounds made so far: purpose, and the windows offered
    declined,    \* dates and windows the customer turned down
    restated     \* the times named since

vars == <<path, only, routes, lock, options, offer, asked, declined,
          restated>>

Least(a, b) == IF a < b THEN a ELSE b
Most(a, b) == IF a > b THEN a ELSE b
Window(s, e) == [start |-> s, end |-> e]
Width(w) == w.end - w.start
Overlaps(v, w) == v.start < w.end /\ w.start < v.end
Within(v, w) == w.start <= v.start /\ v.end <= w.end

-----------------------------------------------------------------------------
(* The promise around an arrival.                                          *)

PromiseWidth(duration) == Most(PromiseMinutes, duration + MinSlack)

\* Not before the customer is free, nor so early that the visit outlasts it.
Earliest(departure, width, free) == Most(free.start, departure - width)

LatestMutant(arrival, width, free) == arrival

\* Not after the van arrives, nor so late that it outlasts the customer's time.
Latest(arrival, width, free) == Least(arrival, free.end - width)

\* The window starts at the half hour nearest to one centred on the visit, as
\* far as the visit and the customer's own window allow.
PromiseStart(arrival, duration, free) ==
    LET width == PromiseWidth(duration)
        earliest == Earliest(arrival + duration, width, free)
        latest == Latest(arrival, width, free)
        centred == arrival - ((width - duration) \div 2)
        nearest == ((centred + (Snap \div 2)) \div Snap) * Snap
        start == Least(Most(nearest, earliest), latest)
        aligned == start + ((-start) % Snap)
    IN  IF aligned <= latest THEN aligned ELSE start

Bounded(window) == Window(Most(window.start, DayStart), Least(window.end, Cutoff))

promise_window(arrival, duration, window) ==
    LET free == Bounded(window)
        width == PromiseWidth(duration)
        start == PromiseStart(arrival, duration, free)
    IN  IF Width(free) <= width THEN free ELSE Window(start, start + width)

-----------------------------------------------------------------------------
(* What is left of a window.                                               *)

\* The pieces of a window between the intervals excluded from it, those too
\* narrow to book dropped.
subtract(window, excluded, minWidth) ==
    {w \in {Window(s, e) : s \in {window.start} \cup {gap.end : gap \in excluded},
                          e \in {window.end} \cup {gap.start : gap \in excluded}} :
        /\ w.start < w.end /\ Width(w) >= minWidth
        /\ Within(w, window)
        /\ \A gap \in excluded : ~Overlaps(w, gap)}

bookable_windows(option) ==
    IF option.excluded = {} THEN {option.window}
    ELSE subtract(option.window, option.excluded, Duration[Order] + MinSlack)

-----------------------------------------------------------------------------
(* Driving a day.                                                          *)

Anytime == Window(DayStart, RouteEnd)

\* The windows of a day with the order in window w, everybody else as promised.
With(w) == [o \in DOMAIN lock \cup {Order} |-> IF o = Order THEN w ELSE lock[o]]

\* Arrival at each stop when the van leaves at once and waits only for a window
\* to open.
Arrivals(route, window) ==
    LET arrival[i \in 1 .. Len(route)] ==
            Most(window[route[i]].start,
                 IF i = 1 THEN DayStart + Minutes[Depot, route[1]]
                 ELSE arrival[i - 1] + Duration[route[i - 1]]
                          + Minutes[route[i - 1], route[i]])
    IN  arrival

Return(route, arrivals) ==
    IF route = <<>> THEN DayStart
    ELSE Last(arrivals) + Duration[Last(route)] + Minutes[Last(route), Depot]

\* Nobody is reached after their window closed and the van is home in time.
OnTime(route, window) ==
    LET arrivals == Arrivals(route, window)
    IN  /\ \A i \in 1 .. Len(route) : arrivals[i] <= window[route[i]].end
        /\ Return(route, arrivals) <= RouteEnd

\* The routes the solver may return for a day: any order of the stops with
\* every arrival inside its window.
Solutions(orders, window) ==
    {r \in SetToSeqs(orders) : OnTime(r, window)}

-----------------------------------------------------------------------------
(* Solving the customer's own windows.                                     *)

\* The arrivals the solver may choose in a stated window: the visit ends inside.
ArrivalDomain(window) ==
    LET free == Bounded(window)
    IN  free.start .. (free.end - Duration[Order])

\* The order arrives at a with everybody promised served in time.
Fits(date, a) ==
    Solutions(Booked[date] \cup {Order}, With(Window(a, a))) # {}

Services(option) ==
    {a \in UNION {ArrivalDomain(w) : w \in bookable_windows(option)} : Fits(option.date, a)}

PieceMutant(option, arrival) == option.window

\* The promise is bounded by the piece the van landed in, not by the option.
Piece(option, arrival) ==
    CHOOSE w \in bookable_windows(option) :
        w.start <= arrival /\ arrival + Duration[Order] <= w.end

Evaluation(option, arrival) ==
    LET piece == Piece(option, arrival)
    IN  [id |-> option.id, date |-> option.date, arrival |-> arrival, position |-> 0,
         piece |-> piece, window |-> promise_window(arrival, Duration[Order], piece)]

Feasible(option) ==
    {e \in {Evaluation(option, a) : a \in Services(option)} :
        \A round \in asked : <<e.id, e.window>> \notin round.windows}

-----------------------------------------------------------------------------
(* Inserting the order into a published route.                             *)

Insert(route, position) == InsertAt(route, position, Order)

SlotOf(arrival) ==
    {s \in DOMAIN Slots : Slots[s].start <= arrival /\ arrival < Slots[s].end}

Anchors(route) == {i \in DOMAIN route : Km[Order, route[i]] <= Radius}

\* A detour measured with the legs m around a position of the route.
Detour(m, route, position) ==
    LET before == IF position = 1 THEN Depot ELSE route[position - 1]
        after == IF position > Len(route) THEN Depot ELSE route[position]
    IN  m[before, Order] + m[Order, after] - m[before, after]

TestedMutant(date, position) ==
    LET trial == Insert(routes[date], position)
        arrival == Arrivals(trial, With(Anytime))[position]
    IN  {[date |-> date, slot |-> s, position |-> position, arrival |-> arrival,
          rank |-> <<Detour(Km, routes[date], position),
                     Detour(Minutes, routes[date], position), date, s, position>>] :
            s \in SlotOf(arrival)}

\* What trying one position finds: nothing when a promise breaks or the arrival
\* lies in no slot.
Tested(date, position) ==
    LET trial == Insert(routes[date], position)
        arrival == Arrivals(trial, With(Anytime))[position]
    IN  {[date |-> date, slot |-> s, position |-> position, arrival |-> arrival,
          rank |-> <<Detour(Km, routes[date], position),
                     Detour(Minutes, routes[date], position), date, s, position>>] :
            s \in {t \in SlotOf(arrival) : OnTime(trial, With(Anytime))}}

Better(o, p) ==
    \E i \in DOMAIN o.rank : /\ o.rank[i] < p.rank[i]
                             /\ \A j \in 1 .. i - 1 : o.rank[j] = p.rank[j]

\* Dates and slots the order's recorded times overlap.
Preferred ==
    {p \in Dates \X DOMAIN Slots :
        \E o \in options : o.date = p[1] /\ Overlaps(o.window, Slots[p[2]])}

Declined ==
    {p \in Dates \X DOMAIN Slots :
        \E o \in options : o.date = p[1] /\ \E w \in o.excluded : p[2] \in SlotOf(w.start)}

\* The best option of each date and slot that is neither declined nor outside
\* what the search is restricted to.
search(dates, restricted) ==
    LET tried(d) == UNION {{i, i + 1} : i \in Anchors(routes[d])}
        kept == {o \in UNION {UNION {Tested(d, p) : p \in tried(d)} : d \in dates} :
                    /\ <<o.date, o.slot>> \notin Declined
                    /\ restricted => <<o.date, o.slot>> \in Preferred}
    IN  {o \in kept : \A p \in kept :
            <<p.date, p.slot>> = <<o.date, o.slot>> => ~Better(p, o)}

\* The first n options in the search's order; those asked for go first when the
\* customer's wish decides.
First(n, found, wished) ==
    LET rank(o) == LET unwished == IF wished /\ <<o.date, o.slot>> \notin Preferred
                                   THEN 1 ELSE 0
                   IN  [o EXCEPT !.rank = <<unwished>> \o o.rank]
    IN  {o \in found : Cardinality({p \in found : Better(rank(p), rank(o))}) < n}

-----------------------------------------------------------------------------
(* Offers.                                                                 *)

NoOffer == [purpose |-> "none", slots |-> {}]
Rounds(purpose) == {round \in asked : round.purpose = purpose}
Free == offer = NoOffer /\ Order \notin DOMAIN lock
NextId ==
    1 + Max({0} \cup {o.id : o \in options}
                \cup {o[1] : o \in UNION {round.windows : round \in asked}})

Option(id, date, window, excluded) ==
    [id |-> id, date |-> date, window |-> window, excluded |-> excluded]

Ask(purpose, slots) ==
    /\ offer' = [purpose |-> purpose, slots |-> slots]
    /\ asked' = asked \cup
         {[purpose |-> purpose, number |-> Cardinality(Rounds(purpose)) + 1,
           windows |-> {<<s.id, s.window>> : s \in slots}]}
    /\ UNCHANGED <<path, only, routes, lock, declined, restated>>

\* The best slots of the customer's own windows, two when there are two.
create_offer ==
    /\ Free /\ path = "solve" /\ Cardinality(Rounds("booking")) < MaxRounds
    /\ LET evaluated == [o \in options |-> Feasible(o)]
           able == {o \in options : evaluated[o] # {}}
           asks == Least(MaxSlots, Cardinality(able))
       IN  \E slots \in kSubset(asks, UNION {evaluated[o] : o \in able}) :
             /\ slots # {}
             /\ \A s, t \in slots : s.id = t.id => s = t
             /\ Ask("booking", slots)
    /\ UNCHANGED options

\* An inserted slot is a window the company found: it joins the order's times and
\* replaces the option of the same date and window, exclusions included.
Recorded(slots) ==
    {o \in options : \A s \in slots : o.date # s.date \/ o.window # s.window}
        \cup {Option(s.id, s.date, s.window, {}) : s \in slots}

\* Slots are recorded and numbered in the order of the search.
Slot(option, better) ==
    [id |-> NextId + Cardinality(better), date |-> option.date,
     arrival |-> option.arrival, position |-> option.position,
     piece |-> Slots[option.slot], window |-> Slots[option.slot]]

offer_insertions(purpose, limit, found) ==
    LET first == First(limit, found, purpose = "booking")
        slots == {Slot(o, {p \in first : Better(p, o)}) : o \in first}
    IN  /\ found # {}
        /\ options' = Recorded(slots)
        /\ Ask(purpose, slots)

\* The first search reads the routes of the order's own date ...
find_normal_slot ==
    /\ Free /\ path = "insert"
    /\ Cardinality(Rounds("booking")) < MaxRounds
    /\ offer_insertions("booking", 1, search({Home}, Preferred # {}))

\* ... or those of the dates the customer has named.
find_requested_day_slot ==
    /\ Free /\ path = "insert"
    /\ Cardinality(Rounds("booking")) < MaxRounds
    /\ offer_insertions("booking", 1,
                        search({o.date : o \in options}, Preferred # {}))

\* After a rejection both routes are searched and three slots are offered, or none.
find_fallback_options ==
    /\ Free /\ path = "insert" /\ declined # {}
    /\ Rounds("alternative") = {}
    /\ LET found == search(Dates, Preferred # {} /\ only)
       IN  /\ Cardinality(found) >= Alternatives
           /\ offer_insertions("alternative", Alternatives, found)

\* What a rejection carves out of the options the declined slots came from.
Reject(slots) ==
    {Option(o.id, o.date, o.window,
            o.excluded \cup {s.window : s \in {t \in slots : t.id = o.id}}) :
        o \in options}

\* The customer turns down one slot, or all of them.
reject_offer ==
    /\ offer # NoOffer
    /\ \E slots \in {offer.slots} \cup {{s} : s \in offer.slots} :
         /\ options' = Reject(slots)
         /\ declined' = declined \cup {<<s.date, s.window>> : s \in slots}
    /\ offer' = NoOffer
    /\ UNCHANGED <<path, only, routes, lock, asked, restated>>

\* The option a date has now: the last of them, which has the greatest id.
Previous(date) ==
    LET of == {o \in options : o.date = date}
    IN  {o \in of : \A p \in of : p = o \/ p.id < o.id}

Restated(date, window) ==
    IF Previous(date) = {} THEN {Option(NextId, date, window, {})}
    ELSE {Option(o.id, date, window, {w \in o.excluded : ~Overlaps(w, window)}) :
             o \in Previous(date)}

MergedMutant(date, window) == options \cup Restated(date, window)

\* A date stated again replaces its options by one under the last one's id; the
\* exclusions the new window does not touch stay with it.
Merged(date, window) ==
    {o \in options : o.date # date} \cup Restated(date, window)

\* The customer names another time, and so comes back to what they turned down there.
record_availability(date, window) ==
    /\ Order \notin DOMAIN lock /\ Cardinality(restated) < MaxRestated
    /\ options' = Merged(date, window)
    /\ declined' = {d \in declined : d[1] # date \/ ~Overlaps(d[2], window)}
    /\ restated' = restated \cup {<<date, window>>}
    /\ UNCHANGED <<path, only, routes, lock, offer, asked>>

\* The routes acceptance may publish: the one tested, or any the solver finds.
Accepted(s) ==
    LET locked == With(Bounded(s.window))
    IN  IF s.position > 0
        THEN {r \in {Insert(routes[s.date], s.position)} : OnTime(r, locked)}
        ELSE Solutions(Booked[s.date] \cup {Order}, locked)

accept_offer ==
    /\ offer # NoOffer
    /\ \E s \in offer.slots : \E r \in Accepted(s) :
         /\ routes' = [routes EXCEPT ![s.date] = r]
         /\ lock' = With(s.window)
    /\ offer' = NoOffer
    /\ UNCHANGED <<path, only, options, asked, declined, restated>>

Init ==
    /\ path \in {"solve", "insert"} /\ only \in BOOLEAN /\ (only => path = "insert")
    /\ lock \in [UNION {Booked[d] : d \in Dates} -> Given]
    /\ routes \in {f \in [Dates -> UNION {SetToSeqs(Booked[d]) : d \in Dates}] :
                      \A d \in Dates : f[d] \in Solutions(Booked[d], lock)}
    /\ \E named \in SUBSET Dates : \E window \in [named -> Stated] :
         options = {Option(d, d, window[d], {}) : d \in named}
    /\ offer = NoOffer /\ asked = {} /\ declined = {} /\ restated = {}

Next ==
    \/ create_offer
    \/ find_normal_slot \/ find_requested_day_slot \/ find_fallback_options
    \/ reject_offer \/ accept_offer
    \/ \E d \in Dates, w \in Stated : record_availability(d, w)

Spec == Init /\ [][Next]_vars

-----------------------------------------------------------------------------
Windows == [start : Int, end : Int]
Options == [id : Nat, date : Dates, window : Windows, excluded : SUBSET Windows]
OfferedSlots ==
    [id : Nat, date : Dates, arrival : Int, position : Nat, piece : Windows,
     window : Windows]

(* Types: the rows hold windows of bookable dates, no two options share an   *)
(* id, a route visits exactly the orders promised that day, each once, and   *)
(* an open offer has a slot and belongs to an order without a promise        *)
(* (models.JobRecord, AppointmentOffer; plan_service.solve_day).             *)
TypeOK ==
    /\ options \subseteq Options
    /\ \A o, p \in options : o.id = p.id => o = p
    /\ \A d \in Dates : /\ IsInjective(routes[d])
                        /\ Booked[d] \subseteq ToSet(routes[d])
                        /\ ToSet(routes[d]) \subseteq DOMAIN lock
    /\ \A o \in DOMAIN lock : lock[o] \in Windows
    /\ offer.slots \subseteq OfferedSlots
    /\ offer # NoOffer => offer.slots # {} /\ Order \notin DOMAIN lock

(* A promise covers the whole visit the route was solved with, asks for no   *)
(* minute the customer did not give, stays in the working day, and leaves    *)
(* the room to re-solve around it -- unless what the customer left us is     *)
(* narrower, which is then the promise (promise_window.py:65-74).            *)
PromiseSound ==
    path = "solve" => \A s \in offer.slots :
        LET visit == Window(s.arrival, s.arrival + Duration[Order])
            room == Duration[Order] + MinSlack
        IN  /\ Within(visit, s.window)
            /\ Within(s.window, Bounded(s.piece))
            /\ Width(s.window) >= room \/ s.window = Bounded(s.piece)

(* A time that was turned down is not asked about again, nor any part of it, *)
(* however the later rounds search and whatever they record about the day,   *)
(* until the customer comes back to it.  On the inserting path this holds    *)
(* for the dates whose time was not stated again: recording a slot or a time *)
(* there forgets the exclusions of the options it replaces                   *)
(* (offer_service.py:491-494, conversation.py:250, insertion_tools.py:378).  *)
DeclinedStaysOut ==
    \A s \in offer.slots : \A d \in declined :
        /\ d[1] = s.date
        /\ path = "insert" => \A t \in restated : t[1] # s.date
        => ~Overlaps(d[2], s.window)

(* While the routes stand, whichever slot the customer takes can be kept:    *)
(* the day has a route with them locked to it and nobody late; for an        *)
(* inserted slot it is the very route that was tested, with the arrival that *)
(* was quoted (insertion.py:243, candidate_service.py:169).                  *)
OfferCanBeKept ==
    \A s \in offer.slots :
        /\ Accepted(s) # {}
        /\ s.position > 0 =>
             \A r \in Accepted(s) :
                Arrivals(r, With(Bounded(s.window)))[s.position] = s.arrival
=============================================================================
