--------------------------- MODULE DayWindowsProofs ---------------------------
(***************************************************************************)
(* Proofs about the promises cut from solved days, for any working day,    *)
(* visit, promise width, slack and grid, and any number of rounds.         *)
(* PromiseHolds is the arithmetic of promise_window; the invariant Solving *)
(* carries it, and what was turned down, through the negotiation.          *)
(***************************************************************************)
EXTENDS DayWindows, TLAPS

\* An arrival the customer's window and the working day leave room for.
Room(arrival, duration, window) ==
  LET free == Bounded(window)
  IN  free.start <= arrival /\ arrival + duration <= free.end

Sound(arrival, duration, window, promise) ==
  /\ promise \in Windows
  /\ Within(Window(arrival, arrival + duration), promise)
  /\ Within(promise, Bounded(window))
  /\ Width(promise) >= duration + MinSlack \/ promise = Bounded(window)

LEMMA BoundedType ==
  ASSUME NEW w \in Windows
  PROVE  /\ Bounded(w) \in Windows
         /\ w.start <= Bounded(w).start /\ DayStart <= Bounded(w).start
         /\ Bounded(w).end <= w.end /\ Bounded(w).end <= Cutoff
BY DayAssumption DEF Bounded, Window, Windows, Most, Least

\* Wherever the nearest grid point lies, the start stays between the bounds.
LEMMA StartBounds ==
  ASSUME NEW arrival \in Int, NEW duration \in Nat \ {0}, NEW free \in Windows,
         free.start <= arrival, arrival + duration <= free.end,
         Width(free) > PromiseWidth(duration)
  PROVE  LET width == PromiseWidth(duration)
             start == PromiseStart(arrival, duration, free)
         IN  /\ start \in Int
             /\ free.start <= start /\ arrival + duration <= start + width
             /\ start <= arrival /\ start + width <= free.end
<1> DEFINE width == PromiseWidth(duration)
           earliest == Earliest(arrival + duration, width, free)
           latest == Latest(arrival, width, free)
           centred == arrival - ((width - duration) \div 2)
           nearest == ((centred + (Snap \div 2)) \div Snap) * Snap
           start == Least(Most(nearest, earliest), latest)
           rest == (-start) % Snap
<1>1. width \in Int /\ width >= duration + MinSlack
  BY DayAssumption DEF PromiseWidth, Most
<1>2. earliest \in Int /\ latest \in Int /\ earliest <= latest
  BY <1>1, DayAssumption DEF Earliest, Latest, Most, Least, Width, Windows
<1>3. nearest \in Int
  <2>1. Snap \div 2 \in Int
    BY DayAssumption
  <2>2. (width - duration) \div 2 \in Int
    BY <1>1
  <2>3. centred + (Snap \div 2) \in Int
    BY <2>1, <2>2
  <2> HIDE DEF centred
  <2>4. (centred + (Snap \div 2)) \div Snap \in Int
    BY <2>3, DayAssumption
  <2> QED
    BY <2>4, DayAssumption
<1> HIDE DEF nearest
<1>4. start \in Int /\ earliest <= start /\ start <= latest
  BY <1>2, <1>3 DEF Least, Most
<1> HIDE DEF start
<1>5. rest \in Int /\ rest >= 0
  BY <1>4, DayAssumption
<1> HIDE DEF rest, earliest, latest
<1> DEFINE chosen == IF start + rest <= latest THEN start + rest ELSE start
<1>6. chosen \in Int /\ earliest <= chosen /\ chosen <= latest
  BY <1>2, <1>4, <1>5
<1>7. PromiseStart(arrival, duration, free) = chosen
  BY DEF PromiseStart, start, nearest, centred, earliest, latest, rest
<1> HIDE DEF chosen
<1>8. /\ free.start <= earliest /\ arrival + duration - width <= earliest
      /\ latest <= arrival /\ latest <= free.end - width
  BY <1>1 DEF earliest, latest, Earliest, Latest, Most, Least, Windows
<1> HIDE DEF width
<1>9. /\ free.start <= chosen /\ arrival + duration <= chosen + width
      /\ chosen <= arrival /\ chosen + width <= free.end
  BY <1>1, <1>2, <1>6, <1>8 DEF Windows
<1> QED
  BY <1>6, <1>7, <1>9 DEF width

\* The window promised around an arrival holds the visit, stays inside the
\* customer's window and the working day, and leaves the slack unless the
\* customer's own window is narrower (promise_window.py promise_window,
\* _assert_promise_is_sound).
THEOREM PromiseHolds ==
  ASSUME NEW arrival \in Int, NEW duration \in Nat \ {0}, NEW window \in Windows,
         Room(arrival, duration, window)
  PROVE  Sound(arrival, duration, window, promise_window(arrival, duration, window))
<1> DEFINE free == Bounded(window)
           width == PromiseWidth(duration)
           start == PromiseStart(arrival, duration, free)
<1>1. free \in Windows /\ free.start <= arrival /\ arrival + duration <= free.end
  BY BoundedType DEF Room
<1>2. width \in Int /\ width >= duration + MinSlack
  BY DayAssumption DEF PromiseWidth, Most
<1>3. CASE Width(free) <= width
  <2>1. promise_window(arrival, duration, window) = free
    BY <1>3 DEF promise_window
  <2> QED
    BY <1>1, <2>1 DEF Sound, Within, Window, Windows
<1>4. CASE ~(Width(free) <= width)
  <2>1. promise_window(arrival, duration, window) = Window(start, start + width)
    BY <1>4 DEF promise_window
  <2>2. Width(free) > width
    BY <1>1, <1>2, <1>4 DEF Width, Windows
  <2>3. /\ start \in Int
        /\ free.start <= start /\ arrival + duration <= start + width
        /\ start <= arrival /\ start + width <= free.end
    BY <1>1, <2>2, StartBounds
  <2> HIDE DEF start, width, free
  <2>4. Window(start, start + width) \in Windows
    BY <1>2, <2>3 DEF Window, Windows
  <2>5. Within(Window(arrival, arrival + duration), Window(start, start + width))
    BY <2>3 DEF Within, Window
  <2>6. Within(Window(start, start + width), free)
    BY <2>3 DEF Within, Window
  <2>7. Width(Window(start, start + width)) >= duration + MinSlack
    BY <1>2, <2>3, DayAssumption DEF Width, Window
  <2> QED
    BY <2>1, <2>4, <2>5, <2>6, <2>7 DEF Sound, free
<1> QED
  BY <1>3, <1>4

-----------------------------------------------------------------------------
(* The negotiation that solves the customer's own windows.                 *)

\* The rows hold windows, and one option a date.
Rows ==
  /\ \A o \in options : o.window \in Windows /\ o.excluded \in SUBSET Windows
  /\ \A o, p \in options : o.date = p.date => o = p

\* Every slot on offer is a window of the option its date has now.
Linked ==
  \A s \in offer.slots :
    /\ s.window \in Windows
    /\ \E o \in options : o.id = s.id /\ o.date = s.date

\* What was declined is excluded from its date's option, or outside it.
Heard ==
  \A d \in declined :
    /\ d[2] \in Windows
    /\ \A o \in options :
         o.date = d[1] => ~Overlaps(d[2], o.window) \/ d[2] \in o.excluded

Solving == path = "solve" => Rows /\ Linked /\ Heard /\ PromiseSound /\ DeclinedStaysOut

LEMMA BookableType ==
  ASSUME NEW o, o.window \in Windows, o.excluded \in SUBSET Windows,
         NEW w \in bookable_windows(o)
  PROVE  /\ w \in Windows /\ Within(w, o.window)
         /\ \A gap \in o.excluded : ~Overlaps(w, gap)
<1>1. CASE o.excluded = {}
  BY <1>1 DEF bookable_windows, Within, Windows
<1>2. CASE o.excluded # {}
  <2>1. w \in subtract(o.window, o.excluded, Duration[Order] + MinSlack)
    BY <1>2 DEF bookable_windows
  <2>2. /\ Within(w, o.window)
        /\ \A gap \in o.excluded : ~Overlaps(w, gap)
    BY <2>1 DEF subtract
  <2>3. PICK s \in {o.window.start} \cup {gap.end : gap \in o.excluded},
             e \in {o.window.end} \cup {gap.start : gap \in o.excluded} :
               w = Window(s, e)
    BY <2>1 DEF subtract
  <2>4. s \in Int /\ e \in Int
    BY <2>3 DEF Windows
  <2> QED
    BY <2>2, <2>3, <2>4 DEF Window, Windows
<1> QED
  BY <1>1, <1>2

LEMMA PieceFits ==
  ASSUME NEW o, o.window \in Windows, o.excluded \in SUBSET Windows,
         NEW a \in Services(o)
  PROVE  /\ a \in Int
         /\ Piece(o, a) \in bookable_windows(o)
         /\ Room(a, Duration[Order], Piece(o, a))
<1> DEFINE D == Duration[Order]
           Holds(w) == w.start <= a /\ a + D <= w.end
<1>1. PICK w \in bookable_windows(o) : a \in ArrivalDomain(w)
  BY DEF Services
<1>2. w \in Windows
  BY <1>1, BookableType
<1>3. /\ a \in Int
      /\ Bounded(w).start <= a /\ a + D <= Bounded(w).end
  BY <1>1, <1>2, BoundedType, DayAssumption DEF ArrivalDomain, Windows
<1>4. Holds(w) /\ DayStart <= a /\ a + D <= Cutoff
  BY <1>2, <1>3, BoundedType, DayAssumption DEF Windows
<1>5. Piece(o, a) \in bookable_windows(o) /\ Holds(Piece(o, a))
  BY <1>1, <1>4 DEF Piece
<1>6. Piece(o, a) \in Windows
  BY <1>5, BookableType
<1>7. Room(a, D, Piece(o, a))
  BY <1>3, <1>4, <1>5, <1>6, DayAssumption
     DEF Room, Bounded, Window, Windows, Most, Least
<1> QED
  BY <1>3, <1>5, <1>7

\* What evaluating an option proposes.
LEMMA EvaluationSound ==
  ASSUME NEW o, o.window \in Windows, o.excluded \in SUBSET Windows,
         NEW e \in Feasible(o)
  PROVE  /\ e.id = o.id /\ e.date = o.date
         /\ e.piece \in bookable_windows(o)
         /\ Sound(e.arrival, Duration[Order], e.piece, e.window)
<1>1. PICK a \in Services(o) : e = Evaluation(o, a)
  BY DEF Feasible
<1>2. /\ a \in Int /\ Piece(o, a) \in bookable_windows(o)
      /\ Room(a, Duration[Order], Piece(o, a))
  BY PieceFits
<1>3. Piece(o, a) \in Windows
  BY <1>2, BookableType
<1>4. Sound(a, Duration[Order], Piece(o, a),
            promise_window(a, Duration[Order], Piece(o, a)))
  BY <1>2, <1>3, PromiseHolds, DayAssumption
<1> QED
  BY <1>1, <1>2, <1>4 DEF Evaluation

\* A promise keeps clear of everything its option excludes or leaves out.
LEMMA PromiseClear ==
  ASSUME NEW o, o.window \in Windows, o.excluded \in SUBSET Windows,
         NEW w \in bookable_windows(o), NEW p \in Windows, Within(p, Bounded(w)),
         NEW d \in Windows, ~Overlaps(d, o.window) \/ d \in o.excluded
  PROVE  ~Overlaps(d, p)
<1>1. w \in Windows /\ Within(w, o.window)
      /\ \A gap \in o.excluded : ~Overlaps(w, gap)
  BY BookableType
<1>2. Within(p, w)
  BY <1>1, BoundedType DEF Within, Windows
<1>3. ~Overlaps(d, w)
  BY <1>1 DEF Overlaps, Within, Windows
<1> QED
  BY <1>1, <1>2, <1>3 DEF Overlaps, Within, Windows

LEMMA SolvingInit == Init => Solving
<1> SUFFICES ASSUME Init PROVE Solving
  OBVIOUS
<1>1. offer.slots = {} /\ declined = {}
  BY DEF Init, NoOffer
<1>2. PICK named \in SUBSET Dates : \E window \in [named -> Stated] :
        options = {Option(d, d, window[d], {}) : d \in named}
  BY DEF Init
<1>3. PICK window \in [named -> Stated] :
        options = {Option(d, d, window[d], {}) : d \in named}
  BY <1>2
<1>4. \A o \in options : o.window \in Windows /\ o.excluded \in SUBSET Windows
  BY <1>3, DayAssumption DEF Option, Windows
<1>5. \A o, p \in options : o.date = p.date => o = p
  BY <1>3 DEF Option
<1>6. Rows
  BY <1>4, <1>5 DEF Rows
<1> QED
  BY <1>1, <1>6 DEF Solving, Linked, Heard, PromiseSound, DeclinedStaysOut

LEMMA CreateOfferSolving ==
  ASSUME Solving, create_offer
  PROVE  Solving'
<1>1. path = "solve" /\ path' = path /\ options' = options /\ declined' = declined
  BY DEF create_offer, Ask
<1>2. Rows /\ Heard
  BY <1>1 DEF Solving
<1>3. ASSUME NEW s \in offer'.slots
      PROVE  \E o \in options : s \in Feasible(o)
  BY <1>3 DEF create_offer, Ask, kSubset
<1>4. ASSUME NEW s \in offer'.slots
      PROVE  \E o \in options :
               /\ s.id = o.id /\ s.date = o.date
               /\ s.piece \in bookable_windows(o)
               /\ Sound(s.arrival, Duration[Order], s.piece, s.window)
  BY <1>2, <1>3, <1>4, EvaluationSound DEF Rows
<1>5. Rows' /\ Heard'
  BY <1>1, <1>2 DEF Rows, Heard
<1>6. Linked'
  BY <1>1, <1>4 DEF Linked, Sound
<1>7. PromiseSound'
  BY <1>4 DEF PromiseSound, Sound
<1>8. DeclinedStaysOut'
  <2> SUFFICES ASSUME NEW s \in offer'.slots, NEW d \in declined, d[1] = s.date
               PROVE  ~Overlaps(d[2], s.window)
    BY <1>1 DEF DeclinedStaysOut
  <2>1. PICK o \in options : /\ s.date = o.date
                             /\ s.piece \in bookable_windows(o)
                             /\ Sound(s.arrival, Duration[Order], s.piece, s.window)
    BY <1>4
  <2>2. o.window \in Windows /\ o.excluded \in SUBSET Windows
    BY <1>2 DEF Rows
  <2>3. d[2] \in Windows /\ (~Overlaps(d[2], o.window) \/ d[2] \in o.excluded)
    BY <1>2, <2>1 DEF Heard
  <2>4. s.window \in Windows /\ Within(s.window, Bounded(s.piece))
    BY <2>1 DEF Sound
  <2> QED
    BY <2>1, <2>2, <2>3, <2>4, PromiseClear
<1> QED
  BY <1>5, <1>6, <1>7, <1>8 DEF Solving

LEMMA RejectSolving ==
  ASSUME Solving, reject_offer
  PROVE  Solving'
<1> SUFFICES ASSUME path = "solve" PROVE Solving'
  BY DEF reject_offer, Solving
<1>1. Rows /\ Linked /\ Heard
  BY DEF Solving
<1>2. PICK slots \in SUBSET offer.slots :
        /\ options' = Reject(slots)
        /\ declined' = declined \cup {<<s.date, s.window>> : s \in slots}
  BY DEF reject_offer
<1>3. offer'.slots = {}
  BY DEF reject_offer, NoOffer
<1>4. Linked' /\ PromiseSound' /\ DeclinedStaysOut'
  BY <1>3 DEF Linked, PromiseSound, DeclinedStaysOut
<1> DEFINE carved(o) == o.excluded \cup {s.window : s \in {t \in slots : t.id = o.id}}
<1>5. options' = {Option(o.id, o.date, o.window, carved(o)) : o \in options}
  BY <1>2 DEF Reject
<1>6. ASSUME NEW o \in options
      PROVE  carved(o) \in SUBSET Windows
  BY <1>1, <1>2 DEF Rows, Linked
<1> HIDE DEF carved
<1>7. Rows'
  BY <1>1, <1>5, <1>6 DEF Rows, Option
<1>8. Heard'
  <2> SUFFICES ASSUME NEW d \in declined'
               PROVE  /\ d[2] \in Windows
                      /\ \A o \in options : o.date = d[1] =>
                           ~Overlaps(d[2], o.window) \/ d[2] \in carved(o)
    BY <1>5 DEF Heard, Option
  <2>1. CASE d \in declined
    BY <1>1, <2>1 DEF Heard, carved
  <2>2. CASE d \notin declined
    <3>1. PICK s \in slots : d = <<s.date, s.window>>
      BY <1>2, <2>2
    <3>2. PICK p \in options : p.id = s.id /\ p.date = s.date
      BY <1>1, <1>2 DEF Linked
    <3>3. \A o \in options : o.date = d[1] => o = p
      BY <1>1, <3>1, <3>2 DEF Rows
    <3>4. d[2] \in carved(p)
      BY <3>1, <3>2 DEF carved
    <3> QED
      BY <1>1, <1>2, <3>1, <3>3, <3>4 DEF Linked
  <2> QED
    BY <2>1, <2>2
<1> QED
  BY <1>4, <1>7, <1>8 DEF Solving

LEMMA RecordSolving ==
  ASSUME Solving, NEW date \in Dates, NEW window \in Stated,
         record_availability(date, window)
  PROVE  Solving'
<1> SUFFICES ASSUME path = "solve" PROVE Solving'
  BY DEF record_availability, Solving
<1>1. Rows /\ Linked /\ Heard /\ PromiseSound /\ DeclinedStaysOut
  BY DEF Solving
<1>2. /\ offer' = offer /\ path' = path
      /\ options' = Merged(date, window)
      /\ declined' \subseteq declined
      /\ \A d \in declined' : d[1] = date => ~Overlaps(d[2], window)
  BY DEF record_availability
<1>3. window \in Windows
  BY DayAssumption DEF Windows
<1>4. ASSUME NEW o \in options, o.date = date
      PROVE  Previous(date) = {o}
  BY <1>1, <1>4 DEF Previous, Rows
<1> DEFINE kept(o) == {w \in o.excluded : ~Overlaps(w, window)}
<1>5. ASSUME NEW o \in options, o.date = date
      PROVE  Restated(date, window) = {Option(o.id, date, window, kept(o))}
  BY <1>4, <1>5 DEF Restated
<1>6. ASSUME \A o \in options : o.date # date
      PROVE  Restated(date, window) = {Option(NextId, date, window, {})}
  BY <1>6 DEF Restated, Previous
<1>7. \E id, excluded : /\ Restated(date, window) = {Option(id, date, window, excluded)}
                        /\ excluded \in SUBSET Windows
                        /\ \A o \in options : o.date = date => o.id = id
  <2>1. CASE \E o \in options : o.date = date
    <3>1. PICK o \in options : o.date = date
      BY <2>1
    <3>2. kept(o) \in SUBSET Windows
      BY <1>1 DEF Rows
    <3>3. \A p \in options : p.date = date => p.id = o.id
      BY <1>1, <3>1 DEF Rows
    <3> QED
      BY <1>5, <3>1, <3>2, <3>3
  <2>2. CASE \A o \in options : o.date # date
    BY <1>6, <2>2
  <2> QED
    BY <2>1, <2>2
<1>8. PICK id, excluded :
         /\ Restated(date, window) = {Option(id, date, window, excluded)}
         /\ excluded \in SUBSET Windows
         /\ \A o \in options : o.date = date => o.id = id
  BY <1>7
<1>9. options' = {o \in options : o.date # date} \cup {Option(id, date, window, excluded)}
  BY <1>2, <1>8 DEF Merged
<1> DEFINE new == Option(id, date, window, excluded)
<1>10. /\ new.id = id /\ new.date = date /\ new.window = window
       /\ new.excluded = excluded
  BY DEF Option
<1> HIDE DEF new
<1>11. options' = {o \in options : o.date # date} \cup {new}
  BY <1>9 DEF new
<1>12. Rows'
  BY <1>1, <1>3, <1>8, <1>10, <1>11 DEF Rows
<1>13. Linked'
  <2> SUFFICES ASSUME NEW s \in offer.slots
               PROVE  /\ s.window \in Windows
                      /\ \E o \in options' : o.id = s.id /\ o.date = s.date
    BY <1>2 DEF Linked
  <2>1. PICK o \in options : o.id = s.id /\ o.date = s.date
    BY <1>1 DEF Linked
  <2>2. CASE o.date = date
    BY <1>1, <1>8, <1>10, <1>11, <2>1, <2>2 DEF Linked
  <2>3. CASE o.date # date
    BY <1>1, <1>11, <2>1, <2>3 DEF Linked
  <2> QED
    BY <2>2, <2>3
<1>14. Heard'
  <2> SUFFICES ASSUME NEW d \in declined'
               PROVE  /\ d[2] \in Windows
                      /\ \A o \in options' : o.date = d[1] =>
                           ~Overlaps(d[2], o.window) \/ d[2] \in o.excluded
    BY DEF Heard
  <2>1. d \in declined
    BY <1>2
  <2>2. ASSUME NEW o \in options', o.date = d[1]
        PROVE  ~Overlaps(d[2], o.window) \/ d[2] \in o.excluded
    <3>1. CASE o = new
      BY <1>2, <1>10, <2>2, <3>1
    <3>2. CASE o \in options
      BY <1>1, <2>1, <2>2, <3>2 DEF Heard
    <3> QED
      BY <1>11, <3>1, <3>2
  <2> QED
    BY <1>1, <2>1, <2>2 DEF Heard
<1>15. PromiseSound'
  BY <1>1, <1>2 DEF PromiseSound
<1>16. DeclinedStaysOut'
  BY <1>1, <1>2 DEF DeclinedStaysOut
<1> QED
  BY <1>12, <1>13, <1>14, <1>15, <1>16 DEF Solving

\* Acceptance closes the offer; inserting slots belongs to the other path.
LEMMA SolvingNext == Solving /\ [Next]_vars => Solving'
<1> SUFFICES ASSUME Solving, [Next]_vars PROVE Solving'
  OBVIOUS
<1>1. CASE create_offer
  BY <1>1, CreateOfferSolving
<1>2. CASE reject_offer
  BY <1>2, RejectSolving
<1>3. CASE \E d \in Dates, w \in Stated : record_availability(d, w)
  BY <1>3, RecordSolving
<1>4. CASE find_normal_slot
  BY <1>4 DEF find_normal_slot, offer_insertions, Ask, Solving
<1>5. CASE find_requested_day_slot
  BY <1>5 DEF find_requested_day_slot, offer_insertions, Ask, Solving
<1>6. CASE find_fallback_options
  BY <1>6 DEF find_fallback_options, offer_insertions, Ask, Solving
<1>7. CASE accept_offer
  <2>1. /\ offer'.slots = {} /\ path' = path
        /\ options' = options /\ declined' = declined
    BY <1>7 DEF accept_offer, NoOffer
  <2> QED
    BY <2>1 DEF Solving, Rows, Linked, Heard, PromiseSound, DeclinedStaysOut
<1>8. CASE UNCHANGED vars
  BY <1>8 DEF vars, Solving, Rows, Linked, Heard, PromiseSound, DeclinedStaysOut
<1> QED
  BY <1>1, <1>2, <1>3, <1>4, <1>5, <1>6, <1>7, <1>8 DEF Next

LEMMA SolvingAlways == Spec => []Solving
<1> QED
  BY SolvingInit, SolvingNext, PTL DEF Spec

\* Every promise on offer holds the visit it was cut around, inside the time
\* the customer left us and the working day, with the slack a re-solve needs.
THEOREM PromisesSound == Spec => []PromiseSound
<1>1. Solving => PromiseSound
  BY DEF Solving, PromiseSound
<1> QED
  BY <1>1, SolvingAlways, PTL

\* Where the customer's own windows are solved, nothing that was turned down is
\* offered again, whatever is declined and named in between.
THEOREM DeclinedNotOffered == Spec => [](path = "solve" => DeclinedStaysOut)
<1>1. Solving => (path = "solve" => DeclinedStaysOut)
  BY DEF Solving
<1> QED
  BY <1>1, SolvingAlways, PTL
=============================================================================
