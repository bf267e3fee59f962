--------------------------- MODULE DayRoutesProofs ----------------------------
(***************************************************************************)
(* Proofs about the days an order is offered on, for any dates, routes,    *)
(* legs, visits, slots and rounds.  The recursion of Arrivals is shown to  *)
(* have a solution (DriveExists), so the drive of a route may be reasoned  *)
(* about stop by stop, each time from the first stop that would go wrong:  *)
(* KeepsTime says when one drive stays on time with other windows.  The    *)
(* invariant Fitting types the rows, numbers the slots and keeps every     *)
(* route a tour of the promised orders; AllKept then says that whatever is *)
(* on offer fits the day it is offered on.                                 *)
(***************************************************************************)
EXTENDS DayWindowsProofs, SequenceTheorems, FiniteSetTheorems, WellFoundedInduction

-----------------------------------------------------------------------------
(* The drive of a day.                                                     *)

\* A set of numbers has a least one: the induction along a route.
LEMMA LeastNumber ==
  ASSUME NEW S \in SUBSET Nat, S # {}
  PROVE  \E m \in S : \A k \in S : m <= k
<1>1. PICK m \in S : \A k \in S : <<k, m>> \notin OpToRel(<, Nat)
  BY NatLessThanWellFounded, WFMin, Zenon
<1>2. \A k \in S : ~(k < m)
  BY <1>1 DEF OpToRel
<1> QED
  BY <1>2

Leg(p, q) == Minutes[p, q]

\* One step of the drive: the van leaves the stop before and waits for the
\* window to open.
Reached(f, route, window, i) ==
  Most(window[route[i]].start,
       IF i = 1 THEN DayStart + Leg(Depot, route[1])
       ELSE f[i - 1] + Duration[route[i - 1]] + Leg(route[i - 1], route[i]))

Driven(f, route, window, n) == f = [i \in 1 .. n |-> Reached(f, route, window, i)]

LEMMA DriveExists ==
  ASSUME NEW route, NEW window, NEW n \in Nat
  PROVE  \E f : Driven(f, route, window, n)
<1> DEFINE Drivable(k) == \E f : Driven(f, route, window, k)
           Bad == {k \in Nat : ~Drivable(k)}
<1> SUFFICES ASSUME Bad # {} PROVE FALSE
  OBVIOUS
<1>1. PICK m \in Bad : \A k \in Bad : m <= k
  BY LeastNumber
<1>2. CASE m = 0
  <2> DEFINE g == [i \in 1 .. 0 |-> 0]
  <2>1. Driven(g, route, window, 0)
    BY DEF Driven
  <2> QED
    BY <1>2, <2>1
<1>3. CASE m # 0
  <2>1. m - 1 \in Nat /\ Drivable(m - 1)
    BY <1>1, <1>3
  <2>2. PICK f : Driven(f, route, window, m - 1)
    BY <2>1
  <2>5. \A i \in 1 .. m - 1 : f[i] = Reached(f, route, window, i)
    BY <2>2 DEF Driven
  <2>6. m \in Nat
    BY <1>1
  <2> DEFINE g == [i \in 1 .. m |-> IF i = m THEN Reached(f, route, window, m)
                                    ELSE f[i]]
  <2>3. ASSUME NEW i \in 1 .. m
        PROVE  g[i] = Reached(g, route, window, i)
    <3>1. i \in Nat /\ i >= 1 /\ i <= m
      BY <2>6
    <3>2. ASSUME i # 1 PROVE g[i - 1] = f[i - 1]
      <4>1. i - 1 \in 1 .. m /\ i - 1 # m
        BY <2>6, <3>1, <3>2
      <4> QED
        BY <4>1
    <3>3. Reached(g, route, window, i) = Reached(f, route, window, i)
      <4>1. CASE i = 1
        BY <4>1, Zenon DEF Reached
      <4>2. CASE i # 1
        <5>1. g[i - 1] = f[i - 1]
          BY <3>2, <4>2
        <5> HIDE DEF g
        <5> QED
          BY <4>2, <5>1 DEF Reached
      <4> QED
        BY <4>1, <4>2
    <3>4. ASSUME i # m PROVE f[i] = Reached(f, route, window, i)
      <4>1. i \in 1 .. m - 1
        BY <2>6, <3>1, <3>4
      <4> QED
        BY <2>5, <4>1
    <3> QED
      BY <3>3, <3>4
  <2>4. Driven(g, route, window, m)
    BY <2>3 DEF Driven
  <2> QED
    BY <2>4, <1>1
<1> QED
  BY <1>2, <1>3

\* The recursion of Arrivals has a solution, so Arrivals is one.
LEMMA ArrivalsDriven ==
  ASSUME NEW route, NEW window, Len(route) \in Nat
  PROVE  Driven(Arrivals(route, window), route, window, Len(route))
<1>1. \E f : Driven(f, route, window, Len(route))
  BY DriveExists
<1>2. Arrivals(route, window) = CHOOSE f : Driven(f, route, window, Len(route))
  BY DEF Arrivals, Driven, Reached, Leg
<1> QED
  BY <1>1, <1>2

LEMMA LegTyped ==
  /\ \A q \in Stops : Leg(Depot, q) \in Int
  /\ \A p, q \in Stops : Leg(p, q) \in Int
  /\ \A p \in Stops : Duration[p] \in Int /\ Leg(p, Depot) \in Int
<1>1. \A p, q \in Stops \cup {Depot} : Leg(p, q) \in Int
  BY LegAssumption, Zenon DEF Leg
<1>2. \A p \in Stops : Duration[p] \in Int
  BY LegAssumption, Zenon
<1>3. Depot \in Stops \cup {Depot} /\ \A p \in Stops : p \in Stops \cup {Depot}
  OBVIOUS
<1> QED
  BY <1>1, <1>2, <1>3, Zenon

Scheduled(route, window) ==
  /\ route \in Seq(Stops)
  /\ \A i \in 1 .. Len(route) : window[route[i]] \in Windows

\* The van reaches every stop at some minute, not before its window opens.
LEMMA ArrivalsTyped ==
  ASSUME NEW route, NEW window, Scheduled(route, window)
  PROVE  /\ Len(route) \in Nat
         /\ DOMAIN Arrivals(route, window) = 1 .. Len(route)
         /\ \A i \in 1 .. Len(route) :
              /\ Arrivals(route, window)[i] \in Int
              /\ Arrivals(route, window)[i]
                   = Reached(Arrivals(route, window), route, window, i)
              /\ window[route[i]].start <= Arrivals(route, window)[i]
<1> DEFINE n == Len(route)
           A == Arrivals(route, window)
           Bad == {k \in 1 .. n : A[k] \notin Int}
<1>1. n \in Nat /\ \A i \in 1 .. n : route[i] \in Stops
  BY DEF Scheduled
<1>2. Driven(A, route, window, n)
  BY <1>1, ArrivalsDriven
<1> HIDE DEF A, n
<1>3. DOMAIN A = 1 .. n /\ \A i \in 1 .. n : A[i] = Reached(A, route, window, i)
  BY <1>2 DEF Driven
<1>4. \A i \in 1 .. n : window[route[i]] \in Windows
  BY DEF Scheduled, n
<1>5. Bad = {}
  <2> SUFFICES ASSUME Bad # {} PROVE FALSE
    OBVIOUS
  <2>0. Bad \in SUBSET Nat
    BY <1>1
  <2>1. PICK m \in Bad : \A k \in Bad : m <= k
    BY <2>0, LeastNumber
  <2>2. /\ m \in 1 .. n /\ m \in Nat /\ A[m] \notin Int
        /\ \A k \in 1 .. n : k < m => A[k] \in Int
    BY <1>1, <2>1
  <2>3. window[route[m]].start \in Int
    BY <1>4, <2>2 DEF Windows
  <2>4. CASE m = 1
    <3>0. route[1] \in Stops
      BY <1>1, <2>2, <2>4
    <3>3. Leg(Depot, route[1]) \in Int
      BY <3>0, LegTyped, Zenon
    <3>1. DayStart + Leg(Depot, route[1]) \in Int
      BY <3>3, DayAssumption
    <3>2. A[m] = Most(window[route[m]].start, DayStart + Leg(Depot, route[1]))
      BY <1>3, <2>2, <2>4 DEF Reached
    <3> QED
      BY <2>2, <2>3, <3>1, <3>2 DEF Most
  <2>5. CASE m # 1
    <3>1. m - 1 \in 1 .. n /\ m - 1 < m
      BY <1>1, <2>2, <2>5
    <3>2. A[m - 1] \in Int /\ route[m - 1] \in Stops /\ route[m] \in Stops
      BY <1>1, <2>2, <3>1
    <3>5. Duration[route[m - 1]] \in Int /\ Leg(route[m - 1], route[m]) \in Int
      BY <3>2, LegTyped, Zenon
    <3>3. A[m - 1] + Duration[route[m - 1]] + Leg(route[m - 1], route[m]) \in Int
      BY <3>2, <3>5
    <3>4. A[m] = Most(window[route[m]].start,
                      A[m - 1] + Duration[route[m - 1]] + Leg(route[m - 1], route[m]))
      BY <1>3, <2>2, <2>5 DEF Reached
    <3> QED
      BY <2>2, <2>3, <3>3, <3>4 DEF Most
  <2> QED
    BY <2>4, <2>5
<1>6. ASSUME NEW i \in 1 .. n
      PROVE  window[route[i]].start <= A[i]
  <2>1. window[route[i]].start \in Int /\ A[i] \in Int
    BY <1>4, <1>5 DEF Windows
  <2> DEFINE other == IF i = 1 THEN DayStart + Leg(Depot, route[1])
                      ELSE A[i - 1] + Duration[route[i - 1]]
                             + Leg(route[i - 1], route[i])
  <2>2. A[i] = Most(window[route[i]].start, other)
    BY <1>3 DEF Reached
  <2>3. other \in Int
    <3>1. CASE i = 1
      <4>1. route[1] \in Stops
        BY <1>1, <3>1
      <4>2. Leg(Depot, route[1]) \in Int
        BY <4>1, LegTyped, Zenon
      <4> QED
        BY <3>1, <4>2, DayAssumption
    <3>2. CASE i # 1
      <4>1. i - 1 \in 1 .. n
        BY <1>1, <3>2
      <4>2. A[i - 1] \in Int /\ route[i - 1] \in Stops /\ route[i] \in Stops
        BY <1>1, <1>5, <4>1
      <4>3. Duration[route[i - 1]] \in Int /\ Leg(route[i - 1], route[i]) \in Int
        BY <4>2, LegTyped, Zenon
      <4> QED
        BY <3>2, <4>2, <4>3
    <3> QED
      BY <3>1, <3>2
  <2> HIDE DEF other
  <2> QED
    BY <2>1, <2>2, <2>3 DEF Most
<1> QED
  BY <1>1, <1>3, <1>5, <1>6 DEF A, n

\* With windows that were open when the van came no stop is reached later.
LEMMA NotLater ==
  ASSUME NEW route, NEW v, NEW w, Scheduled(route, v), Scheduled(route, w),
         \A i \in 1 .. Len(route) : w[route[i]].start <= Arrivals(route, v)[i]
  PROVE  \A i \in 1 .. Len(route) : Arrivals(route, w)[i] <= Arrivals(route, v)[i]
<1> DEFINE n == Len(route)
           V == Arrivals(route, v)
           W == Arrivals(route, w)
           Bad == {k \in 1 .. n : ~(W[k] <= V[k])}
<1>1. /\ n \in Nat
      /\ \A i \in 1 .. n : /\ V[i] \in Int /\ W[i] \in Int
                           /\ V[i] = Reached(V, route, v, i)
                           /\ W[i] = Reached(W, route, w, i)
                           /\ v[route[i]].start <= V[i]
                           /\ w[route[i]].start <= V[i]
  BY ArrivalsTyped
<1>2. \A i \in 1 .. n : /\ route[i] \in Stops
                        /\ v[route[i]].start \in Int /\ w[route[i]].start \in Int
  BY DEF Scheduled, Windows
<1> HIDE DEF n, V, W
<1>3. Bad = {}
  <2> SUFFICES ASSUME Bad # {} PROVE FALSE
    OBVIOUS
  <2>0. Bad \in SUBSET Nat
    BY <1>1
  <2>1. PICK m \in Bad : \A k \in Bad : m <= k
    BY <2>0, LeastNumber
  <2>2. /\ m \in 1 .. n /\ m \in Nat /\ ~(W[m] <= V[m])
        /\ \A k \in 1 .. n : k < m => W[k] <= V[k]
    BY <1>1, <2>1
  <2>3. /\ V[m] \in Int /\ W[m] \in Int /\ w[route[m]].start <= V[m]
        /\ v[route[m]].start \in Int /\ w[route[m]].start \in Int
    BY <1>1, <1>2, <2>2
  <2>4. CASE m = 1
    <3> DEFINE first == DayStart + Leg(Depot, route[1])
    <3>0. route[1] \in Stops
      BY <1>2, <2>2, <2>4
    <3>3. Leg(Depot, route[1]) \in Int
      BY <3>0, LegTyped, Zenon
    <3>1. first \in Int
      BY <3>3, DayAssumption
    <3>2. V[m] = Most(v[route[m]].start, first) /\ W[m] = Most(w[route[m]].start, first)
      BY <1>1, <2>2, <2>4 DEF Reached
    <3> HIDE DEF first
    <3> QED
      BY <2>2, <2>3, <3>1, <3>2 DEF Most
  <2>5. CASE m # 1
    <3> DEFINE leg == Leg(route[m - 1], route[m])
               visit == Duration[route[m - 1]]
    <3>1. m - 1 \in 1 .. n /\ m - 1 < m
      BY <1>1, <2>2, <2>5
    <3>2. /\ W[m - 1] <= V[m - 1] /\ W[m - 1] \in Int /\ V[m - 1] \in Int
          /\ route[m - 1] \in Stops /\ route[m] \in Stops
      BY <1>1, <1>2, <2>2, <3>1
    <3>3. leg \in Int /\ visit \in Int
      BY <3>2, LegTyped, Zenon
    <3>4. /\ V[m] = Most(v[route[m]].start, V[m - 1] + visit + leg)
          /\ W[m] = Most(w[route[m]].start, W[m - 1] + visit + leg)
      BY <1>1, <2>2, <2>5 DEF Reached
    <3> DEFINE vNext == V[m - 1] + visit + leg
               wNext == W[m - 1] + visit + leg
    <3> HIDE DEF leg, visit
    <3>5. vNext \in Int /\ wNext \in Int /\ wNext <= vNext
      BY <3>2, <3>3
    <3>6. V[m] = Most(v[route[m]].start, vNext) /\ W[m] = Most(w[route[m]].start, wNext)
      BY <3>4
    <3> HIDE DEF vNext, wNext
    <3> QED
      BY <2>2, <2>3, <3>5, <3>6 DEF Most
  <2> QED
    BY <2>4, <2>5
<1> QED
  BY <1>3 DEF n, V, W

LEMMA ReturnOf ==
  ASSUME NEW route, NEW window, Scheduled(route, window), route # <<>>
  PROVE  LET n == Len(route)
             A == Arrivals(route, window)
         IN  /\ n \in 1 .. n
             /\ Return(route, A) = A[n] + Duration[route[n]] + Leg(route[n], Depot)
<1> DEFINE n == Len(route)
           A == Arrivals(route, window)
<1>1. n \in Nat /\ DOMAIN A = 1 .. n /\ \A i \in 1 .. n : A[i] \in Int
  BY ArrivalsTyped
<1>2. A \in Seq(Int) /\ Len(A) = n
  <2> HIDE DEF A, n
  <2>1. A = [i \in 1 .. n |-> A[i]]
    <3>1. Driven(A, route, window, n)
      BY <1>1, ArrivalsDriven DEF A, n
    <3> QED
      BY <3>1 DEF Driven
  <2>2. A \in [1 .. n -> Int]
    BY <1>1, <2>1
  <2> QED
    BY <1>1, <2>2
<1>3. n # 0
  BY EmptySeq DEF Scheduled
<1>4. Last(A) = A[n] /\ Last(route) = route[n]
  BY <1>2 DEF Last
<1>5. Return(route, A) = Last(A) + Duration[Last(route)] + Leg(Last(route), Depot)
  BY Zenon DEF Return, Leg
<1> QED
  BY <1>1, <1>3, <1>4, <1>5

\* A drive that is on time stays so with other windows, as long as they are
\* open when the van came.
LEMMA KeepsTime ==
  ASSUME NEW route, NEW v, NEW w, Scheduled(route, v), Scheduled(route, w),
         OnTime(route, v),
         \A i \in 1 .. Len(route) : /\ w[route[i]].start <= Arrivals(route, v)[i]
                                    /\ Arrivals(route, v)[i] <= w[route[i]].end
  PROVE  OnTime(route, w)
<1> DEFINE n == Len(route)
           V == Arrivals(route, v)
           W == Arrivals(route, w)
<1>1. n \in Nat /\ \A i \in 1 .. n : V[i] \in Int /\ W[i] \in Int
  BY ArrivalsTyped
<1>2. \A i \in 1 .. n : W[i] <= V[i]
  BY NotLater
<1>3. \A i \in 1 .. n : /\ route[i] \in Stops /\ w[route[i]].end \in Int
                        /\ V[i] <= w[route[i]].end
  BY DEF Scheduled, Windows
<1>4. Return(route, V) <= RouteEnd
  BY DEF OnTime
<1>5. \A i \in 1 .. n : W[i] <= w[route[i]].end
  <2> HIDE DEF n, V, W
  <2> QED
    BY <1>1, <1>2, <1>3
<1>6. Return(route, W) <= RouteEnd
  <2>1. CASE route = <<>>
    BY <1>4, <2>1 DEF Return
  <2>2. CASE route # <<>>
    <3> DEFINE rest == Duration[route[n]]
               leg == Leg(route[n], Depot)
    <3>1. /\ n \in 1 .. n
          /\ Return(route, V) = V[n] + rest + leg
          /\ Return(route, W) = W[n] + rest + leg
      BY <2>2, ReturnOf
    <3>2. rest \in Int /\ leg \in Int
      BY <1>3, <3>1, LegTyped
    <3>3. RouteEnd \in Int
      BY LegAssumption, Zenon
    <3>4. V[n] \in Int /\ W[n] \in Int /\ W[n] <= V[n]
      BY <1>1, <1>2, <3>1
    <3> HIDE DEF rest, leg, V, W
    <3> QED
      BY <1>4, <3>1, <3>2, <3>3, <3>4
  <2> QED
    BY <2>1, <2>2
<1> QED
  BY <1>5, <1>6 DEF OnTime

-----------------------------------------------------------------------------
(* What can be kept.                                                       *)

\* The delivery slots end within the working day.
SlotsInDay == \A i \in DOMAIN Slots : Slots[i].end <= Cutoff

Promised == UNION {Booked[d] : d \in Dates}

\* The day as it was planned, the order not yet on it.
Standing ==
  /\ Order \notin DOMAIN lock
  /\ lock \in [Promised -> Windows]
  /\ \A d \in Dates : routes[d] \in Seq(Promised)

Kept(s) ==
  /\ Accepted(s) # {}
  /\ s.position > 0 =>
       \A r \in Accepted(s) :
          Arrivals(r, With(Bounded(s.window)))[s.position] = s.arrival

LEMMA WithWindow ==
  ASSUME Standing, NEW w \in Windows
  PROVE  /\ With(w)[Order] = w
         /\ \A o \in Promised : o # Order /\ With(w)[o] = lock[o]
         /\ \A o \in Stops : With(w)[o] \in Windows
<1>1. DOMAIN lock = Promised /\ Order \notin Promised
      /\ \A o \in Promised : lock[o] \in Windows
  BY DEF Standing
<1>2. With(w)[Order] = w
  BY DEF With
<1>3. ASSUME NEW o \in Promised
      PROVE  o # Order /\ With(w)[o] = lock[o]
  BY <1>1 DEF With
<1>4. Stops = Promised \cup {Order}
  BY DEF Stops, Promised
<1> QED
  BY <1>1, <1>2, <1>3, <1>4

\* Two windows for the order, the second open when the van comes: the drive
\* that was on time with the first is on time with the second.
LEMMA WindowSwap ==
  ASSUME Standing, NEW v \in Windows, NEW w \in Windows,
         NEW r \in Seq(Stops), OnTime(r, With(v)),
         \A i \in 1 .. Len(r) : r[i] = Order =>
            /\ w.start <= Arrivals(r, With(v))[i]
            /\ Arrivals(r, With(v))[i] <= w.end
  PROVE  /\ OnTime(r, With(w))
         /\ \A i \in 1 .. Len(r) :
              Arrivals(r, With(w))[i] <= Arrivals(r, With(v))[i]
<1>1. Scheduled(r, With(v)) /\ Scheduled(r, With(w))
  BY WithWindow, ElementOfSeq DEF Scheduled
<1> DEFINE V == Arrivals(r, With(v))
<1>2. ASSUME NEW i \in 1 .. Len(r)
      PROVE  With(w)[r[i]].start <= V[i] /\ V[i] <= With(w)[r[i]].end
  <2>1. r[i] \in Stops
    BY ElementOfSeq
  <2>2. CASE r[i] = Order
    BY <2>2, WithWindow
  <2>3. CASE r[i] # Order
    <3>1. r[i] \in Promised
      BY <2>1, <2>3 DEF Stops, Promised
    <3>2. With(w)[r[i]] = With(v)[r[i]]
      BY <3>1, WithWindow
    <3>3. With(v)[r[i]].start <= V[i]
      BY <1>1, ArrivalsTyped
    <3>4. V[i] <= With(v)[r[i]].end
      BY DEF OnTime
    <3> QED
      BY <3>2, <3>3, <3>4
  <2> QED
    BY <2>2, <2>3
<1>3. OnTime(r, With(w))
  BY <1>1, <1>2, KeepsTime
<1>4. \A i \in 1 .. Len(r) : Arrivals(r, With(w))[i] <= V[i]
  BY <1>1, <1>2, NotLater
<1> QED
  BY <1>3, <1>4

\* A solver's route visits stops of its day.
LEMMA SolutionRoute ==
  ASSUME NEW d \in Dates, NEW window, NEW r \in Solutions(Booked[d] \cup {Order}, window)
  PROVE  r \in Seq(Stops) /\ r \in SetToSeqs(Booked[d] \cup {Order})
                          /\ OnTime(r, window)
<1> DEFINE S == Booked[d] \cup {Order}
           n == Cardinality(S)
<1>1. r \in SetToSeqs(S) /\ OnTime(r, window)
  BY DEF Solutions
<1>2. IsFiniteSet(S)
  <2>1. IsFiniteSet(Booked[d])
    BY LegAssumption, Zenon
  <2> QED
    BY <2>1, FS_AddElement
<1>3. n \in Nat
  BY <1>2, FS_CardinalityType
<1>4. r \in [1 .. n -> S]
  BY <1>1 DEF SetToSeqs
<1>5. S \subseteq Stops
  BY DEF Stops
<1> HIDE DEF n, S
<1>6. r \in Seq(Stops)
  <2>1. r \in [1 .. n -> Stops]
    BY <1>4, <1>5
  <2> QED
    BY <1>3, <2>1, SeqDef
<1> QED
  BY <1>1, <1>6 DEF S

\* A time the solver found for a stated window can be kept.
LEMMA SolvedKept ==
  ASSUME Standing, NEW o, o.window \in Windows, o.excluded \in SUBSET Windows,
         o.date \in Dates, NEW s \in Feasible(o)
  PROVE  Kept(s)
<1>1. PICK a \in Services(o) : s = Evaluation(o, a)
  BY DEF Feasible
<1>2. s.position = 0 /\ s.date = o.date /\ s.arrival = a
  BY <1>1 DEF Evaluation
<1>3. /\ s.piece \in bookable_windows(o)
      /\ Sound(a, Duration[Order], s.piece, s.window)
  BY <1>2, EvaluationSound
<1>4. s.piece \in Windows
  BY <1>3, BookableType
<1>5. a \in Int
  BY PieceFits
<1>6. Fits(o.date, a)
  BY DEF Services
<1> DEFINE arrive == Window(a, a)
           promise == Bounded(s.window)
<1>7. PICK r \in Solutions(Booked[o.date] \cup {Order}, With(arrive)) : TRUE
  BY <1>6 DEF Fits
<1>8. /\ r \in Seq(Stops) /\ r \in SetToSeqs(Booked[o.date] \cup {Order})
      /\ OnTime(r, With(arrive))
  BY <1>7, SolutionRoute
<1>9. arrive \in Windows /\ arrive.start = a /\ arrive.end = a
  BY <1>5 DEF Window, Windows
<1>10. promise \in Windows /\ promise.start <= a /\ a <= promise.end
  <2>1. s.window \in Windows /\ Within(Window(a, a + Duration[Order]), s.window)
        /\ Within(s.window, Bounded(s.piece))
    BY <1>3 DEF Sound
  <2>2. /\ Bounded(s.piece) \in Windows
        /\ DayStart <= Bounded(s.piece).start /\ Bounded(s.piece).end <= Cutoff
    BY <1>4, BoundedType
  <2>3. /\ s.window.start \in Int /\ s.window.end \in Int
        /\ s.window.start <= a /\ a + Duration[Order] <= s.window.end
        /\ DayStart <= s.window.start /\ s.window.end <= Cutoff
    BY <1>5, <2>1, <2>2, DayAssumption DEF Within, Window, Windows
  <2>4. promise.start = s.window.start /\ promise.end = s.window.end
    BY <2>3, DayAssumption DEF Bounded, Window, Most, Least
  <2>5. promise \in Windows
    BY <2>1, BoundedType
  <2> QED
    BY <1>5, <2>3, <2>4, <2>5, DayAssumption
<1> HIDE DEF arrive, promise
<1>11. ASSUME NEW i \in 1 .. Len(r), r[i] = Order
       PROVE  Arrivals(r, With(arrive))[i] = a
  <2>1. Scheduled(r, With(arrive))
    BY <1>8, <1>9, WithWindow, ElementOfSeq DEF Scheduled
  <2>2. With(arrive)[r[i]] = arrive
    BY <1>9, <1>11, WithWindow
  <2>3. /\ Arrivals(r, With(arrive))[i] \in Int
        /\ arrive.start <= Arrivals(r, With(arrive))[i]
    BY <2>1, <2>2, ArrivalsTyped
  <2>4. Arrivals(r, With(arrive))[i] <= arrive.end
    BY <1>8, <2>2 DEF OnTime
  <2> QED
    BY <1>5, <1>9, <2>3, <2>4
<1>12. OnTime(r, With(promise))
  BY <1>8, <1>9, <1>10, <1>11, WindowSwap
<1>13. Accepted(s) = Solutions(Booked[o.date] \cup {Order}, With(promise))
  BY <1>2 DEF Accepted, promise
<1>14. r \in Accepted(s)
  BY <1>8, <1>12, <1>13 DEF Solutions
<1> QED
  BY <1>2, <1>14 DEF Kept

\* Inserting adds the order at its position and moves no other stop.
LEMMA InsertRoute ==
  ASSUME NEW route \in Seq(Promised), NEW p \in 1 .. Len(route) + 1
  PROVE  /\ Insert(route, p) \in Seq(Stops)
         /\ Len(Insert(route, p)) = Len(route) + 1
         /\ \A i \in 1 .. Len(route) + 1 :
              Insert(route, p)[i] = IF i < p THEN route[i]
                                    ELSE IF i = p THEN Order ELSE route[i - 1]
         /\ Insert(route, p)[p] = Order
         /\ \A i \in 1 .. Len(route) + 1 : i # p => Insert(route, p)[i] \in Promised
<1> DEFINE n == Len(route)
           before == SubSeq(route, 1, p - 1)
           after == SubSeq(route, p, n)
<1>1. n \in Nat /\ p \in Nat /\ p >= 1 /\ p <= n + 1
      /\ \A i \in 1 .. n : route[i] \in Promised
  BY LenProperties, ElementOfSeq
<1>2. Promised \subseteq Stops /\ Order \in Stops
  BY DEF Promised, Stops
<1>3. /\ before \in Seq(Promised) /\ Len(before) = p - 1
      /\ \A i \in 1 .. p - 1 : before[i] = route[i]
  <2>1. \A i \in 1 .. p - 1 : route[i] \in Promised
    BY <1>1
  <2>2. /\ before \in Seq(Promised)
        /\ Len(before) = IF 1 <= p - 1 THEN p - 1 - 1 + 1 ELSE 0
        /\ \A i \in 1 .. p - 1 - 1 + 1 : before[i] = route[1 + i - 1]
    BY <1>1, <2>1, SubSeqProperties
  <2> HIDE DEF before
  <2> QED
    BY <1>1, <2>2
<1>4. /\ after \in Seq(Promised) /\ Len(after) = n - p + 1
      /\ \A i \in 1 .. n - p + 1 : after[i] = route[p + i - 1]
  <2>1. \A i \in p .. n : route[i] \in Promised
    BY <1>1
  <2>2. /\ after \in Seq(Promised)
        /\ Len(after) = IF p <= n THEN n - p + 1 ELSE 0
        /\ \A i \in 1 .. n - p + 1 : after[i] = route[p + i - 1]
    BY <1>1, <2>1, SubSeqProperties
  <2> HIDE DEF after
  <2> QED
    BY <1>1, <2>2
<1>5. Insert(route, p) = before \o <<Order>> \o after
  BY DEF Insert, InsertAt
<1> HIDE DEF before, after, n
<1> DEFINE left == before \o <<Order>>
<1>6. /\ before \in Seq(Stops) /\ after \in Seq(Stops) /\ <<Order>> \in Seq(Stops)
      /\ Len(<<Order>>) = 1 /\ <<Order>>[1] = Order
  BY <1>2, <1>3, <1>4, SeqMonotonic
<1>7. /\ left \in Seq(Stops) /\ Len(left) = p
      /\ \A i \in 1 .. p : left[i] = IF i <= p - 1 THEN before[i] ELSE <<Order>>[i - (p - 1)]
  <2>1. /\ left \in Seq(Stops) /\ Len(left) = Len(before) + Len(<<Order>>)
        /\ \A i \in 1 .. Len(before) + Len(<<Order>>) :
             left[i] = IF i <= Len(before) THEN before[i] ELSE <<Order>>[i - Len(before)]
    BY <1>6, ConcatProperties
  <2> HIDE DEF left
  <2>2. Len(before) + Len(<<Order>>) = p
    BY <1>1, <1>3, <1>6
  <2> QED
    BY <1>3, <2>1, <2>2
<1> HIDE DEF left
<1>8. /\ left \o after \in Seq(Stops) /\ Len(left \o after) = n + 1
      /\ \A i \in 1 .. n + 1 :
           (left \o after)[i] = IF i <= p THEN left[i] ELSE after[i - p]
  <2>1. /\ left \o after \in Seq(Stops) /\ Len(left \o after) = Len(left) + Len(after)
        /\ \A i \in 1 .. Len(left) + Len(after) :
             (left \o after)[i] = IF i <= Len(left) THEN left[i] ELSE after[i - Len(left)]
    BY <1>6, <1>7, ConcatProperties
  <2>2. Len(left) + Len(after) = n + 1
    BY <1>1, <1>4, <1>7
  <2> QED
    BY <1>7, <2>1, <2>2
<1>9. (left \o after)[p] = Order
  <2>1. p \in 1 .. n + 1 /\ p \in 1 .. p /\ p <= p /\ ~(p <= p - 1) /\ p - (p - 1) = 1
    BY <1>1
  <2> QED
    BY <1>6, <1>7, <1>8, <2>1
<1>10. ASSUME NEW i \in 1 .. n + 1, i # p
       PROVE  /\ (left \o after)[i] = IF i < p THEN route[i] ELSE route[i - 1]
              /\ (left \o after)[i] \in Promised
  <2>1. CASE i < p
    <3>1. i \in 1 .. p /\ i <= p - 1 /\ i \in 1 .. Len(before) /\ i <= p /\ i \in 1 .. p - 1
      BY <1>1, <1>3, <2>1
    <3>2. before[i] \in Promised /\ before[i] = route[i]
      BY <1>3, <3>1, ElementOfSeq
    <3> QED
      BY <1>7, <1>8, <2>1, <3>1, <3>2
  <2>2. CASE i > p
    <3>1. i - p \in 1 .. Len(after) /\ ~(i <= p) /\ ~(i < p) /\ p + (i - p) - 1 = i - 1
          /\ i - p \in 1 .. n - p + 1
      BY <1>1, <1>4, <2>2
    <3>2. after[i - p] \in Promised /\ after[i - p] = route[i - 1]
      BY <1>4, <3>1, ElementOfSeq
    <3> QED
      BY <1>8, <3>1, <3>2
  <2>3. i \in Int /\ p \in Int /\ (i < p \/ i > p)
    BY <1>1, <1>10
  <2> QED
    BY <2>1, <2>2, <2>3
<1>11. Insert(route, p) = left \o after
  BY <1>5 DEF left
<1>12. \A i \in 1 .. n + 1 : (left \o after)[i] = IF i < p THEN route[i]
                                                 ELSE IF i = p THEN Order ELSE route[i - 1]
  <2> SUFFICES ASSUME NEW i \in 1 .. n + 1
               PROVE  (left \o after)[i] = IF i < p THEN route[i]
                                          ELSE IF i = p THEN Order ELSE route[i - 1]
    OBVIOUS
  <2>1. CASE i = p
    <3>1. ~(i < p)
      BY <1>1, <2>1
    <3> QED
      BY <1>9, <2>1, <3>1, Zenon
  <2>2. CASE i # p
    BY <1>10, <2>2
  <2> QED
    BY <2>1, <2>2
<1> QED
  BY <1>8, <1>9, <1>10, <1>11, <1>12 DEF n

\* A tested position can be kept in the slot of its arrival, at that arrival.
LEMMA InsertedKept ==
  ASSUME Standing, SlotsInDay, NEW d \in Dates, NEW p \in 1 .. Len(routes[d]) + 1,
         NEW o \in Tested(d, p), NEW better
  PROVE  Kept(Slot(o, better))
<1> DEFINE r == Insert(routes[d], p)
           s == Slot(o, better)
           slot == Slots[o.slot]
           promise == Bounded(slot)
           V == Arrivals(r, With(Anytime))
<1>1. /\ o.date = d /\ o.position = p /\ o.arrival = V[p]
      /\ o.slot \in SlotOf(V[p]) /\ OnTime(r, With(Anytime))
  BY DEF Tested
<1>2. s.date = d /\ s.position = p /\ s.arrival = V[p] /\ s.window = slot
  BY <1>1 DEF Slot
<1>3. routes[d] \in Seq(Promised) /\ Len(routes[d]) \in Nat
  BY LenProperties DEF Standing
<1>4. /\ r \in Seq(Stops) /\ Len(r) = Len(routes[d]) + 1 /\ r[p] = Order
      /\ \A i \in 1 .. Len(r) : i # p => r[i] \in Promised
  BY <1>3, InsertRoute
<1>5. /\ o.slot \in DOMAIN Slots /\ slot.start <= V[p] /\ V[p] < slot.end
  BY <1>1 DEF SlotOf
<1>6. slot \in Windows /\ slot.end <= Cutoff
  <2>1. Slots \in Seq(Windows)
    BY DayAssumption DEF Windows
  <2>2. o.slot \in 1 .. Len(Slots)
    BY <1>5, <2>1, LenProperties
  <2>3. slot \in Windows
    BY <2>1, <2>2, ElementOfSeq
  <2> QED
    BY <1>5, <2>3 DEF SlotsInDay
<1> HIDE DEF r, s, slot
<1>7. Anytime \in Windows /\ Anytime.start = DayStart
  BY DayAssumption, LegAssumption DEF Anytime, Window, Windows
<1>8. \A i \in 1 .. Len(r) : r[i] = Order => i = p
  BY <1>4, WithWindow, <1>7
<1>9. p \in 1 .. Len(r)
  BY <1>3, <1>4
<1>10. Scheduled(r, With(Anytime))
  BY <1>4, <1>7, WithWindow, ElementOfSeq DEF Scheduled
<1>11. V[p] \in Int /\ DayStart <= V[p]
  BY <1>4, <1>7, <1>9, <1>10, ArrivalsTyped, WithWindow
<1>12. /\ promise \in Windows /\ DayStart <= promise.start
       /\ promise.start <= V[p] /\ V[p] <= promise.end
  <2> HIDE DEF V
  <2>1. promise \in Windows /\ DayStart <= promise.start
    BY <1>6, BoundedType
  <2>2. promise.start = Most(slot.start, DayStart) /\ promise.end = Least(slot.end, Cutoff)
    BY DEF Bounded, Window
  <2> QED
    BY <1>5, <1>6, <1>11, <2>1, <2>2, DayAssumption DEF Most, Least, Windows
<1> HIDE DEF promise
<1>13. /\ OnTime(r, With(promise))
       /\ \A i \in 1 .. Len(r) : Arrivals(r, With(promise))[i] <= V[i]
  BY <1>1, <1>4, <1>7, <1>8, <1>12, WindowSwap
<1> DEFINE W == Arrivals(r, With(promise))
<1>14. Scheduled(r, With(promise))
  BY <1>4, <1>12, WithWindow, ElementOfSeq DEF Scheduled
<1>15. V[p] <= W[p]
  <2>1. ASSUME NEW i \in 1 .. Len(r)
        PROVE  With(Anytime)[r[i]].start <= W[i]
    <3>1. With(promise)[r[i]].start <= W[i] /\ W[i] \in Int
      BY <1>14, ArrivalsTyped
    <3>2. CASE i = p
      <4>1. With(promise)[r[i]] = promise /\ With(Anytime)[r[i]] = Anytime
        BY <1>4, <1>7, <1>12, <3>2, WithWindow
      <4> QED
        BY <1>7, <1>12, <3>1, <4>1, DayAssumption DEF Windows
    <3>3. CASE i # p
      <4>1. With(Anytime)[r[i]] = With(promise)[r[i]]
        BY <1>4, <1>7, <1>12, <3>3, WithWindow
      <4> QED
        BY <3>1, <4>1
    <3> QED
      BY <3>2, <3>3
  <2>2. \A i \in 1 .. Len(r) : V[i] <= W[i]
    BY <1>10, <1>14, <2>1, NotLater
  <2> QED
    BY <1>9, <2>2
<1>16. W[p] = V[p]
  <2>1. W[p] \in Int
    BY <1>9, <1>14, ArrivalsTyped
  <2>2. W[p] <= V[p]
    BY <1>9, <1>13
  <2> HIDE DEF V, W
  <2> QED
    BY <1>11, <1>15, <2>1, <2>2
<1>17. Accepted(s) = {r}
  <2>1. s.position > 0
    BY <1>2, <1>3
  <2>2. Accepted(s) = {t \in {r} : OnTime(t, With(promise))}
    BY <1>2, <2>1 DEF Accepted, r, promise
  <2> QED
    BY <1>13, <2>2
<1>18. \A t \in Accepted(s) : Arrivals(t, With(Bounded(s.window)))[s.position] = s.arrival
  BY <1>2, <1>16, <1>17 DEF promise
<1>19. Accepted(s) # {}
  BY <1>17
<1>20. Kept(s)
  BY <1>18, <1>19 DEF Kept
<1> QED
  BY <1>20 DEF s

-----------------------------------------------------------------------------
(* Counting and ordering.                                                  *)

LEMMA FiniteImage ==
  ASSUME NEW S, IsFiniteSet(S), NEW f, NEW T, T \subseteq {f[x] : x \in S}
  PROVE  IsFiniteSet(T)
<1> DEFINE g == [x \in S |-> f[x]]
           R == {f[x] : x \in S}
<1>1. g \in Surjection(S, R)
  BY DEF Surjection
<1>2. IsFiniteSet(R)
  BY <1>1, FS_Surjection
<1> QED
  BY <1>2, FS_Subset

\* What lies below each element of a set that is strictly ordered.
Ordered(S, below) ==
  /\ \A x \in S : below[x] \subseteq S /\ x \notin below[x]
  /\ \A x, y \in S : y \in below[x] => below[y] \subseteq below[x]

LEMMA BelowCounts ==
  ASSUME NEW S, IsFiniteSet(S), NEW below, Ordered(S, below),
         NEW x \in S
  PROVE  /\ Cardinality(below[x]) \in Nat
         /\ \A y \in below[x] : Cardinality(below[y]) < Cardinality(below[x])
<1>1. IsFiniteSet(below[x]) /\ Cardinality(below[x]) \in Nat
  BY FS_Subset, FS_CardinalityType DEF Ordered
<1>2. ASSUME NEW y \in below[x]
      PROVE  Cardinality(below[y]) < Cardinality(below[x])
  <2>1. /\ below[y] \in SUBSET below[x] /\ below[y] # below[x]
        /\ IsFiniteSet(below[y])
    <3>1. y \in S /\ y \notin below[y] /\ below[y] \in SUBSET below[x]
      BY DEF Ordered
    <3>2. IsFiniteSet(below[y])
      BY <1>1, <3>1, FS_Subset
    <3> QED
      BY <3>1, <3>2
  <2>2. Cardinality(below[y]) <= Cardinality(below[x])
        /\ (Cardinality(below[x]) = Cardinality(below[y]) => below[x] = below[y])
    BY <1>1, <2>1, FS_Subset
  <2>3. Cardinality(below[y]) \in Nat
    BY <2>1, FS_CardinalityType
  <2> QED
    BY <1>1, <2>1, <2>2, <2>3
<1> QED
  BY <1>1, <1>2

\* A strict order on a finite set has a first element.
LEMMA FirstElement ==
  ASSUME NEW S, IsFiniteSet(S), S # {}, NEW below, Ordered(S, below)
  PROVE  \E x \in S : below[x] = {}
<1> DEFINE N == {Cardinality(below[x]) : x \in S}
<1>1. N \in SUBSET Nat /\ N # {}
  BY BelowCounts
<1>2. PICK n \in N : \A k \in N : n <= k
  BY <1>1, LeastNumber
<1>3. PICK x \in S : n = Cardinality(below[x])
  BY <1>2
<1>4. \A y \in below[x] : y \in S /\ Cardinality(below[y]) < n /\ n <= Cardinality(below[y])
  <2>1. \A y \in below[x] : y \in S
    BY DEF Ordered
  <2>2. \A y \in below[x] : Cardinality(below[y]) < n
    BY <1>3, BelowCounts
  <2>3. \A y \in S : n <= Cardinality(below[y])
    BY <1>2
  <2> QED
    BY <2>1, <2>2, <2>3
<1>5. below[x] = {}
  <2> SUFFICES ASSUME NEW y \in below[x] PROVE FALSE
    OBVIOUS
  <2>1. Cardinality(below[y]) \in Nat /\ n \in Nat
    BY <1>1, <1>3, <1>4, BelowCounts
  <2> QED
    BY <1>4, <2>1
<1> QED
  BY <1>5

LEMMA MaxOf ==
  ASSUME NEW S \in SUBSET Nat, IsFiniteSet(S), S # {}
  PROVE  Max(S) \in S /\ \A y \in S : y <= Max(S)
<1> DEFINE above == [x \in S |-> {y \in S : y > x}]
<1>1. Ordered(S, above)
  <2>1. \A x \in S : above[x] \subseteq S /\ x \notin above[x]
    OBVIOUS
  <2>2. ASSUME NEW x \in S, NEW y \in S, y \in above[x]
        PROVE  above[y] \subseteq above[x]
    <3> SUFFICES ASSUME NEW z \in above[y] PROVE z \in above[x]
      OBVIOUS
    <3>1. z \in S /\ z > y /\ y > x /\ x \in Nat /\ y \in Nat /\ z \in Nat
      BY <2>2
    <3>2. z > x
      BY <3>1
    <3> QED
      BY <3>1, <3>2
  <2> HIDE DEF above
  <2> QED
    BY <2>1, <2>2 DEF Ordered
<1>2. PICK x \in S : above[x] = {}
  BY <1>1, FirstElement
<1>3. \A y \in S : x >= y
  BY <1>2
<1>4. \E z \in S : \A y \in S : z >= y
  BY <1>3
<1>5. Max(S) \in S /\ \A y \in S : Max(S) >= y
  BY <1>4 DEF Max
<1> QED
  BY <1>5

\* Lists of numbers in the order of a dictionary.
Before(x, y) == \E i \in DOMAIN x : /\ x[i] < y[i]
                                    /\ \A j \in 1 .. i - 1 : x[j] = y[j]

LEMMA BeforeStrict ==
  ASSUME NEW n \in Nat, NEW x \in [1 .. n -> Int], NEW y \in [1 .. n -> Int],
         NEW z \in [1 .. n -> Int]
  PROVE  /\ ~Before(x, x)
         /\ Before(x, y) /\ Before(y, z) => Before(x, z)
<1>1. ~Before(x, x)
  BY DEF Before
<1>2. ASSUME Before(x, y), Before(y, z)
      PROVE  Before(x, z)
  <2>1. PICK i \in 1 .. n : x[i] < y[i] /\ \A j \in 1 .. i - 1 : x[j] = y[j]
    BY <1>2 DEF Before
  <2>2. PICK k \in 1 .. n : y[k] < z[k] /\ \A j \in 1 .. k - 1 : y[j] = z[j]
    BY <1>2 DEF Before
  <2>3. CASE i < k
    <3>1. x[i] < z[i] /\ \A j \in 1 .. i - 1 : x[j] = z[j]
      BY <2>1, <2>2, <2>3
    <3> QED
      BY <3>1 DEF Before
  <2>4. CASE i = k
    <3>1. x[i] < z[i] /\ \A j \in 1 .. i - 1 : x[j] = z[j]
      BY <2>1, <2>2, <2>4
    <3> QED
      BY <3>1 DEF Before
  <2>5. CASE i > k
    <3>1. x[k] < z[k] /\ \A j \in 1 .. k - 1 : x[j] = z[j]
      BY <2>1, <2>2, <2>5
    <3> QED
      BY <3>1 DEF Before
  <2> QED
    BY <2>3, <2>4, <2>5
<1> QED
  BY <1>1, <1>2

LEMMA BeforeTotal ==
  ASSUME NEW n \in Nat, NEW x \in [1 .. n -> Int], NEW y \in [1 .. n -> Int], x # y
  PROVE  Before(x, y) \/ Before(y, x)
<1> DEFINE D == {i \in 1 .. n : x[i] # y[i]}
<1>1. D \in SUBSET Nat /\ D # {}
  OBVIOUS
<1>2. PICK m \in D : \A k \in D : m <= k
  BY <1>1, LeastNumber
<1>3. m \in 1 .. n /\ x[m] # y[m] /\ \A j \in 1 .. m - 1 : x[j] = y[j]
  BY <1>2
<1>4. x[m] < y[m] \/ y[m] < x[m]
  BY <1>3
<1> QED
  BY <1>3, <1>4 DEF Before

-----------------------------------------------------------------------------
(* What a search finds.                                                    *)

\* Every option a search returns was tested at a place of a route searched.
LEMMA SearchTested ==
  ASSUME Standing, NEW dates \in SUBSET Dates, NEW restricted,
         NEW o \in search(dates, restricted)
  PROVE  \E d \in dates : \E p \in 1 .. Len(routes[d]) + 1 : o \in Tested(d, p)
<1> DEFINE tried(d) == UNION {{i, i + 1} : i \in Anchors(routes[d])}
<1>1. \E d \in dates : \E p \in tried(d) : o \in Tested(d, p)
  BY DEF search
<1>2. PICK d \in dates : \E p \in tried(d) : o \in Tested(d, p)
  BY <1>1
<1>3. PICK p \in tried(d) : o \in Tested(d, p)
  BY <1>2
<1>4. PICK i \in Anchors(routes[d]) : p \in {i, i + 1}
  BY <1>3
<1>5. DOMAIN routes[d] = 1 .. Len(routes[d]) /\ Len(routes[d]) \in Nat
  BY LenProperties DEF Standing
<1>6. i \in 1 .. Len(routes[d])
  BY <1>4, <1>5 DEF Anchors
<1>7. p \in 1 .. Len(routes[d]) + 1
  BY <1>4, <1>5, <1>6
<1> QED
  BY <1>3, <1>7

LegOf(m, p, q) == m[p, q]

LEMMA DetourInt ==
  ASSUME NEW m, \A p, q \in Stops \cup {Depot} : LegOf(m, p, q) \in Int,
         NEW route \in Seq(Promised), NEW p \in 1 .. Len(route) + 1
  PROVE  Detour(m, route, p) \in Int
<1> DEFINE P == Stops \cup {Depot}
           before == IF p = 1 THEN Depot ELSE route[p - 1]
           after == IF p > Len(route) THEN Depot ELSE route[p]
<1>1. \A a, b \in P : LegOf(m, a, b) \in Int
  OBVIOUS
<1>2. Detour(m, route, p) = LegOf(m, before, Order) + LegOf(m, Order, after)
                              - LegOf(m, before, after)
  BY Zenon DEF Detour, LegOf
<1>3. Len(route) \in Nat /\ Promised \subseteq P /\ Depot \in P /\ Order \in P
  BY LenProperties DEF Promised, Stops
<1> HIDE DEF P
<1>4. before \in P
  <2>1. CASE p = 1
    BY <1>3, <2>1
  <2>2. CASE p # 1
    <3>1. p - 1 \in 1 .. Len(route)
      BY <1>3, <2>2
    <3> QED
      BY <1>3, <2>2, <3>1, ElementOfSeq
  <2> QED
    BY <2>1, <2>2
<1>5. after \in P
  <2>1. CASE p > Len(route)
    BY <1>3, <2>1
  <2>2. CASE ~(p > Len(route))
    <3>1. p \in 1 .. Len(route)
      BY <1>3, <2>2
    <3> QED
      BY <1>3, <2>2, <3>1, ElementOfSeq
  <2> QED
    BY <2>1, <2>2
<1> HIDE DEF before, after
<1>6. /\ LegOf(m, before, Order) \in Int /\ LegOf(m, Order, after) \in Int
      /\ LegOf(m, before, after) \in Int
  BY <1>1, <1>3, <1>4, <1>5
<1> QED
  BY <1>2, <1>6

\* The option a position of a route gives for a slot.
Trial(d, p, s) ==
  [date |-> d, slot |-> s, position |-> p,
   arrival |-> Arrivals(Insert(routes[d], p), With(Anytime))[p],
   rank |-> <<Detour(Km, routes[d], p), Detour(Minutes, routes[d], p), d, s, p>>]

LEMMA TestedShape ==
  ASSUME Standing, NEW d \in Dates, NEW p \in 1 .. Len(routes[d]) + 1,
         NEW o \in Tested(d, p)
  PROVE  /\ o = Trial(d, p, o.slot) /\ o.date = d /\ o.position = p
         /\ o.slot \in DOMAIN Slots /\ o.slot \in Nat /\ p \in Nat
         /\ o.arrival \in Int
         /\ o.rank \in [1 .. 5 -> Int]
         /\ o.rank[3] = d /\ o.rank[4] = o.slot /\ o.rank[5] = p
<1>1. PICK s \in DOMAIN Slots : o = Trial(d, p, s)
  BY DEF Tested, Trial, SlotOf
<1>2. /\ o.slot = s /\ o.date = d /\ o.position = p
      /\ o.arrival = Arrivals(Insert(routes[d], p), With(Anytime))[p]
      /\ o.rank = <<Detour(Km, routes[d], p), Detour(Minutes, routes[d], p), d, s, p>>
  BY <1>1 DEF Trial
<1>3. routes[d] \in Seq(Promised) /\ Len(routes[d]) \in Nat
  BY LenProperties DEF Standing
<1>4. s \in Nat /\ p \in Nat /\ d \in Int
  <2>1. DOMAIN Slots = 1 .. Len(Slots) /\ Len(Slots) \in Nat
    BY DayAssumption, LenProperties
  <2>2. d \in Nat
    BY DayAssumption
  <2> QED
    BY <1>3, <2>1, <2>2
<1>5. o.arrival \in Int
  <2> DEFINE r == Insert(routes[d], p)
  <2>1. /\ r \in Seq(Stops) /\ Len(r) = Len(routes[d]) + 1
    BY <1>3, InsertRoute
  <2>2. Anytime \in Windows
    BY DayAssumption, LegAssumption DEF Anytime, Window, Windows
  <2>3. Scheduled(r, With(Anytime))
    BY <2>1, <2>2, WithWindow, ElementOfSeq DEF Scheduled
  <2>4. p \in 1 .. Len(r)
    BY <1>3, <2>1
  <2> QED
    BY <1>2, <2>3, <2>4, ArrivalsTyped
<1>6. Detour(Km, routes[d], p) \in Int /\ Detour(Minutes, routes[d], p) \in Int
  <2>1. \A a, b \in Stops \cup {Depot} : LegOf(Km, a, b) \in Int
    BY LegAssumption, Zenon DEF LegOf
  <2>2. \A a, b \in Stops \cup {Depot} : LegOf(Minutes, a, b) \in Int
    BY LegAssumption, Zenon DEF LegOf
  <2> QED
    BY <1>3, <2>1, <2>2, DetourInt
<1> DEFINE km == Detour(Km, routes[d], p)
           minutes == Detour(Minutes, routes[d], p)
<1> HIDE DEF km, minutes
<1>7. <<km, minutes, d, s, p>> \in [1 .. 5 -> Int]
  BY <1>4, <1>6 DEF km, minutes
<1>8. o.rank = <<km, minutes, d, s, p>>
  BY <1>2 DEF km, minutes
<1>9. o.rank[3] = d /\ o.rank[4] = s /\ o.rank[5] = p
  BY <1>8
<1> QED
  BY <1>1, <1>2, <1>4, <1>5, <1>7, <1>8, <1>9

\* What a search over some dates may find.
Findings == UNION {UNION {Tested(d, p) : p \in 1 .. Len(routes[d]) + 1} : d \in Dates}

LEMMA SearchFinds ==
  ASSUME Standing, NEW dates \in SUBSET Dates, NEW restricted
  PROVE  search(dates, restricted) \subseteq Findings
<1> SUFFICES ASSUME NEW o \in search(dates, restricted) PROVE o \in Findings
  OBVIOUS
<1>1. PICK d \in dates : \E p \in 1 .. Len(routes[d]) + 1 : o \in Tested(d, p)
  BY SearchTested
<1>2. PICK p \in 1 .. Len(routes[d]) + 1 : o \in Tested(d, p)
  BY <1>1
<1> QED
  BY <1>2 DEF Findings

LEMMA FindingsFinite ==
  ASSUME Standing
  PROVE  IsFiniteSet(Findings)
<1> DEFINE places(d) == {d} \X (1 .. Len(routes[d]) + 1)
           f == [d \in Dates |-> places(d)]
           Places == UNION {f[d] : d \in Dates}
           S == Places \X DOMAIN Slots
           g == [x \in S |-> Trial(x[1][1], x[1][2], x[2])]
<1>1. IsFiniteSet({f[d] : d \in Dates})
  <2>1. IsFiniteSet(Dates)
    BY LegAssumption, Zenon
  <2> HIDE DEF f
  <2> QED
    BY <2>1, FiniteImage
<1>2. ASSUME NEW d \in Dates
      PROVE  IsFiniteSet(f[d])
  <2>1. Len(routes[d]) + 1 \in Int
    BY LenProperties DEF Standing
  <2> DEFINE n == Len(routes[d]) + 1
  <2>4. IsFiniteSet(1 .. n)
    <3> HIDE DEF n
    <3> QED
      BY <2>1, FS_Interval DEF n
  <2>2. IsFiniteSet(1 .. Len(routes[d]) + 1) /\ IsFiniteSet({d})
    BY <2>4, FS_Singleton
  <2>3. IsFiniteSet(places(d))
    BY <2>2, FS_Product
  <2> QED
    BY <2>3
<1>3. IsFiniteSet(Places)
  <2> HIDE DEF f
  <2> QED
    BY <1>1, <1>2, FS_UNION
<1>4. IsFiniteSet(DOMAIN Slots)
  <2>1. DOMAIN Slots = 1 .. Len(Slots) /\ Len(Slots) \in Int
    BY DayAssumption, LenProperties
  <2> QED
    BY <2>1, FS_Interval
<1>5. IsFiniteSet(S)
  <2> HIDE DEF Places
  <2> QED
    BY <1>3, <1>4, FS_Product
<1>6. ASSUME NEW o \in Findings
      PROVE  \E x \in S : o = g[x]
  <2>1. PICK d \in Dates : \E p \in 1 .. Len(routes[d]) + 1 : o \in Tested(d, p)
    BY <1>6 DEF Findings
  <2>2. PICK p \in 1 .. Len(routes[d]) + 1 : o \in Tested(d, p)
    BY <2>1
  <2>3. o = Trial(d, p, o.slot) /\ o.slot \in DOMAIN Slots
    BY <2>2, TestedShape
  <2> DEFINE x == <<<<d, p>>, o.slot>>
  <2>4. <<d, p>> \in places(d)
    OBVIOUS
  <2>5. x \in S
    BY <2>3, <2>4
  <2>6. g[x] = Trial(d, p, o.slot)
    BY <2>5
  <2> QED
    BY <2>3, <2>5, <2>6
<1> HIDE DEF S, g
<1>7. Findings \subseteq {g[x] : x \in S}
  BY <1>6
<1> QED
  BY <1>5, <1>7, FiniteImage

LEMMA FindingsRanked ==
  ASSUME Standing
  PROVE  /\ \A o \in Findings : /\ o.rank \in [1 .. 5 -> Int]
                                /\ o.date \in Dates /\ o.arrival \in Int
                                /\ o.position \in Nat /\ o.slot \in DOMAIN Slots
                                /\ o = Trial(o.date, o.position, o.slot)
                                /\ o.position \in 1 .. Len(routes[o.date]) + 1
         /\ \A o, q \in Findings : o # q => Better(o, q) \/ Better(q, o)
<1>1. ASSUME NEW o \in Findings
      PROVE  \E d \in Dates : \E p \in 1 .. Len(routes[d]) + 1 : o \in Tested(d, p)
  BY <1>1 DEF Findings
<1>2. ASSUME NEW o \in Findings
      PROVE  /\ o.rank \in [1 .. 5 -> Int]
             /\ o.date \in Dates /\ o.arrival \in Int
             /\ o.position \in Nat /\ o.slot \in DOMAIN Slots
             /\ o = Trial(o.date, o.position, o.slot)
             /\ o.position \in 1 .. Len(routes[o.date]) + 1
             /\ o.rank[3] = o.date /\ o.rank[4] = o.slot /\ o.rank[5] = o.position
  <2>1. PICK d \in Dates : \E p \in 1 .. Len(routes[d]) + 1 : o \in Tested(d, p)
    BY <1>1
  <2>2. PICK p \in 1 .. Len(routes[d]) + 1 : o \in Tested(d, p)
    BY <2>1
  <2> QED
    BY <2>2, TestedShape
<1>3. ASSUME NEW o \in Findings, NEW q \in Findings, o # q
      PROVE  Better(o, q) \/ Better(q, o)
  <2>1. o.rank # q.rank
    BY <1>2, <1>3
  <2>2. o.rank \in [1 .. 5 -> Int] /\ q.rank \in [1 .. 5 -> Int] /\ 5 \in Nat
    BY <1>2
  <2>3. Before(o.rank, q.rank) \/ Before(q.rank, o.rank)
    BY <2>1, <2>2, BeforeTotal
  <2> QED
    BY <2>3 DEF Better, Before
<1> QED
  BY <1>2, <1>3

\* Among the options found some come first, whatever the customer wished.
LEMMA FirstSome ==
  ASSUME Standing, NEW found \in SUBSET Findings, found # {},
         NEW limit \in Nat \ {0}, NEW wished
  PROVE  First(limit, found, wished) # {}
<1> DEFINE unwished(o) == IF wished /\ <<o.date, o.slot>> \notin Preferred THEN 1 ELSE 0
           full(o) == <<unwished(o)>> \o o.rank
           rank(o) == [o EXCEPT !.rank = full(o)]
           below == [o \in found |-> {p \in found : Before(full(p), full(o))}]
<1>1. ASSUME NEW o \in found
      PROVE  full(o) \in [1 .. 6 -> Int]
  <2>1. o.rank \in [1 .. 5 -> Int]
    BY FindingsRanked
  <2>2. o.rank \in Seq(Int) /\ Len(o.rank) = 5
    <3>1. o.rank \in Seq(Int)
      BY <2>1, SeqDef
    <3> DEFINE n == Len(o.rank)
    <3>2. 1 .. 5 = 1 .. n /\ n \in Nat
      BY <2>1, <3>1, LenProperties
    <3> HIDE DEF n
    <3>3. 5 \in 1 .. n /\ n \in 1 .. 5
      BY <3>2
    <3>4. n = 5
      BY <3>2, <3>3
    <3> QED
      BY <3>1, <3>4 DEF n
  <2>3. <<unwished(o)>> \in Seq(Int) /\ Len(<<unwished(o)>>) = 1
    OBVIOUS
  <2>4. full(o) \in Seq(Int) /\ Len(full(o)) = 6
    <3> HIDE DEF unwished
    <3>1. full(o) \in Seq(Int) /\ Len(full(o)) = Len(<<unwished(o)>>) + Len(o.rank)
      BY <2>2, <2>3, ConcatProperties
    <3> QED
      BY <2>2, <2>3, <3>1
  <2> HIDE DEF full
  <2> QED
    BY <2>4, LenProperties
<1>2. ASSUME NEW o \in found
      PROVE  rank(o).rank = full(o)
  <2>1. o = Trial(o.date, o.position, o.slot)
    BY FindingsRanked
  <2>2. "rank" \in DOMAIN o
    BY <2>1 DEF Trial
  <2> HIDE DEF full
  <2> QED
    BY <2>2
<1> HIDE DEF full
<1>3. Ordered(found, below)
  <2>1. \A x \in found : below[x] \subseteq found /\ x \notin below[x]
    <3>1. \A x \in found : ~Before(full(x), full(x))
      BY <1>1, BeforeStrict
    <3> QED
      BY <3>1
  <2>2. ASSUME NEW x \in found, NEW y \in found, y \in below[x]
        PROVE  below[y] \subseteq below[x]
    <3> SUFFICES ASSUME NEW z \in below[y] PROVE z \in below[x]
      OBVIOUS
    <3>1. z \in found /\ Before(full(z), full(y)) /\ Before(full(y), full(x))
      BY <2>2
    <3>2. /\ full(x) \in [1 .. 6 -> Int] /\ full(y) \in [1 .. 6 -> Int]
          /\ full(z) \in [1 .. 6 -> Int] /\ 6 \in Nat
      BY <1>1, <3>1
    <3>3. Before(full(z), full(x))
      BY <3>1, <3>2, BeforeStrict
    <3> QED
      BY <3>1, <3>3
  <2> HIDE DEF below
  <2> QED
    BY <2>1, <2>2 DEF Ordered
<1>4. IsFiniteSet(found)
  BY FindingsFinite, FS_Subset
<1> HIDE DEF below
<1>5. PICK o \in found : below[o] = {}
  BY <1>3, <1>4, FirstElement
<1>6. {p \in found : Better(rank(p), rank(o))} = {}
  <2>1. \A p \in found : ~Before(full(p), full(o))
    BY <1>5 DEF below
  <2> HIDE DEF rank
  <2>2. \A p \in found : Better(rank(p), rank(o)) => Before(full(p), full(o))
    BY <1>2 DEF Better, Before
  <2> QED
    BY <2>1, <2>2
<1>7. Cardinality({p \in found : Better(rank(p), rank(o))}) < limit
  <2> DEFINE C == {p \in found : Better(rank(p), rank(o))}
  <2>1. Cardinality(C) = 0
    BY <1>6, FS_EmptySet
  <2> HIDE DEF C
  <2> QED
    BY <2>1 DEF C
<1>8. First(limit, found, wished) =
        {q \in found : Cardinality({p \in found : Better(rank(p), rank(q))}) < limit}
  BY DEF First, rank, full, unwished
<1> QED
  BY <1>7, <1>8

Numbered(first) == {Slot(o, {p \in first : Better(p, o)}) : o \in first}

\* Slots are numbered one after the other from the next free number.
LEMMA SlotNumbers ==
  ASSUME Standing, NextId \in Nat, NEW first \in SUBSET Findings
  PROVE  /\ IsFiniteSet(Numbered(first))
         /\ \A s \in Numbered(first) : s \in OfferedSlots /\ s.id >= NextId
         /\ \A s, t \in Numbered(first) : s.id = t.id => s = t
<1> DEFINE below == [o \in first |-> {p \in first : Better(p, o)}]
           slot == [o \in first |-> Slot(o, below[o])]
<1>1. IsFiniteSet(first)
  BY FindingsFinite, FS_Subset
<1>2. Numbered(first) = {slot[o] : o \in first}
  BY DEF Numbered
<1>3. IsFiniteSet(Numbered(first))
  <2> HIDE DEF slot
  <2> QED
    BY <1>1, <1>2, FiniteImage
<1>4. Ordered(first, below)
  <2>1. \A x \in first : x.rank \in [1 .. 5 -> Int] /\ 5 \in Nat
    BY FindingsRanked
  <2>2. \A x, y \in first : Better(x, y) <=> Before(x.rank, y.rank)
    BY DEF Better, Before
  <2>3. \A x \in first : below[x] \subseteq first /\ x \notin below[x]
    <3>1. \A x \in first : ~Before(x.rank, x.rank)
      BY <2>1, BeforeStrict
    <3> QED
      BY <2>2, <3>1
  <2>4. ASSUME NEW x \in first, NEW y \in first, y \in below[x]
        PROVE  below[y] \subseteq below[x]
    <3> SUFFICES ASSUME NEW z \in below[y] PROVE z \in below[x]
      OBVIOUS
    <3>1. z \in first /\ Before(z.rank, y.rank) /\ Before(y.rank, x.rank)
      BY <2>2, <2>4
    <3>2. Before(z.rank, x.rank)
      BY <2>1, <3>1, BeforeStrict
    <3> QED
      BY <2>2, <3>1, <3>2
  <2> HIDE DEF below
  <2> QED
    BY <2>3, <2>4 DEF Ordered
<1>5. ASSUME NEW o \in first
      PROVE  /\ slot[o].id = NextId + Cardinality(below[o])
             /\ Cardinality(below[o]) \in Nat
             /\ slot[o] \in OfferedSlots
  <2>1. Cardinality(below[o]) \in Nat
    <3> HIDE DEF below
    <3> QED
      BY <1>1, <1>4, BelowCounts
  <2> HIDE DEF below
  <2>2. /\ o.date \in Dates /\ o.arrival \in Int /\ o.position \in Nat
        /\ o.slot \in DOMAIN Slots
    BY FindingsRanked
  <2>3. Slots[o.slot] \in Windows
    <3>1. Slots \in Seq(Windows)
      BY DayAssumption DEF Windows
    <3>2. o.slot \in 1 .. Len(Slots)
      BY <2>2, <3>1, LenProperties
    <3> QED
      BY <3>1, <3>2, ElementOfSeq
  <2>4. slot[o] = Slot(o, below[o])
    OBVIOUS
  <2> HIDE DEF slot
  <2>5. NextId + Cardinality(below[o]) \in Nat
    BY <2>1
  <2> QED
    BY <2>1, <2>2, <2>3, <2>4, <2>5 DEF Slot, OfferedSlots
<1>6. ASSUME NEW o \in first, NEW q \in first, o # q
      PROVE  Cardinality(below[o]) # Cardinality(below[q])
  <2>1. o \in below[q] \/ q \in below[o]
    <3>1. Better(o, q) \/ Better(q, o)
      BY <1>6, FindingsRanked
    <3> QED
      BY <3>1
  <2> HIDE DEF below
  <2>2. /\ \A y \in below[q] : Cardinality(below[y]) < Cardinality(below[q])
        /\ \A y \in below[o] : Cardinality(below[y]) < Cardinality(below[o])
        /\ Cardinality(below[o]) \in Nat /\ Cardinality(below[q]) \in Nat
    BY <1>1, <1>4, BelowCounts
  <2> QED
    BY <2>1, <2>2
<1> HIDE DEF slot, below
<1>7. \A s \in Numbered(first) : s \in OfferedSlots /\ s.id >= NextId
  <2> SUFFICES ASSUME NEW o \in first
               PROVE  slot[o] \in OfferedSlots /\ slot[o].id >= NextId
    BY <1>2
  <2> QED
    BY <1>5
<1>8. ASSUME NEW s \in Numbered(first), NEW t \in Numbered(first), s.id = t.id
      PROVE  s = t
  <2>1. PICK o \in first : s = slot[o]
    BY <1>2
  <2>2. PICK q \in first : t = slot[q]
    BY <1>2
  <2>3. NextId + Cardinality(below[o]) = NextId + Cardinality(below[q])
        /\ Cardinality(below[o]) \in Nat /\ Cardinality(below[q]) \in Nat
    BY <1>5, <1>8, <2>1, <2>2
  <2>4. Cardinality(below[o]) = Cardinality(below[q])
    BY <2>3
  <2> QED
    BY <1>6, <2>1, <2>2, <2>4
<1> QED
  BY <1>3, <1>7, <1>8

-----------------------------------------------------------------------------
(* A route visits everybody promised that day, each once.                  *)

\* A sequence of all the elements of a finite set, each once.
LEMMA TourOf ==
  ASSUME NEW S, IsFiniteSet(S), NEW r \in SetToSeqs(S)
  PROVE  IsInjective(r) /\ ToSet(r) = S /\ r \in Seq(S)
<1> DEFINE n == Cardinality(S)
           D == 1 .. n
<1>1. n \in Nat
  BY FS_CardinalityType
<1>2. r \in [D -> S] /\ \A i, j \in D : i # j => r[i] # r[j]
  BY DEF SetToSeqs
<1>3. IsFiniteSet(D) /\ Cardinality(D) = n
  <2> HIDE DEF n
  <2> QED
    BY <1>1, FS_Interval
<1>4. r \in Injection(D, S)
  <2> HIDE DEF D
  <2> QED
    BY <1>2 DEF Injection, IsInjective
<1>5. r \in Surjection(D, S)
  <2> HIDE DEF D
  <2> QED
    BY <1>3, <1>4, FS_Injection DEF n
<1>6. ToSet(r) = S
  <2> HIDE DEF D
  <2> QED
    BY <1>2, <1>5 DEF Surjection, ToSet
<1>7. IsInjective(r)
  <2> HIDE DEF D
  <2> QED
    BY <1>2 DEF IsInjective
<1>8. r \in Seq(S)
  <2> HIDE DEF n
  <2> QED
    BY <1>1, <1>2, SeqDef
<1> QED
  BY <1>6, <1>7, <1>8

LEMMA InsertTour ==
  ASSUME NEW route \in Seq(Promised), Order \notin Promised, IsInjective(route),
         NEW p \in 1 .. Len(route) + 1
  PROVE  IsInjective(Insert(route, p)) /\ ToSet(Insert(route, p)) = ToSet(route) \cup {Order}
<1> DEFINE n == Len(route)
           r == Insert(route, p)
           from(i) == IF i < p THEN i ELSE i - 1
<1>1. n \in Nat /\ DOMAIN route = 1 .. n /\ \A i \in 1 .. n : route[i] \in Promised
  BY LenProperties, ElementOfSeq
<1>2. /\ DOMAIN r = 1 .. n + 1 /\ r[p] = Order
      /\ \A i \in 1 .. n + 1 : r[i] = IF i < p THEN route[i]
                                     ELSE IF i = p THEN Order ELSE route[i - 1]
  <2>1. r \in Seq(Stops) /\ Len(r) = n + 1
    BY InsertRoute
  <2>2. DOMAIN r = 1 .. Len(r)
    BY <2>1, LenProperties
  <2>3. \A i \in 1 .. n + 1 : r[i] = IF i < p THEN route[i]
                                     ELSE IF i = p THEN Order ELSE route[i - 1]
    BY InsertRoute
  <2>4. r[p] = Order
    BY InsertRoute
  <2> HIDE DEF r, n
  <2> QED
    BY <2>1, <2>2, <2>3, <2>4
<1>3. p \in 1 .. n + 1
  OBVIOUS
<1> HIDE DEF r, n
<1>4. ASSUME NEW i \in 1 .. n + 1, i # p
      PROVE  from(i) \in 1 .. n /\ r[i] = route[from(i)] /\ r[i] \in Promised
  <2>1. from(i) \in 1 .. n
    BY <1>1, <1>3, <1>4
  <2>2. r[i] = route[from(i)]
    BY <1>2, <1>4
  <2> QED
    BY <1>1, <2>1, <2>2
<1>5. \A i, j \in 1 .. n + 1 : i # p /\ j # p /\ from(i) = from(j) => i = j
  BY <1>1, <1>3
<1> HIDE DEF from
<1>6. ASSUME NEW i \in 1 .. n + 1, NEW j \in 1 .. n + 1, r[i] = r[j]
      PROVE  i = j
  <2>1. CASE i = p
    BY <1>2, <1>4, <1>6, <2>1
  <2>2. CASE j = p
    BY <1>2, <1>4, <1>6, <2>2
  <2>3. CASE i # p /\ j # p
    <3>1. route[from(i)] = route[from(j)] /\ from(i) \in 1 .. n /\ from(j) \in 1 .. n
      BY <1>4, <1>6, <2>3
    <3>2. from(i) = from(j)
      BY <1>1, <3>1 DEF IsInjective
    <3> QED
      BY <1>5, <2>3, <3>2
  <2> QED
    BY <2>1, <2>2, <2>3
<1>7. IsInjective(r)
  BY <1>2, <1>6 DEF IsInjective
<1>8. ASSUME NEW i \in 1 .. n
      PROVE  \E j \in 1 .. n + 1 : r[j] = route[i]
  <2>1. CASE i < p
    <3>1. i \in 1 .. n + 1
      BY <1>1
    <3> QED
      BY <1>2, <2>1, <3>1
  <2>2. CASE ~(i < p)
    <3>1. i + 1 \in 1 .. n + 1 /\ i + 1 # p /\ ~(i + 1 < p) /\ (i + 1) - 1 = i
      BY <1>1, <1>3, <2>2
    <3>2. r[i + 1] = route[i]
      BY <1>2, <3>1
    <3> QED
      BY <3>1, <3>2
  <2> QED
    BY <2>1, <2>2
<1>9. ToSet(r) = {r[i] : i \in 1 .. n + 1} /\ ToSet(route) = {route[i] : i \in 1 .. n}
  BY <1>1, <1>2 DEF ToSet
<1>10. ToSet(r) = ToSet(route) \cup {Order}
  <2>1. ASSUME NEW i \in 1 .. n + 1
        PROVE  r[i] \in ToSet(route) \cup {Order}
    BY <1>2, <1>4, <1>9
  <2>2. Order \in ToSet(r)
    BY <1>2, <1>3, <1>9
  <2>3. ToSet(route) \subseteq ToSet(r)
    BY <1>8, <1>9
  <2> QED
    BY <1>9, <2>1, <2>2, <2>3
<1> QED
  BY <1>7, <1>10 DEF r

-----------------------------------------------------------------------------
(* The rows keep their types.                                              *)

IdsOf(rounds) == {o[1] : o \in UNION {round.windows : round \in rounds}}

AskedIds == IdsOf(asked)

LEMMA IdsOfMore ==
  ASSUME NEW rounds, NEW round
  PROVE  IdsOf(rounds \cup {round}) = IdsOf(rounds) \cup {o[1] : o \in round.windows}
BY DEF IdsOf

\* Finitely many options and rounds, every id used once.
OptionsFit ==
  /\ IsFiniteSet(options) /\ IsFiniteSet(AskedIds) /\ AskedIds \subseteq Nat
  /\ options \subseteq Options
  /\ \A o, p \in options : o.id = p.id => o = p

SlotsFit ==
  /\ offer.slots \subseteq OfferedSlots
  /\ offer # NoOffer => offer.slots # {} /\ Order \notin DOMAIN lock
  /\ \A s \in offer.slots :
       s.position > 0 => s.position \in 1 .. Len(routes[s.date]) + 1

ToursFit ==
  /\ DOMAIN routes = Dates
  /\ \A d \in Dates : /\ IsInjective(routes[d])
                      /\ Booked[d] \subseteq ToSet(routes[d])
                      /\ ToSet(routes[d]) \subseteq DOMAIN lock
  /\ \A o \in DOMAIN lock : lock[o] \in Windows

\* Until the order has its promise the day stands as planned.
Planned == Order \notin DOMAIN lock => Standing

\* The next id is free: it was neither given to an option nor ever asked about.
LEMMA NextFree ==
  ASSUME OptionsFit
  PROVE  NextId \in Nat /\ \A o \in options : o.id < NextId
<1> DEFINE id == [o \in options |-> o.id]
           ids == {o.id : o \in options}
           used == {0} \cup ids \cup AskedIds
<1>1. IsFiniteSet(ids) /\ ids \subseteq Nat
  <2>1. ids \subseteq {id[o] : o \in options}
    OBVIOUS
  <2>2. ids \subseteq Nat
    BY DEF OptionsFit, Options
  <2> HIDE DEF id, ids
  <2>3. IsFiniteSet(options)
    BY DEF OptionsFit
  <2> QED
    BY <2>1, <2>2, <2>3, FiniteImage
<1>2. IsFiniteSet(used) /\ used \in SUBSET Nat /\ 0 \in used
  <2> HIDE DEF ids
  <2>1. IsFiniteSet({0} \cup ids)
    BY <1>1, FS_Singleton, FS_Union
  <2>2. IsFiniteSet(AskedIds) /\ AskedIds \subseteq Nat
    BY DEF OptionsFit
  <2>3. IsFiniteSet(({0} \cup ids) \cup AskedIds)
    BY <2>1, <2>2, FS_Union
  <2> QED
    BY <1>1, <2>2, <2>3
<1>3. NextId = 1 + Max(used)
  BY DEF NextId, AskedIds, IdsOf
<1>4. \A o \in options : o.id \in used
  OBVIOUS
<1> HIDE DEF used
<1>5. Max(used) \in used /\ \A n \in used : n <= Max(used)
  <2>1. used # {}
    BY <1>2
  <2> QED
    BY <1>2, <2>1, MaxOf
<1>6. Max(used) \in Nat /\ \A o \in options : o.id \in Nat /\ o.id <= Max(used)
  BY <1>2, <1>4, <1>5
<1> QED
  BY <1>3, <1>6

LEMMA AskRecorded ==
  ASSUME OptionsFit, NEW purpose, NEW slots, Ask(purpose, slots), IsFiniteSet(slots),
         \A s \in slots : s.id \in Nat
  PROVE  IsFiniteSet(AskedIds') /\ AskedIds' \subseteq Nat
<1> DEFINE id == [s \in slots |-> s.id]
           new == {s.id : s \in slots}
           round == [purpose |-> purpose, number |-> Cardinality(Rounds(purpose)) + 1,
                     windows |-> {<<s.id, s.window>> : s \in slots}]
<1>1. asked' = asked \cup {round}
  BY DEF Ask
<1>2. round.windows = {<<s.id, s.window>> : s \in slots}
  OBVIOUS
<1> HIDE DEF round
<1>3. {o[1] : o \in round.windows} = new
  <2> DEFINE pair(s) == <<s.id, s.window>>
  <2>1. \A s : pair(s)[1] = s.id
    OBVIOUS
  <2>2. round.windows = {pair(s) : s \in slots}
    BY <1>2
  <2> HIDE DEF pair
  <2> QED
    BY <2>1, <2>2
<1> HIDE DEF new
<1>4. AskedIds' = AskedIds \cup new
  <2>1. AskedIds' = IdsOf(asked \cup {round})
    BY <1>1 DEF AskedIds
  <2> QED
    BY <1>3, <2>1, IdsOfMore DEF AskedIds
<1> USE DEF new
<1>5. IsFiniteSet(new)
  <2>1. new \subseteq {id[s] : s \in slots}
    OBVIOUS
  <2> HIDE DEF id, new
  <2> QED
    BY <2>1, FiniteImage
<1>6. new \subseteq Nat
  OBVIOUS
<1> HIDE DEF new
<1>7. IsFiniteSet(AskedIds \cup new)
  BY <1>5, FS_Union DEF OptionsFit
<1> QED
  BY <1>4, <1>6, <1>7 DEF OptionsFit

LEMMA CreateOfferFits ==
  ASSUME OptionsFit, Planned, create_offer
  PROVE  OptionsFit' /\ SlotsFit'
<1>1. PICK slots : /\ slots # {} /\ \A s, t \in slots : s.id = t.id => s = t
                   /\ Ask("booking", slots)
                   /\ \A s \in slots : \E o \in options : s \in Feasible(o)
  BY DEF create_offer, kSubset
<1>2. Free /\ options' = options
  BY DEF create_offer
<1>3. ASSUME NEW s \in slots
      PROVE  /\ s \in OfferedSlots /\ s.position = 0
             /\ s.id \in {o.id : o \in options}
  <2>1. PICK o \in options : s \in Feasible(o)
    BY <1>1
  <2>2. o.id \in Nat /\ o.date \in Dates /\ o.window \in Windows
        /\ o.excluded \in SUBSET Windows
    BY DEF OptionsFit, Options
  <2>3. PICK a \in Services(o) : s = Evaluation(o, a)
    BY <2>1 DEF Feasible
  <2>4. a \in Int
    BY <2>2, PieceFits
  <2>5. s.piece \in bookable_windows(o)
        /\ Sound(s.arrival, Duration[Order], s.piece, s.window)
    BY <2>1, <2>2, EvaluationSound
  <2>6. s.piece \in Windows /\ s.window \in Windows
    BY <2>2, <2>5, BookableType DEF Sound
  <2>7. s = [id |-> s.id, date |-> s.date, arrival |-> s.arrival, position |-> s.position,
             piece |-> s.piece, window |-> s.window]
        /\ s.id = o.id /\ s.date = o.date /\ s.arrival = a /\ s.position = 0
    BY <2>3 DEF Evaluation
  <2> QED
    BY <2>2, <2>4, <2>6, <2>7 DEF OfferedSlots
<1> DEFINE id == [o \in options |-> o.id]
           ids == {o.id : o \in options}
           the == [i \in ids |-> CHOOSE s \in slots : s.id = i]
<1>4. IsFiniteSet(ids)
  <2>1. ids \subseteq {id[o] : o \in options}
    OBVIOUS
  <2> HIDE DEF id, ids
  <2> QED
    BY <2>1, FiniteImage DEF OptionsFit
<1>5. IsFiniteSet(slots)
  <2>1. ASSUME NEW s \in slots
        PROVE  s.id \in ids /\ the[s.id] = s
    BY <1>1, <1>3
  <2> HIDE DEF the, ids
  <2>2. slots \subseteq {the[i] : i \in ids}
    BY <2>1
  <2> QED
    BY <1>4, <2>2, FiniteImage
<1>6. \A s \in slots : s.id \in Nat
  BY <1>3 DEF OfferedSlots
<1>7. IsFiniteSet(AskedIds') /\ AskedIds' \subseteq Nat
  BY <1>1, <1>5, <1>6, AskRecorded
<1>8. OptionsFit'
  BY <1>2, <1>7 DEF OptionsFit
<1>9. offer'.slots = slots /\ lock' = lock
  BY <1>1 DEF Ask
<1>10. SlotsFit'
  <2>1. Order \notin DOMAIN lock
    BY <1>2 DEF Free
  <2>2. \A s \in slots : ~(s.position > 0)
    BY <1>3
  <2> QED
    BY <1>1, <1>3, <1>9, <2>1, <2>2 DEF SlotsFit
<1> QED
  BY <1>8, <1>10

LEMMA InsertionsFit ==
  ASSUME OptionsFit, Planned, Free, NEW dates \in SUBSET Dates, NEW restricted,
         NEW purpose, NEW limit \in Nat \ {0},
         offer_insertions(purpose, limit, search(dates, restricted))
  PROVE  OptionsFit' /\ SlotsFit'
<1> DEFINE found == search(dates, restricted)
           first == First(limit, found, purpose = "booking")
           slots == Numbered(first)
<1>1. /\ offer'.slots = slots /\ options' = Recorded(slots) /\ found # {}
      /\ Ask(purpose, slots) /\ routes' = routes /\ lock' = lock
  BY DEF offer_insertions, Ask, Numbered
<1>2. Standing /\ Order \notin DOMAIN lock
  BY DEF Planned, Free
<1>3. found \in SUBSET Findings
  BY <1>2, SearchFinds
<1> HIDE DEF found
<1>4. first \in SUBSET Findings /\ first # {}
  <2>1. first \subseteq found
    BY DEF First
  <2>2. first # {}
    BY <1>1, <1>2, <1>3, FirstSome
  <2> QED
    BY <1>3, <2>1, <2>2
<1> HIDE DEF first
<1>5. NextId \in Nat /\ \A o \in options : o.id < NextId
  BY NextFree
<1>6. /\ IsFiniteSet(slots)
      /\ \A s \in slots : s \in OfferedSlots /\ s.id >= NextId
      /\ \A s, t \in slots : s.id = t.id => s = t
  BY <1>2, <1>4, <1>5, SlotNumbers
<1>7. slots # {} /\ \A s \in slots : s.position \in 1 .. Len(routes[s.date]) + 1
  <2>1. slots # {}
    BY <1>4 DEF Numbered
  <2>2. ASSUME NEW s \in slots
        PROVE  s.position \in 1 .. Len(routes[s.date]) + 1
    <3>1. PICK o \in first : s = Slot(o, {p \in first : Better(p, o)})
      BY DEF Numbered
    <3>2. s.position = o.position /\ s.date = o.date
      BY <3>1 DEF Slot
    <3> QED
      BY <1>2, <1>4, <3>1, <3>2, FindingsRanked
  <2> QED
    BY <2>1, <2>2
<1> HIDE DEF slots
<1>8. IsFiniteSet(AskedIds') /\ AskedIds' \subseteq Nat
  <2>1. \A s \in slots : s.id \in Nat
    BY <1>6 DEF OfferedSlots
  <2> QED
    BY <1>1, <1>6, <2>1, AskRecorded
<1> DEFINE kept == {o \in options : \A s \in slots : o.date # s.date \/ o.window # s.window}
           row == [s \in slots |-> Option(s.id, s.date, s.window, {})]
           new == {Option(s.id, s.date, s.window, {}) : s \in slots}
<1>9. options' = kept \cup new
  BY <1>1 DEF Recorded
<1>10. kept \subseteq options /\ IsFiniteSet(kept)
  <2>1. kept \in SUBSET options
    OBVIOUS
  <2> HIDE DEF kept
  <2> QED
    BY <2>1, FS_Subset DEF OptionsFit
<1>11. IsFiniteSet(new)
  <2>1. new \subseteq {row[s] : s \in slots}
    OBVIOUS
  <2> HIDE DEF row, new
  <2> QED
    BY <1>6, <2>1, FiniteImage
<1>12. ASSUME NEW o \in new
       PROVE  /\ o \in Options /\ o.id >= NextId
              /\ \E s \in slots : o = Option(s.id, s.date, s.window, {}) /\ o.id = s.id
  <2>1. PICK s \in slots : o = Option(s.id, s.date, s.window, {})
    OBVIOUS
  <2>2. s.id \in Nat /\ s.date \in Dates /\ s.window \in Windows /\ s.id >= NextId
    BY <1>6 DEF OfferedSlots
  <2> QED
    BY <2>1, <2>2 DEF Option, Options
<1> HIDE DEF kept, new
<1>13. IsFiniteSet(kept \cup new)
  BY <1>10, <1>11, FS_Union
<1>14. kept \cup new \subseteq Options
  BY <1>10, <1>12 DEF OptionsFit
<1>15. ASSUME NEW o \in kept \cup new, NEW p \in kept \cup new, o.id = p.id
       PROVE  o = p
  <2>1. \A q \in kept : q.id \in Nat /\ q.id < NextId
    BY <1>5, <1>10 DEF OptionsFit, Options
  <2>2. \A q \in new : q.id \in Nat /\ q.id >= NextId
    BY <1>12 DEF Options
  <2>3. CASE o \in kept /\ p \in kept
    BY <1>10, <1>15, <2>3 DEF OptionsFit
  <2>4. CASE o \in new /\ p \in new
    <3>1. PICK s \in slots : o = Option(s.id, s.date, s.window, {}) /\ o.id = s.id
      BY <1>12, <2>4
    <3>2. PICK t \in slots : p = Option(t.id, t.date, t.window, {}) /\ p.id = t.id
      BY <1>12, <2>4
    <3> QED
      BY <1>6, <1>15, <3>1, <3>2
  <2>5. ~(o \in kept /\ p \in new) /\ ~(o \in new /\ p \in kept)
    BY <1>5, <1>15, <2>1, <2>2
  <2> QED
    BY <2>3, <2>4, <2>5
<1>16. OptionsFit'
  BY <1>8, <1>9, <1>13, <1>14, <1>15 DEF OptionsFit
<1>17. SlotsFit'
  BY <1>1, <1>2, <1>6, <1>7 DEF SlotsFit
<1> QED
  BY <1>16, <1>17

LEMMA RejectFits ==
  ASSUME OptionsFit, SlotsFit, reject_offer
  PROVE  OptionsFit' /\ SlotsFit'
<1>1. PICK slots \in SUBSET offer.slots : options' = Reject(slots)
  BY DEF reject_offer
<1>2. asked' = asked /\ offer' = NoOffer /\ offer'.slots = {}
  BY DEF reject_offer, NoOffer
<1> DEFINE carved(o) == Option(o.id, o.date, o.window,
                               o.excluded \cup {s.window : s \in {t \in slots : t.id = o.id}})
           row == [o \in options |-> carved(o)]
<1>3. options' = {carved(o) : o \in options}
  BY <1>1 DEF Reject
<1>4. ASSUME NEW o \in options
      PROVE  carved(o) \in Options /\ carved(o).id = o.id
  <2>1. /\ o.id \in Nat /\ o.date \in Dates /\ o.window \in Windows
        /\ o.excluded \in SUBSET Windows
    BY DEF OptionsFit, Options
  <2>2. \A s \in slots : s.window \in Windows
    BY <1>1 DEF SlotsFit, OfferedSlots
  <2>3. o.excluded \cup {s.window : s \in {t \in slots : t.id = o.id}} \in SUBSET Windows
    BY <2>1, <2>2
  <2> QED
    BY <2>1, <2>3 DEF Option, Options
<1>5. IsFiniteSet(options')
  <2>1. options' \subseteq {row[o] : o \in options}
    BY <1>3
  <2> HIDE DEF row
  <2> QED
    BY <2>1, FiniteImage DEF OptionsFit
<1> HIDE DEF carved
<1>6. OptionsFit'
  BY <1>2, <1>3, <1>4, <1>5 DEF OptionsFit, AskedIds
<1>7. SlotsFit'
  BY <1>2 DEF SlotsFit, NoOffer
<1> QED
  BY <1>6, <1>7

\* The option of a date keeps the id of the last one, or takes a free one.
LEMMA RecordFits ==
  ASSUME OptionsFit, SlotsFit, NEW date \in Dates, NEW window \in Stated,
         record_availability(date, window)
  PROVE  OptionsFit' /\ SlotsFit'
<1>1. /\ options' = Merged(date, window) /\ offer' = offer /\ asked' = asked
      /\ routes' = routes /\ lock' = lock
  BY DEF record_availability
<1>2. window \in Windows
  BY DayAssumption DEF Windows
<1>3. NextId \in Nat /\ \A o \in options : o.id < NextId /\ o.id \in Nat
  BY NextFree DEF OptionsFit, Options
<1> DEFINE other == {o \in options : o.date # date}
<1>4. \E n : /\ Restated(date, window) = {n} /\ n \in Options
             /\ \A o \in other : o.id # n.id
  <2>1. CASE Previous(date) = {}
    <3> DEFINE n == Option(NextId, date, window, {})
    <3>1. Restated(date, window) = {n}
      BY <2>1 DEF Restated
    <3>2. n \in Options /\ n.id = NextId
      BY <1>2, <1>3 DEF Option, Options
    <3> HIDE DEF n
    <3>3. \A o \in other : o.id # n.id
      BY <1>3, <3>2
    <3> QED
      BY <3>1, <3>2, <3>3
  <2>2. CASE Previous(date) # {}
    <3>1. PICK p \in Previous(date) : TRUE
      BY <2>2
    <3>2. p \in options /\ p.date = date
          /\ \A q \in options : q.date = date => q = p \/ q.id < p.id
      BY <3>1 DEF Previous
    <3>3. Previous(date) = {p}
      <4> SUFFICES ASSUME NEW q \in Previous(date) PROVE q = p
        BY <3>1
      <4>1. q \in options /\ (p = q \/ p.id < q.id) /\ (q = p \/ q.id < p.id)
        BY <3>2 DEF Previous
      <4> QED
        BY <1>3, <3>2, <4>1
    <3> DEFINE clear(o) == {w \in o.excluded : ~Overlaps(w, window)}
               n == Option(p.id, date, window, clear(p))
    <3>4. Restated(date, window) = {n}
      BY <2>2, <3>3 DEF Restated
    <3>5. clear(p) \in SUBSET Windows /\ p.id \in Nat
      BY <3>2 DEF OptionsFit, Options
    <3> HIDE DEF clear
    <3>6. n \in Options /\ n.id = p.id
      BY <1>2, <3>5 DEF Option, Options
    <3> HIDE DEF n
    <3>7. \A o \in other : o.id # n.id
      BY <3>2, <3>6 DEF OptionsFit
    <3> QED
      BY <3>4, <3>6, <3>7
  <2> QED
    BY <2>1, <2>2
<1>5. PICK n : /\ Restated(date, window) = {n} /\ n \in Options
               /\ \A o \in other : o.id # n.id
  BY <1>4
<1>6. options' = other \cup {n}
  BY <1>1, <1>5 DEF Merged
<1>7. other \subseteq options /\ IsFiniteSet(other)
  <2>1. other \in SUBSET options
    OBVIOUS
  <2> HIDE DEF other
  <2> QED
    BY <2>1, FS_Subset DEF OptionsFit
<1> HIDE DEF other
<1>8. IsFiniteSet(other \cup {n})
  BY <1>7, FS_AddElement
<1>9. other \cup {n} \subseteq Options
      /\ \A o, p \in other \cup {n} : o.id = p.id => o = p
  BY <1>5, <1>7 DEF OptionsFit
<1>10. OptionsFit'
  BY <1>1, <1>6, <1>8, <1>9 DEF OptionsFit, AskedIds
<1>11. SlotsFit'
  BY <1>1 DEF SlotsFit, NoOffer
<1> QED
  BY <1>10, <1>11

\* The accepted route visits everybody promised that day and the order.
LEMMA AcceptTours ==
  ASSUME Planned, SlotsFit, ToursFit, NEW s \in offer.slots, NEW r \in Accepted(s)
  PROVE  /\ IsInjective(r) /\ Booked[s.date] \subseteq ToSet(r)
         /\ ToSet(r) \subseteq DOMAIN lock \cup {Order}
<1>1. s.date \in Dates /\ s.position \in Nat /\ offer # NoOffer
  BY DEF SlotsFit, OfferedSlots, NoOffer
<1>2. Standing
  BY <1>1 DEF SlotsFit, Planned
<1>3. Booked[s.date] \subseteq DOMAIN lock /\ Order \notin Promised
  BY <1>1, <1>2 DEF Standing, Promised
<1>4. CASE s.position > 0
  <2>1. r = Insert(routes[s.date], s.position)
    BY <1>4 DEF Accepted
  <2>2. /\ routes[s.date] \in Seq(Promised) /\ IsInjective(routes[s.date])
        /\ s.position \in 1 .. Len(routes[s.date]) + 1
        /\ Booked[s.date] \subseteq ToSet(routes[s.date])
        /\ ToSet(routes[s.date]) \subseteq DOMAIN lock
    BY <1>1, <1>2, <1>4 DEF Standing, SlotsFit, ToursFit
  <2>3. IsInjective(r) /\ ToSet(r) = ToSet(routes[s.date]) \cup {Order}
    BY <1>3, <2>1, <2>2, InsertTour
  <2> QED
    BY <2>2, <2>3
<1>5. CASE ~(s.position > 0)
  <2>1. r \in SetToSeqs(Booked[s.date] \cup {Order})
    BY <1>5 DEF Accepted, Solutions
  <2>2. IsFiniteSet(Booked[s.date] \cup {Order})
    <3>1. IsFiniteSet(Booked[s.date])
      BY <1>1, LegAssumption, Zenon
    <3> QED
      BY <3>1, FS_AddElement
  <2>3. IsInjective(r) /\ ToSet(r) = Booked[s.date] \cup {Order}
    BY <2>1, <2>2, TourOf
  <2> QED
    BY <1>3, <2>3
<1> QED
  BY <1>4, <1>5

LEMMA AcceptFits ==
  ASSUME Planned, OptionsFit, SlotsFit, ToursFit, accept_offer
  PROVE  OptionsFit' /\ SlotsFit' /\ ToursFit'
<1>1. PICK s \in offer.slots : \E r \in Accepted(s) :
         /\ routes' = [routes EXCEPT ![s.date] = r]
         /\ lock' = With(s.window)
  BY DEF accept_offer
<1>2. PICK r \in Accepted(s) :
         /\ routes' = [routes EXCEPT ![s.date] = r]
         /\ lock' = With(s.window)
  BY <1>1
<1>3. /\ IsInjective(r) /\ Booked[s.date] \subseteq ToSet(r)
      /\ ToSet(r) \subseteq DOMAIN lock \cup {Order}
  BY AcceptTours
<1>4. s.window \in Windows /\ s.date \in Dates
  BY DEF SlotsFit, OfferedSlots
<1>5. DOMAIN lock' = DOMAIN lock \cup {Order} /\ \A o \in DOMAIN lock' : lock'[o] \in Windows
  BY <1>2, <1>4 DEF With, ToursFit
<1>6. DOMAIN routes' = Dates
      /\ \A d \in Dates : routes'[d] = IF d = s.date THEN r ELSE routes[d]
  BY <1>2 DEF ToursFit
<1>7. ToursFit'
  BY <1>3, <1>5, <1>6 DEF ToursFit
<1>8. options' = options /\ asked' = asked /\ offer' = NoOffer /\ offer'.slots = {}
  BY DEF accept_offer, NoOffer
<1>9. OptionsFit'
  BY <1>8 DEF OptionsFit, AskedIds
<1>10. SlotsFit'
  BY <1>8 DEF SlotsFit, NoOffer
<1> QED
  BY <1>7, <1>9, <1>10

LEMMA FitsInit == Init => OptionsFit /\ SlotsFit /\ ToursFit
<1> SUFFICES ASSUME Init PROVE OptionsFit /\ SlotsFit /\ ToursFit
  OBVIOUS
<1>1. SlotsFit
  BY DEF Init, SlotsFit, NoOffer
<1>2. OptionsFit
  <2>1. PICK named \in SUBSET Dates : \E window \in [named -> Stated] :
          options = {Option(d, d, window[d], {}) : d \in named}
    BY DEF Init
  <2>2. PICK window \in [named -> Stated] :
          options = {Option(d, d, window[d], {}) : d \in named}
    BY <2>1
  <2> DEFINE row == [d \in named |-> Option(d, d, window[d], {})]
  <2>3. IsFiniteSet(options)
    <3>1. options \subseteq {row[d] : d \in named}
      BY <2>2
    <3>2. IsFiniteSet(named)
      <4>1. IsFiniteSet(Dates)
        BY LegAssumption, Zenon
      <4> QED
        BY <4>1, FS_Subset
    <3> HIDE DEF row
    <3> QED
      BY <3>1, <3>2, FiniteImage
  <2>4. AskedIds = {}
    BY DEF Init, AskedIds, IdsOf
  <2>5. ASSUME NEW d \in named
        PROVE  /\ Option(d, d, window[d], {}) \in Options
               /\ Option(d, d, window[d], {}).id = d
    BY DayAssumption DEF Option, Options, Windows
  <2>6. options \subseteq Options
    BY <2>2, <2>5
  <2>7. \A o, p \in options : o.id = p.id => o = p
    BY <2>2, <2>5
  <2> QED
    BY <2>3, <2>4, <2>6, <2>7, FS_EmptySet DEF OptionsFit
<1>3. ToursFit
  <2>1. lock \in [Promised -> Given] /\ DOMAIN routes = Dates
    BY DEF Init, Promised
  <2>2. \A o \in DOMAIN lock : lock[o] \in Windows
    <3>1. Given \subseteq Windows
      BY LegAssumption, Zenon DEF Windows
    <3> QED
      BY <2>1, <3>1
  <2>3. ASSUME NEW d \in Dates
        PROVE  /\ IsInjective(routes[d])
               /\ Booked[d] \subseteq ToSet(routes[d])
               /\ ToSet(routes[d]) \subseteq DOMAIN lock
    <3>1. routes[d] \in SetToSeqs(Booked[d])
      BY DEF Init, Solutions
    <3>2. IsFiniteSet(Booked[d])
      BY LegAssumption, Zenon
    <3>3. IsInjective(routes[d]) /\ ToSet(routes[d]) = Booked[d]
      BY <3>1, <3>2, TourOf
    <3>4. Booked[d] \subseteq DOMAIN lock
      BY <2>1 DEF Promised
    <3> QED
      BY <3>3, <3>4
  <2> QED
    BY <2>1, <2>2, <2>3 DEF ToursFit
<1> QED
  BY <1>1, <1>2, <1>3

LEMMA PlannedInit == Init => Planned
<1> SUFFICES ASSUME Init, Order \notin DOMAIN lock PROVE Standing
  BY DEF Planned
<1>1. lock \in [Promised -> Windows]
  <2>1. lock \in [Promised -> Given]
    BY DEF Init, Promised
  <2>2. Given \subseteq Windows
    BY LegAssumption, Zenon DEF Windows
  <2> QED
    BY <2>1, <2>2
<1>2. ASSUME NEW d \in Dates
      PROVE  routes[d] \in Seq(Promised)
  <2>1. routes[d] \in SetToSeqs(Booked[d])
    BY DEF Init, Solutions
  <2>2. IsFiniteSet(Booked[d])
    BY LegAssumption, Zenon
  <2>3. routes[d] \in Seq(Booked[d]) /\ Booked[d] \subseteq Promised
    BY <2>1, <2>2, TourOf DEF Promised
  <2> QED
    BY <2>3, SeqMonotonic
<1> QED
  BY <1>1, <1>2 DEF Standing

Fitting == OptionsFit /\ SlotsFit /\ ToursFit /\ Planned

\* Only acceptance touches the routes and the promises.
LEMMA DayStays ==
  ASSUME ToursFit, Planned, routes' = routes, lock' = lock
  PROVE  ToursFit' /\ Planned'
BY DEF ToursFit, Planned, Standing

LEMMA FitsNext == Fitting /\ [Next]_vars => Fitting'
<1> SUFFICES ASSUME OptionsFit, SlotsFit, ToursFit, Planned, [Next]_vars
             PROVE  OptionsFit' /\ SlotsFit' /\ ToursFit' /\ Planned'
  BY DEF Fitting
<1>1. CASE create_offer
  <2>1. routes' = routes /\ lock' = lock
    BY <1>1 DEF create_offer, Ask
  <2> QED
    BY <1>1, <2>1, CreateOfferFits, DayStays
<1>2. CASE reject_offer
  <2>1. routes' = routes /\ lock' = lock
    BY <1>2 DEF reject_offer
  <2> QED
    BY <1>2, <2>1, RejectFits, DayStays
<1>3. ASSUME NEW d \in Dates, NEW w \in Stated, record_availability(d, w)
      PROVE  OptionsFit' /\ SlotsFit' /\ ToursFit' /\ Planned'
  <2>1. routes' = routes /\ lock' = lock
    BY <1>3 DEF record_availability
  <2>2. OptionsFit' /\ SlotsFit'
    BY <1>3, RecordFits
  <2> QED
    BY <2>1, <2>2, DayStays
<1>4. ASSUME NEW dates \in SUBSET Dates, NEW restricted, NEW purpose,
             NEW limit \in Nat \ {0}, Free,
             offer_insertions(purpose, limit, search(dates, restricted))
      PROVE  OptionsFit' /\ SlotsFit' /\ ToursFit' /\ Planned'
  <2>1. routes' = routes /\ lock' = lock
    BY <1>4 DEF offer_insertions, Ask
  <2>2. OptionsFit' /\ SlotsFit'
    BY <1>4, InsertionsFit
  <2> QED
    BY <2>1, <2>2, DayStays
<1>5. CASE find_normal_slot
  <2>1. {Home} \in SUBSET Dates
    BY LegAssumption, Zenon
  <2>2. Free /\ offer_insertions("booking", 1, search({Home}, Preferred # {}))
    BY <1>5 DEF find_normal_slot
  <2>3. 1 \in Nat \ {0}
    OBVIOUS
  <2> QED
    BY <1>4, <2>1, <2>2, <2>3
<1>6. CASE find_requested_day_slot
  <2>1. {o.date : o \in options} \in SUBSET Dates
    BY DEF OptionsFit, Options
  <2>2. Free /\ offer_insertions("booking", 1,
                   search({o.date : o \in options}, Preferred # {}))
    BY <1>6 DEF find_requested_day_slot
  <2>3. 1 \in Nat \ {0}
    OBVIOUS
  <2> QED
    BY <1>4, <2>1, <2>2, <2>3
<1>7. CASE find_fallback_options
  <2>1. Free /\ offer_insertions("alternative", Alternatives,
                   search(Dates, Preferred # {} /\ only))
    BY <1>7 DEF find_fallback_options
  <2>2. Dates \in SUBSET Dates
    OBVIOUS
  <2>3. Alternatives \in Nat \ {0}
    BY LegAssumption, Zenon
  <2> QED
    BY <1>4, <2>1, <2>2, <2>3
<1>8. CASE accept_offer
  <2>1. OptionsFit' /\ SlotsFit' /\ ToursFit'
    BY <1>8, AcceptFits
  <2>2. \E w : lock' = With(w)
    BY <1>8 DEF accept_offer
  <2>3. Order \in DOMAIN lock'
    BY <2>2 DEF With
  <2> QED
    BY <2>1, <2>3 DEF Planned
<1>9. CASE UNCHANGED vars
  <2>1. /\ options' = options /\ asked' = asked /\ offer' = offer
        /\ routes' = routes /\ lock' = lock
    BY <1>9 DEF vars
  <2>2. OptionsFit'
    BY <2>1 DEF OptionsFit, AskedIds
  <2>3. SlotsFit'
    BY <2>1 DEF SlotsFit, NoOffer
  <2> QED
    BY <2>1, <2>2, <2>3, DayStays
<1> QED
  BY <1>1, <1>2, <1>3, <1>5, <1>6, <1>7, <1>8, <1>9 DEF Next

LEMMA FitsAlways == Spec => []Fitting
<1>1. Init => Fitting
  BY FitsInit, PlannedInit DEF Fitting
<1> QED
  BY <1>1, FitsNext, PTL DEF Spec

\* Type correctness: the rows hold windows of bookable dates, no two options
\* share an id, every date's route visits everybody promised that day, each
\* once and nobody else, and an open offer has a slot and belongs to an order
\* without a promise (models.JobRecord, AppointmentOffer; plan_service.solve_day).
THEOREM TypeCorrect == Spec => []TypeOK
<1>1. Fitting => TypeOK
  BY DEF Fitting, OptionsFit, SlotsFit, ToursFit, TypeOK
<1> QED
  BY <1>1, FitsAlways, PTL

-----------------------------------------------------------------------------
(* Every slot on offer can be kept, as long as the routes stand.           *)

AllKept == \A s \in offer.slots : Kept(s)

\* What can be kept depends on the routes and the promises alone.
LEMMA KeptStays ==
  ASSUME routes' = routes, lock' = lock
  PROVE  \A s : Kept(s)' <=> Kept(s)
BY DEF Kept, Accepted, With, Solutions, Insert

LEMMA CreateOfferKept ==
  ASSUME Fitting, create_offer
  PROVE  AllKept'
<1>1. Free /\ routes' = routes /\ lock' = lock
  BY DEF create_offer, Ask
<1>2. Standing
  BY <1>1 DEF Fitting, Planned, Free
<1>3. ASSUME NEW s \in offer'.slots
      PROVE  Kept(s)
  <2>1. PICK o \in options : s \in Feasible(o)
    BY <1>3 DEF create_offer, Ask, kSubset
  <2>2. o.window \in Windows /\ o.excluded \in SUBSET Windows /\ o.date \in Dates
    BY DEF Fitting, OptionsFit, Options
  <2> QED
    BY <1>2, <2>1, <2>2, SolvedKept
<1> QED
  BY <1>1, <1>3, KeptStays DEF AllKept

LEMMA InsertionsKept ==
  ASSUME Fitting, Free, SlotsInDay, NEW dates \in SUBSET Dates, NEW restricted,
         NEW purpose, NEW limit,
         offer_insertions(purpose, limit, search(dates, restricted))
  PROVE  AllKept'
<1> DEFINE found == search(dates, restricted)
           first == First(limit, found, purpose = "booking")
           slots == {Slot(o, {p \in first : Better(p, o)}) : o \in first}
<1>1. offer'.slots = slots /\ routes' = routes /\ lock' = lock
  BY DEF offer_insertions, Ask
<1>2. first \subseteq found
  BY DEF First
<1>3. Standing
  BY DEF Fitting, Planned, Free
<1> HIDE DEF first
<1>4. ASSUME NEW s \in slots
      PROVE  Kept(s)
  <2>1. PICK o \in first : s = Slot(o, {p \in first : Better(p, o)})
    OBVIOUS
  <2>2. PICK d \in dates : \E p \in 1 .. Len(routes[d]) + 1 : o \in Tested(d, p)
    BY <1>2, <1>3, <2>1, SearchTested
  <2>3. PICK p \in 1 .. Len(routes[d]) + 1 : o \in Tested(d, p)
    BY <2>2
  <2> QED
    BY <1>3, <2>1, <2>3, InsertedKept
<1> HIDE DEF slots
<1> QED
  BY <1>1, <1>4, KeptStays DEF AllKept

LEMMA KeptNext == SlotsInDay /\ Fitting /\ AllKept /\ [Next]_vars => AllKept'
<1> SUFFICES ASSUME SlotsInDay, Fitting, AllKept, [Next]_vars PROVE AllKept'
  OBVIOUS
<1>1. CASE create_offer
  BY <1>1, CreateOfferKept
<1>2. CASE find_normal_slot
  <2>1. {Home} \in SUBSET Dates
    BY LegAssumption, Zenon
  <2>2. Free /\ offer_insertions("booking", 1, search({Home}, Preferred # {}))
    BY <1>2 DEF find_normal_slot
  <2> QED
    BY <2>1, <2>2, InsertionsKept
<1>3. CASE find_requested_day_slot
  <2>1. {o.date : o \in options} \in SUBSET Dates
    BY DEF Fitting, OptionsFit, Options
  <2>2. Free /\ offer_insertions("booking", 1,
                   search({o.date : o \in options}, Preferred # {}))
    BY <1>3 DEF find_requested_day_slot
  <2> QED
    BY <2>1, <2>2, InsertionsKept
<1>4. CASE find_fallback_options
  <2>1. Free /\ offer_insertions("alternative", Alternatives,
                   search(Dates, Preferred # {} /\ only))
    BY <1>4 DEF find_fallback_options
  <2>2. Dates \in SUBSET Dates
    OBVIOUS
  <2> QED
    BY <2>1, <2>2, InsertionsKept
<1>5. CASE reject_offer \/ accept_offer
  <2>1. offer'.slots = {}
    BY <1>5 DEF reject_offer, accept_offer, NoOffer
  <2> QED
    BY <2>1 DEF AllKept
<1>6. CASE (\E d \in Dates, w \in Stated : record_availability(d, w)) \/ UNCHANGED vars
  <2>1. offer' = offer /\ routes' = routes /\ lock' = lock
    BY <1>6 DEF record_availability, vars
  <2> QED
    BY <2>1, KeptStays DEF AllKept
<1> QED
  BY <1>1, <1>2, <1>3, <1>4, <1>5, <1>6 DEF Next

\* Whichever slot the customer takes can be kept: with the promises as they
\* stand a route locked to the slot is on time, and for an inserted slot it is
\* the route that was tested, at the arrival that was quoted -- as long as the
\* delivery slots end within the working day, which the settings do not check
\* (planning/slots.py, config.py arrival_cutoff).
THEOREM OffersKept == SlotsInDay => (Spec => []OfferCanBeKept)
<1> SUFFICES ASSUME SlotsInDay PROVE Spec => []OfferCanBeKept
  OBVIOUS
<1>1. Init => AllKept
  BY DEF Init, NoOffer, AllKept
<1>2. Fitting /\ AllKept /\ [Next]_vars => AllKept'
  BY KeptNext
<1>3. AllKept => OfferCanBeKept
  BY DEF AllKept, Kept, OfferCanBeKept
<1> QED
  BY <1>1, <1>2, <1>3, FitsAlways, PTL DEF Spec
=============================================================================
