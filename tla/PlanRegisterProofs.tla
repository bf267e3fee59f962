------------------------- MODULE PlanRegisterProofs -------------------------
(***************************************************************************)
(* PlanVersions implements PlanRegister: whatever statements, failures and *)
(* crashes interleave, the committed histories grow only at a COMMIT, by a *)
(* route for each of one or two dates.  Inv says that every history is a   *)
(* chain; Pending adds which dates the open transaction has already        *)
(* published, so that its COMMIT is known to publish at most two.          *)
(***************************************************************************)
EXTENDS PlanVersionsProofs, SequenceTheorems

\* The routes promised for a date, oldest first.
Routes(t) == [v \in DOMAIN t |-> t[v].plan]

\* The open transaction has published a route for this date, or found the
\* same route active.
Published(d) == \E p \in Plans :
  Routes(txVersions[d]) = Register!After(Routes(route_plan_versions[d]), p)

\* The open transaction has published these dates and left the others alone.
Touched(S) == \A d \in Days :
  IF d \in S THEN Published(d)
             ELSE Routes(txVersions[d]) = Routes(route_plan_versions[d])

\* Before its INSERT, a publish has its own date still to do.
Before(work) ==
  \/ Touched({})
  \/ /\ Len(work) = 1
     /\ \E e \in Days \ {Head(work).day} : Touched({e})

\* After its INSERT, its own date is done as well.
AfterInsert(work) ==
  \/ Touched({Head(work).day})
  \/ /\ Len(work) = 1
     /\ \E e \in Days : Touched({e, Head(work).day})

Pending(r) ==
  /\ pc[r] \in Working => Publishable(todo[r])
  /\ pc[r] \in {"select", "supersede", "insert"} => Before(todo[r])
  /\ pc[r] = "cache" => AfterInsert(todo[r])
  /\ pc[r] = "commit" => \E d, e \in Days : Touched({d, e})

PubInv == Inv /\ \A r \in Requests : Pending(r)

-----------------------------------------------------------------------------
\* Facts about histories.

\* The history of a chain is the sequence of its plans, the last one on top.
LEMMA RoutesOfChain ==
  ASSUME NEW t, NEW n, Chain(t, n)
  PROVE  /\ Routes(t) \in Seq(Plans)
         /\ Len(Routes(t)) = n
         /\ Routes(t) = << >> <=> n = 0
         /\ n > 0 => Register!Last(Routes(t)) = t[n].plan
<1>1. n \in Nat /\ DOMAIN t = 1..n /\ \A v \in 1..n : t[v].plan \in Plans
  BY DEF Chain, IsTable, Row
<1>2. Routes(t) \in [1..n -> Plans]
  BY <1>1 DEF Routes
<1>3. Routes(t) \in Seq(Plans) /\ Len(Routes(t)) = n
  BY <1>1, <1>2
<1>4. n > 0 => Register!Last(Routes(t)) = t[n].plan
  BY <1>1, <1>3 DEF Register!Last, Routes
<1>5. Routes(t) = << >> <=> n = 0
  BY <1>3
<1> QED BY <1>3, <1>4, <1>5

\* Publishing what is active adds nothing to the history.
LEMMA SameAddsNothing ==
  ASSUME NEW t, NEW n, Chain(t, n), n > 0
  PROVE  Register!After(Routes(t), t[n].plan) = Routes(t)
  BY RoutesOfChain DEF Register!After

\* The UPDATE of a status leaves the history alone.
LEMMA SupersedeKeepsRoutes ==
  ASSUME NEW t, NEW n
  PROVE  Routes(Supersede(t, n)) = Routes(t)
<1> DEFINE u == Supersede(t, n)
<1>1. DOMAIN u = DOMAIN t
  BY DEF Supersede
<1>2. \A v \in DOMAIN t : u[v].plan = t[v].plan
  BY DEF Supersede, Superseded
<1> QED BY <1>1, <1>2 DEF Routes

\* The INSERT of the next version appends its plan.
LEMMA InsertAppends ==
  ASSUME NEW t, NEW n, NEW p \in Plans, Chain(t, n), Differs(t, n, p),
         NEW row, row.plan = p
  PROVE  Routes(Insert(t, n + 1, row)) = Register!After(Routes(t), p)
<1> DEFINE u == Insert(t, n + 1, row)
           h == Routes(t)
<1>1. n \in Nat /\ DOMAIN t = 1..n
  BY DEF Chain
<1>2. h \in Seq(Plans) /\ Len(h) = n
  BY RoutesOfChain
<1>3. Register!After(h, p) = Append(h, p)
  BY <1>1, RoutesOfChain DEF Register!After, Differs
<1>4. DOMAIN u = 1..(n + 1)
  BY <1>1 DEF Insert
<1>5. \A v \in 1..(n + 1) : u[v].plan = IF v = n + 1 THEN p ELSE h[v]
  BY <1>1, <1>4 DEF Insert, Routes
<1>6. Routes(u) = [v \in 1..(n + 1) |-> IF v = n + 1 THEN p ELSE h[v]]
  BY <1>4, <1>5 DEF Routes
<1>7. Append(h, p) = [v \in 1..(n + 1) |-> IF v = n + 1 THEN p ELSE h[v]]
  <2> DEFINE longer == [v \in 1..(n + 1) |-> IF v = n + 1 THEN p ELSE h[v]]
  <2> HIDE DEF h
  <2>1. \A v \in 1..n : h[v] \in Plans
    BY <1>1, <1>2
  <2>2. longer \in [1..(n + 1) -> Plans]
    BY <1>1, <2>1
  <2>3. n + 1 \in Nat
    BY <1>1
  <2>4. longer \in Seq(Plans) /\ Len(longer) = n + 1
    <3> HIDE DEF longer
    <3> QED BY <2>2, <2>3
  <2>5. /\ Append(h, p) \in Seq(Plans)
        /\ Len(Append(h, p)) = n + 1
        /\ \A v \in 1..n : Append(h, p)[v] = h[v]
        /\ Append(h, p)[n + 1] = p
    BY <1>2, AppendProperties
  <2>6. \A v \in 1..(n + 1) : Append(h, p)[v] = longer[v]
    BY <1>1, <2>5
  <2> HIDE DEF longer
  <2>7. Len(Append(h, p)) = Len(longer)
    BY <2>4, <2>5
  <2>8. \A v \in 1..Len(Append(h, p)) : Append(h, p)[v] = longer[v]
    BY <2>5, <2>6
  <2>9. Append(h, p) = longer
    <3> HIDE DEF h
    <3> QED BY <2>4, <2>5, <2>7, <2>8, SeqEqual, Zenon
  <2> QED BY <2>9 DEF longer
<1> QED BY <1>3, <1>6, <1>7

-----------------------------------------------------------------------------
\* What a statement does to the dates already published.

\* A statement that changes no history disturbs nothing published so far.
LEMMA TouchedStays ==
  ASSUME NEW S, Touched(S), UNCHANGED route_plan_versions,
         \A d \in Days : Routes(txVersions'[d]) = Routes(txVersions[d])
  PROVE  Touched(S)'
  BY DEF Touched, Published

\* Publishing one more date adds it to those published.
LEMMA TouchedGrows ==
  ASSUME NEW S, NEW d \in Days, d \notin S, Touched(S), UNCHANGED route_plan_versions,
         \A e \in Days \ {d} : Routes(txVersions'[e]) = Routes(txVersions[e]),
         Published(d)'
  PROVE  Touched(S \cup {d})'
  BY DEF Touched, Published

LEMMA BeforeStays ==
  ASSUME NEW work, Before(work), UNCHANGED route_plan_versions,
         \A d \in Days : Routes(txVersions'[d]) = Routes(txVersions[d])
  PROVE  Before(work)'
<1>1. \A S : Touched(S) => Touched(S)'
  BY TouchedStays
<1> QED BY <1>1 DEF Before

LEMMA AfterInsertStays ==
  ASSUME NEW work, AfterInsert(work), UNCHANGED route_plan_versions,
         \A d \in Days : Routes(txVersions'[d]) = Routes(txVersions[d])
  PROVE  AfterInsert(work)'
<1>1. \A S : Touched(S) => Touched(S)'
  BY TouchedStays
<1> QED BY <1>1 DEF AfterInsert

\* The publish in hand has published its date.
LEMMA PublishesHead ==
  ASSUME NEW work, NEW d, d = Head(work).day, d \in Days,
         Before(work), UNCHANGED route_plan_versions,
         \A e \in Days \ {d} : Routes(txVersions'[e]) = Routes(txVersions[e]),
         Published(d)'
  PROVE  AfterInsert(work)'
<1>1. \A S : d \notin S /\ Touched(S) => Touched(S \cup {d})'
  BY TouchedGrows
<1>2. CASE Touched({})
  <2>1. Touched({} \cup {d})'
    BY <1>1, <1>2
  <2>2. {} \cup {d} = {d}
    OBVIOUS
  <2> QED BY <2>1, <2>2 DEF AfterInsert
<1>3. CASE Len(work) = 1 /\ \E e \in Days \ {d} : Touched({e})
  <2>1. PICK e \in Days \ {d} : Touched({e})
    BY <1>3
  <2>2. Touched({e} \cup {d})'
    BY <1>1, <2>1
  <2>3. {e} \cup {d} = {e, d}
    OBVIOUS
  <2> QED BY <1>3, <2>2, <2>3 DEF AfterInsert
<1> QED BY <1>2, <1>3 DEF Before

\* The vacated date alone is left of two.
LEMMA TailOfTwo ==
  ASSUME NEW w, NEW s, NEW t, w = <<s, t>>
  PROVE  Len(Tail(w)) = 1 /\ Head(Tail(w)) = t
<1>1. Tail(w) = <<t>>
  OBVIOUS
<1>2. \A u : u = <<t>> => Len(u) = 1 /\ Head(u) = t
  OBVIOUS
<1> QED BY <1>1, <1>2, Zenon

\* After the last publish at most two dates are done; after the first of two,
\* the vacated date is not one of them.
LEMMA WorkDone ==
  ASSUME NEW w \in Jobs, Publishable(w), AfterInsert(w)
  PROVE  /\ Len(w) = 1 => \E d, e \in Days : Touched({d, e})
         /\ Len(w) # 1 => Before(Tail(w)) /\ Publishable(Tail(w))
<1>1. Head(w).day \in Days
  BY WorkShrinks DEF Sequence
<1>2. CASE w \in {<<s>> : s \in Sequence}
  <2>1. Len(w) = 1
    BY <1>2
  <2>2. {Head(w).day} = {Head(w).day, Head(w).day}
    OBVIOUS
  <2> QED BY <2>1, <2>2, <1>1 DEF AfterInsert
<1>3. CASE w \in {<<s, t>> : s, t \in Sequence}
  <2>1. PICK s \in Sequence, t \in Sequence : w = <<s, t>>
    BY <1>3
  <2>2. Len(w) = 2 /\ Head(w) = s /\ w[1] = s /\ w[2] = t
    BY <2>1
  <2>3. Len(Tail(w)) = 1 /\ Head(Tail(w)) = t
    BY <2>1, TailOfTwo
  <2>4. s.day # t.day
    BY <2>2 DEF Publishable
  <2>5. Touched({s.day})
    BY <2>2 DEF AfterInsert
  <2> QED BY <1>1, <2>2, <2>3, <2>4, <2>5 DEF Before, Publishable
<1> QED BY <1>2, <1>3 DEF Jobs

\* WorkDone of the tables after a statement.
LEMMA WorkDoneNext ==
  (\A w \in Jobs : Publishable(w) /\ AfterInsert(w) =>
     /\ Len(w) = 1 => \E d, e \in Days : Touched({d, e})
     /\ Len(w) # 1 => Before(Tail(w)) /\ Publishable(Tail(w)))'
<1>1. \A w \in Jobs : Publishable(w) /\ AfterInsert(w) =>
        /\ Len(w) = 1 => \E d, e \in Days : Touched({d, e})
        /\ Len(w) # 1 => Before(Tail(w)) /\ Publishable(Tail(w))
  BY WorkDone
<1> QED BY <1>1, PTL

\* Requests outside the transaction have nothing to do with it.
LEMMA OtherPending ==
  ASSUME NEW q \in Requests, Pending(q), pc[q] \notin InTransaction,
         pc'[q] = pc[q], todo'[q] = todo[q]
  PROVE  Pending(q)'
  BY DEF Pending, InTransaction, Working

\* A request that takes no step sees its transaction as it was.
LEMMA SameTables ==
  ASSUME NEW q \in Requests, Pending(q), UNCHANGED <<route_plan_versions, txVersions>>,
         pc'[q] = pc[q], todo'[q] = todo[q]
  PROVE  Pending(q)'
<1>1. UNCHANGED route_plan_versions
      /\ \A d \in Days : Routes(txVersions'[d]) = Routes(txVersions[d])
  OBVIOUS
<1>2. \A w : /\ Before(w) => Before(w)'
             /\ AfterInsert(w) => AfterInsert(w)'
  BY <1>1, BeforeStays, AfterInsertStays
<1>3. \A S : Touched(S) => Touched(S)'
  BY <1>1, TouchedStays
<1> QED BY <1>2, <1>3 DEF Pending

-----------------------------------------------------------------------------
\* Pending, one lemma per statement.

\* Nobody but the holder of the lock has anything pending.
LEMMA HolderOnly ==
  ASSUME PubInv, NEW r \in Requests, pc[r] \in InTransaction, Pending(r)',
         \A q \in Requests \ {r} : pc'[q] = pc[q] /\ todo'[q] = todo[q]
  PROVE  \A q \in Requests : Pending(q)'
<1> SUFFICES ASSUME NEW q \in Requests, q # r PROVE Pending(q)'
  OBVIOUS
<1>1. pc[q] \notin InTransaction
  BY OneWriter DEF PubInv, Inv
<1> QED BY <1>1, OtherPending DEF PubInv

\* The routes of a request are for different dates.
LEMMA RequestPending ==
  ASSUME PubInv, NEW r \in Requests, NEW work \in Jobs, Request(r, work)
  PROVE  \A q \in Requests : Pending(q)'
<1>1. ASSUME NEW q \in Requests PROVE Pending(q)'
  <2>1. CASE q = r
    BY <2>1 DEF PubInv, Inv, TypeOK, Request, Pending
  <2>2. CASE q # r
    <3>1. pc'[q] = pc[q] /\ todo'[q] = todo[q]
      BY <2>2 DEF PubInv, Inv, TypeOK, Request
    <3>2. UNCHANGED <<route_plan_versions, txVersions>>
      BY DEF Request, database, tx
    <3> QED BY <3>1, <3>2, SameTables DEF PubInv
  <2> QED BY <2>1, <2>2
<1> QED BY <1>1

LEMMA BusyPending ==
  ASSUME PubInv, NEW r \in Requests, Busy(r)
  PROVE  \A q \in Requests : Pending(q)'
<1>1. ASSUME NEW q \in Requests PROVE Pending(q)'
  <2>1. CASE q = r
    BY <2>1 DEF PubInv, Inv, TypeOK, Busy, Pending, Working
  <2>2. CASE q # r
    <3>1. pc'[q] = pc[q] /\ todo'[q] = todo[q]
      BY <2>2 DEF PubInv, Inv, TypeOK, Busy
    <3>2. UNCHANGED <<route_plan_versions, txVersions>>
      BY DEF Busy, database, tx
    <3> QED BY <3>1, <3>2, SameTables DEF PubInv
  <2> QED BY <2>1, <2>2
<1> QED BY <1>1

\* A transaction starts with nothing published.
LEMMA BeginPending ==
  ASSUME PubInv, NEW r \in Requests, Begin(r)
  PROVE  \A q \in Requests : Pending(q)'
<1>1. pc[r] = "begin" /\ \A q \in Requests : pc[q] \notin InTransaction
  BY PlanVersionsAssumption DEF PubInv, Inv, TypeOK, Lock, Begin
<1>2. /\ pc'[r] = "select" /\ todo' = todo
      /\ \A q \in Requests \ {r} : pc'[q] = pc[q]
  BY DEF PubInv, Inv, TypeOK, Begin
<1>3. Before(todo[r])'
  BY <1>2 DEF Begin, database, Before, Touched
<1>4. ASSUME NEW q \in Requests PROVE Pending(q)'
  <2>1. CASE q = r
    BY <2>1, <1>1, <1>2, <1>3 DEF PubInv, Pending, Working
  <2>2. CASE q # r
    BY <2>2, <1>1, <1>2, OtherPending DEF PubInv
  <2> QED BY <2>1, <2>2
<1> QED BY <1>4

\* What follows a publish: the vacated date, which is still to do, or COMMIT.
LEMMA NextPending ==
  ASSUME PubInv, NEW r \in Requests, pc[r] \in {"select", "cache"}, NextPublish(r),
         NEW w, w = todo[r], AfterInsert(w)'
  PROVE  \A q \in Requests : Pending(q)'
<1>1. w \in Jobs /\ Publishable(w)
  BY DEF PubInv, Inv, Lock, Pending, Working
<1>2. /\ todo'[r] = Tail(w)
      /\ pc'[r] = IF Len(w) = 1 THEN "commit" ELSE "select"
      /\ \A q \in Requests \ {r} : pc'[q] = pc[q] /\ todo'[q] = todo[q]
  BY DEF PubInv, Inv, TypeOK, NextPublish
<1>3. Len(w) = 1 => (\E d, e \in Days : Touched({d, e}))'
  BY <1>1, WorkDoneNext
<1>4. Len(w) # 1 => Before(Tail(w))' /\ Publishable(Tail(w))
  BY <1>1, WorkDoneNext
<1>5. Pending(r)'
  BY <1>2, <1>3, <1>4 DEF Pending, Working
<1> QED BY <1>2, <1>5, HolderOnly DEF InTransaction

\* Finding the same route active publishes nothing, which After allows for.
LEMMA SelectSamePending ==
  ASSUME PubInv, NEW r \in Requests, SelectSame(r)
  PROVE  \A q \in Requests : Pending(q)'
<1>w. PICK w : w = todo[r]
  OBVIOUS
<1> DEFINE s == Head(w)
           t == txVersions[s.day]
           n == Top(t)
<1>1. /\ pc[r] = "select" /\ w \in Jobs /\ s.day \in Days /\ s.plan \in Plans
      /\ Before(w) /\ NextPublish(r)
  BY <1>w, WorkShrinks DEF SelectSame, PubInv, Inv, Lock, Working, Sequence, Pending
<1>2. UNCHANGED <<route_plan_versions, txVersions>>
  BY DEF SelectSame, database, tx
<1>3. Rows(t, n)
  BY <1>1 DEF PubInv, Inv, Progress, Settled, Clean
<1>4. n > 0 /\ t[n].plan = s.plan
  BY <1>w, <1>3, ActiveOfRows DEF SelectSame, Rows, Chain
<1>5. Routes(t) = Register!After(Routes(t), s.plan)
  BY <1>3, <1>4, SameAddsNothing DEF Rows
<1>6. Routes(t) = Routes(route_plan_versions[s.day])
  BY <1>1 DEF Before, Touched
<1>7. Routes(txVersions'[s.day])
        = Register!After(Routes(route_plan_versions'[s.day]), s.plan)
  <2> HIDE DEF s
  <2> QED BY <1>2, <1>5, <1>6 DEF t
<1>8. Published(s.day)'
  <2> HIDE DEF s
  <2> QED BY <1>1, <1>7 DEF Published
<1>9. AfterInsert(w)'
  BY <1>1, <1>2, <1>8, PublishesHead
<1> QED BY <1>w, <1>1, <1>9, NextPending

LEMMA SelectPending ==
  ASSUME PubInv, NEW r \in Requests, Select(r)
  PROVE  \A q \in Requests : Pending(q)'
<1>1. pc[r] = "select" /\ Before(todo[r]) /\ Publishable(todo[r])
  BY DEF Select, PubInv, Pending, Working
<1>2. UNCHANGED <<route_plan_versions, txVersions, todo>> /\ pc' = [pc EXCEPT ![r] = "supersede"]
  BY DEF Select, database
<1>3. pc'[r] = "supersede" /\ \A q \in Requests \ {r} : pc'[q] = pc[q]
  BY <1>2 DEF PubInv, Inv, TypeOK
<1>4. Before(todo[r])'
  BY <1>1, <1>2, BeforeStays
<1>5. Pending(r)'
  BY <1>1, <1>2, <1>3, <1>4 DEF Pending
<1> QED BY <1>1, <1>2, <1>3, <1>5, HolderOnly DEF InTransaction

LEMMA SupersedeActivePending ==
  ASSUME PubInv, NEW r \in Requests, SupersedeActive(r)
  PROVE  \A q \in Requests : Pending(q)'
<1>1. pc[r] = "supersede" /\ Before(todo[r]) /\ Publishable(todo[r])
  BY DEF SupersedeActive, PubInv, Pending, Working
<1>2. UNCHANGED <<route_plan_versions, todo>> /\ pc' = [pc EXCEPT ![r] = "insert"]
  BY DEF SupersedeActive, database
<1>3. pc'[r] = "insert" /\ \A q \in Requests \ {r} : pc'[q] = pc[q]
  BY <1>2 DEF PubInv, Inv, TypeOK
<1>4. \A d \in Days : \/ txVersions'[d] = txVersions[d]
                      \/ txVersions'[d] = Supersede(txVersions[d], txActive)
  BY DEF SupersedeActive, PubInv, Inv, TypeOK
<1>5. \A d \in Days : Routes(txVersions'[d]) = Routes(txVersions[d])
  BY <1>4, SupersedeKeepsRoutes
<1>6. Before(todo[r])'
  BY <1>1, <1>2, <1>5, BeforeStays
<1>7. Pending(r)'
  BY <1>1, <1>2, <1>3, <1>6 DEF Pending
<1> QED BY <1>1, <1>2, <1>3, <1>7, HolderOnly DEF InTransaction

\* The INSERT appends the new route to the committed history of its date.
LEMMA InsertVersionPending ==
  ASSUME PubInv, NEW r \in Requests, InsertVersion(r)
  PROVE  \A q \in Requests : Pending(q)'
<1> DEFINE w == todo[r]
           s == Head(w)
           t == txVersions[s.day]
           row == [status |-> "active", plan |-> s.plan, parent |-> txActive]
<1>1. /\ pc[r] = "insert" /\ w \in Jobs /\ s.day \in Days /\ s.plan \in Plans
      /\ Before(w) /\ Publishable(w)
  BY WorkShrinks DEF InsertVersion, PubInv, Inv, Lock, Working, Sequence, Pending
<1>2. UNCHANGED <<route_plan_versions, todo>> /\ pc' = [pc EXCEPT ![r] = "cache"]
  BY DEF InsertVersion, database
<1>3. pc'[r] = "cache" /\ \A q \in Requests \ {r} : pc'[q] = pc[q]
  BY <1>2 DEF PubInv, Inv, TypeOK
<1>4. Chain(t, txActive) /\ Differs(t, txActive, s.plan) /\ txNumber = txActive + 1
  BY <1>1 DEF PubInv, Inv, Progress, Closed
<1>5. /\ txVersions'[s.day] = Insert(t, txActive + 1, row)
      /\ \A d \in Days \ {s.day} : txVersions'[d] = txVersions[d]
  BY <1>1, <1>4 DEF PubInv, Inv, TypeOK, InsertVersion
<1>6. row.plan = s.plan
  OBVIOUS
<1>7. Routes(txVersions'[s.day]) = Register!After(Routes(t), s.plan)
  <2> HIDE DEF row, t, s
  <2> QED BY <1>1, <1>4, <1>5, <1>6, InsertAppends
<1>8. Routes(t) = Routes(route_plan_versions[s.day])
  BY <1>1 DEF Before, Touched
<1>9. Published(s.day)'
  BY <1>1, <1>2, <1>7, <1>8 DEF Published
<1>10. AfterInsert(w)'
  BY <1>1, <1>2, <1>5, <1>9, PublishesHead
<1>11. Pending(r)'
  BY <1>1, <1>2, <1>3, <1>10 DEF Pending
<1> QED BY <1>1, <1>2, <1>3, <1>11, HolderOnly DEF InTransaction

LEMMA CacheSequencePending ==
  ASSUME PubInv, NEW r \in Requests, CacheSequence(r)
  PROVE  \A q \in Requests : Pending(q)'
<1>w. PICK w : w = todo[r]
  OBVIOUS
<1>1. pc[r] = "cache" /\ AfterInsert(w) /\ NextPublish(r)
  BY <1>w DEF CacheSequence, PubInv, Pending
<1>2. UNCHANGED <<route_plan_versions, txVersions>>
  BY DEF CacheSequence, database
<1>3. AfterInsert(w)'
  BY <1>1, <1>2, AfterInsertStays
<1> QED BY <1>w, <1>1, <1>3, NextPending

\* COMMIT and everything that discards the transaction leave nobody inside.
LEMMA NobodyPending ==
  ASSUME PubInv, \A q \in Requests : pc'[q] \in {"idle", "begin"},
         \A q \in Requests : pc'[q] = "begin" => pc[q] = "begin" /\ todo'[q] = todo[q]
  PROVE  \A q \in Requests : Pending(q)'
  BY DEF PubInv, Pending, Working

LEMMA CommitPending ==
  ASSUME PubInv, NEW r \in Requests, Commit(r)
  PROVE  \A q \in Requests : Pending(q)'
<1>1. pc'[r] = "idle" /\ \A q \in Requests \ {r} : pc'[q] = pc[q] /\ todo'[q] = todo[q]
  BY DEF PubInv, Inv, TypeOK, Commit
<1>2. \A q \in Requests \ {r} : pc[q] \in {"idle", "begin"}
  BY OneWriter DEF PubInv, Inv, TypeOK, Commit, InTransaction
<1> QED BY <1>1, <1>2, NobodyPending

LEMMA RollbackPending ==
  ASSUME PubInv, NEW r \in Requests, Rollback(r)
  PROVE  \A q \in Requests : Pending(q)'
<1>1. pc'[r] = "idle" /\ \A q \in Requests \ {r} : pc'[q] = pc[q] /\ todo'[q] = todo[q]
  BY DEF PubInv, Inv, TypeOK, Rollback
<1>2. \A q \in Requests \ {r} : pc[q] \in {"idle", "begin"}
  BY OneWriter DEF PubInv, Inv, TypeOK, Rollback, InTransaction
<1> QED BY <1>1, <1>2, NobodyPending

LEMMA CrashPending == ASSUME PubInv, Crash PROVE \A q \in Requests : Pending(q)'
  BY NobodyPending DEF Crash

-----------------------------------------------------------------------------
\* The refinement.



\* A COMMIT publishes its one or two dates in a single step of the register.
LEMMA CommitPublishes ==
  ASSUME PubInv, NEW r \in Requests, Commit(r)
  PROVE  Register!Next
<1>1. PICK e \in Days, f \in Days : Touched({e, f})
  BY DEF PubInv, Pending, Commit
<1> DEFINE old == [d \in Days |-> Routes(route_plan_versions[d])]
           new == [d \in Days |-> Routes(txVersions[d])]
           published == [d \in {e, f} |-> CHOOSE p \in Plans :
                           Routes(txVersions[d])
                             = Register!After(Routes(route_plan_versions[d]), p)]
<1>b. PICK batch : batch = published
  OBVIOUS
<1>2. \A d \in {e, f} : /\ batch[d] \in Plans
                        /\ new[d] = Register!After(old[d], batch[d])
  BY <1>1, <1>b DEF Touched, Published
<1>3. \A d \in Days \ {e, f} : new[d] = old[d]
  BY <1>1 DEF Touched
<1>4. batch \in Register!Batches
  <2>1. batch \in [{e, f} -> Plans]
    BY <1>b, <1>2
  <2>2. {e, f} \in {{d, g} : d, g \in Days}
    OBVIOUS
  <2> QED BY <2>1, <2>2 DEF Register!Batches
<1>5. DOMAIN batch = {e, f}
  BY <1>b
<1>6. Register!Publish(batch)
  <2>1. \A d \in Days :
          [v \in DOMAIN route_plan_versions'[d] |-> route_plan_versions'[d][v].plan] = new[d]
    BY DEF Commit, Routes
  <2>2. \A d \in Days :
          [v \in DOMAIN route_plan_versions[d] |-> route_plan_versions[d][v].plan] = old[d]
    BY DEF Routes
  <2>3. \A d \in Days :
          [v \in DOMAIN route_plan_versions'[d] |-> route_plan_versions'[d][v].plan]
            = IF d \in DOMAIN batch THEN Register!After(old[d], batch[d]) ELSE old[d]
    <3> HIDE DEF old, new
    <3> QED BY <2>1, <1>2, <1>3, <1>5
  <2> HIDE DEF old, new
  <2> QED BY <2>2, <2>3 DEF Register!Publish
<1> QED BY <1>4, <1>6 DEF Register!Next

\* PubInv holds in every reachable state.
THEOREM Bookkeeping == Spec => []PubInv
<1>1. Init => PubInv
  BY InitInv DEF PubInv, Init, Pending, Working
<1>2. PubInv /\ [Next]_vars /\ Inv' => PubInv'
  <2> SUFFICES ASSUME PubInv, [Next]_vars PROVE \A q \in Requests : Pending(q)'
    BY DEF PubInv
  <2>1. ASSUME NEW r \in Requests, NEW work \in Jobs, Request(r, work)
        PROVE  \A q \in Requests : Pending(q)'
    BY <2>1, RequestPending
  <2>2. ASSUME NEW r \in Requests, Publish(r) PROVE \A q \in Requests : Pending(q)'
    BY <2>2, BeginPending, BusyPending, SelectSamePending, SelectPending,
       SupersedeActivePending, InsertVersionPending, CacheSequencePending, CommitPending
    DEF Publish
  <2>3. ASSUME NEW r \in Requests, Rollback(r) PROVE \A q \in Requests : Pending(q)'
    BY <2>3, RollbackPending
  <2>4. CASE Crash
    BY <2>4, CrashPending
  <2>5. CASE UNCHANGED vars
    BY <2>5, SameTables DEF PubInv, vars, database, tx
  <2> QED BY <2>1, <2>2, <2>3, <2>4, <2>5 DEF Next
<1> QED BY <1>1, <1>2, Invariance, PTL DEF Spec

\* PlanVersions implements the register: callers of publish_plan_version may
\* think of it as one atomic append to the history of each date it publishes,
\* whatever statements fail, requests interleave or servers crash.
THEOREM Implements == Spec => PublishesAtomically
<1>1. Init => Register!Init
  BY DEF Init, Register!Init, EmptyTable
<1>2. PubInv /\ [Next]_vars
        => [Register!Next]_([d \in Days |-> [v \in DOMAIN route_plan_versions[d] |->
                               route_plan_versions[d][v].plan]])
  <2> SUFFICES ASSUME PubInv, [Next]_vars
               PROVE  Register!Next \/ UNCHANGED route_plan_versions
    OBVIOUS
  <2>1. \/ \E r \in Requests : Commit(r)
        \/ UNCHANGED route_plan_versions
    BY DEF Next, Publish, Request, Begin, Busy, SelectSame, Select, SupersedeActive,
           InsertVersion, CacheSequence, Rollback, Crash, Discard, vars, database
  <2> QED BY <2>1, CommitPublishes
<1> QED BY <1>1, <1>2, Bookkeeping, PTL DEF Spec, PublishesAtomically, Register!Spec
=============================================================================
