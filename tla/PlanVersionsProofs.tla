------------------------- MODULE PlanVersionsProofs -------------------------
(***************************************************************************)
(* Proofs about PlanVersions for any set of dates, routes and requests.    *)
(* The safety properties speak of the committed tables; none of them is    *)
(* inductive, because a COMMIT installs whatever the open transaction has  *)
(* built.  The inductive invariant Inv therefore says, statement by        *)
(* statement, how far the open transaction has got.                        *)
(***************************************************************************)
EXTENDS PlanVersions, TLAPS

\* Versions 1..n of a date, each made out of the one before.
Chain(t, n) ==
  /\ IsTable(t)
  /\ n \in Nat
  /\ DOMAIN t = 1..n
  /\ \A v \in 1..n : t[v].parent = v - 1 /\ (v > 1 => t[v - 1].plan # t[v].plan)

\* A chain whose last version alone is active.
Rows(t, n) == Chain(t, n) /\ \A v \in 1..n : t[v].status = "active" <=> v = n

\* A chain whose last version has just been superseded.
Closed(t, n) == Chain(t, n) /\ \A v \in 1..n : t[v].status = "superseded"

\* The rows and the cache of a date, as every publish finds and leaves them.
Clean(t, c, n) == Rows(t, n) /\ c = IF n = 0 THEN NoPlan ELSE t[n].plan

Top(t) == LastVersion(DOMAIN t)

Settled(versions, sequences) ==
  \A d \in Days : Clean(versions[d], sequences[d], Top(versions[d]))

SettledBut(e) ==
  \A d \in Days \ {e} : Clean(txVersions[d], txSequences[d], Top(txVersions[d]))

\* The new route is not the one active until now.
Differs(t, n, plan) == n > 0 => t[n].plan # plan

\* Rows of `new` hold every row of `old`, superseded at most.
Keeps(old, new) ==
  \A v \in DOMAIN old :
    /\ v \in DOMAIN new
    /\ \/ new[v] = old[v]
       \/ old[v].status = "active" /\ new[v] = Superseded(old[v])

Working == {"begin", "select", "supersede", "insert", "cache"}

Lock == \A r \in Requests : /\ pc[r] \in InTransaction <=> holder = r
                            /\ pc[r] \in Working => todo[r] \in Jobs

Progress(r) ==
  LET s == Head(todo[r])
      t == txVersions[s.day]
  IN /\ pc[r] \in {"select", "commit"} => Settled(txVersions, txSequences)
     /\ pc[r] = "supersede" =>
          /\ SettledBut(s.day)
          /\ Clean(t, txSequences[s.day], txActive)
          /\ Differs(t, txActive, s.plan)
          /\ txNumber = txActive + 1
     /\ pc[r] = "insert" =>
          /\ SettledBut(s.day)
          /\ Closed(t, txActive)
          /\ Differs(t, txActive, s.plan)
          /\ txNumber = txActive + 1
     /\ pc[r] = "cache" =>
          /\ SettledBut(s.day)
          /\ Rows(t, txNumber)
          /\ txNumber > 0 /\ t[txNumber].plan = s.plan
     /\ pc[r] \in InTransaction =>
          \A d \in Days : Keeps(route_plan_versions[d], txVersions[d])

Inv == /\ TypeOK
       /\ Lock
       /\ Settled(route_plan_versions, day_sequences)
       /\ \A r \in Requests : Progress(r)

-----------------------------------------------------------------------------
\* Facts about the tables.

\* MAX(version) of the versions 1..n is n.
LEMMA LastOfChain == ASSUME NEW n \in Nat PROVE LastVersion(1..n) = n
<1>1. CASE n = 0
  BY <1>1 DEF LastVersion
<1>2. CASE n # 0
  <2>1. n \in 1..n /\ \A w \in 1..n : w <= n
    BY <1>2
  <2>2. \A v \in 1..n : (\A w \in 1..n : w <= v) => v = n
    BY <2>1
  <2> QED BY <2>1, <2>2, <1>2 DEF LastVersion
<1> QED BY <1>1, <1>2

LEMMA TopOfChain == ASSUME NEW t, NEW n, Chain(t, n) PROVE Top(t) = n
  BY LastOfChain DEF Chain, Top

\* SELECT ... WHERE status = 'active' finds the newest version and no other.
LEMMA ActiveOfRows ==
  ASSUME NEW t, NEW n, Rows(t, n)
  PROVE  ActiveVersions(t) = IF n = 0 THEN {} ELSE {n}
  BY DEF ActiveVersions, Rows, Chain

\* Nothing is active between the UPDATE and the INSERT.
LEMMA ActiveOfClosed ==
  ASSUME NEW t, NEW n, Closed(t, n) PROVE ActiveVersions(t) = {}
  BY DEF ActiveVersions, Closed, Chain

\* A transaction starts from the committed tables.
LEMMA KeepsItself == ASSUME NEW t PROVE Keeps(t, t)
  BY DEF Keeps

\* The vacated date is what is left to publish after the accepted one.
LEMMA WorkShrinks ==
  ASSUME NEW w \in Jobs
  PROVE  /\ Head(w) \in Sequence
         /\ Len(w) # 1 => Tail(w) \in Jobs
         /\ Tail(w) \in Jobs \cup {<< >>}
<1>1. CASE w \in {<<s>> : s \in Sequence}
  <2>1. PICK s \in Sequence : w = <<s>>
    BY <1>1
  <2>2. Tail(w) = << >> /\ Head(w) = s /\ Len(w) = 1
    BY <2>1
  <2> QED BY <2>2
<1>2. CASE w \in {<<s, t>> : s, t \in Sequence}
  <2>1. PICK s \in Sequence, t \in Sequence : w = <<s, t>>
    BY <1>2
  <2>2. Tail(w) = <<t>> /\ Head(w) = s
    BY <2>1
  <2> QED BY <2>2 DEF Jobs
<1> QED BY <1>1, <1>2 DEF Jobs

\* Only the open transaction touches the working copies, and only through its
\* holder: everybody else's progress is none.
LEMMA OneWriter ==
  ASSUME Lock, NEW r \in Requests, NEW q \in Requests, q # r, pc[r] \in InTransaction
  PROVE  pc[q] \notin InTransaction
  BY DEF Lock

-----------------------------------------------------------------------------
\* The statements of a publish, one lemma each.

\* The UPDATE closes the chain of the date and nothing else.
LEMMA SupersedeCloses ==
  ASSUME NEW t, NEW n \in Nat, Rows(t, n)
  PROVE  /\ n = 0 => Closed(t, n)
         /\ n > 0 => Closed(Supersede(t, n), n) /\ Supersede(t, n)[n].plan = t[n].plan
<1>1. IsTable(t) /\ DOMAIN t = 1..n
  BY DEF Rows, Chain
<1>2. CASE n = 0
  BY <1>1, <1>2 DEF Rows, Closed, Chain
<1>3. CASE n > 0
  <2> DEFINE u == Supersede(t, n)
  <2>1. DOMAIN u = 1..n
    BY <1>1 DEF Supersede
  <2>2. \A v \in 1..n : u[v] \in Row /\ u[v].plan = t[v].plan /\ u[v].parent = t[v].parent
    BY <1>1 DEF Supersede, Superseded, IsTable, Row
  <2>3. \A v \in 1..n : u[v].status = "superseded"
    <3>1. \A v \in 1..n : v # n => t[v].status # "active"
      BY DEF Rows
    <3>2. \A v \in 1..n : t[v].status \in {"active", "superseded"}
      BY <1>1 DEF IsTable, Row
    <3> QED BY <1>1, <3>1, <3>2 DEF Supersede, Superseded
  <2>4. IsTable(u)
    BY <1>1, <2>1, <2>2 DEF IsTable, Supersede
  <2>5. \A v \in 1..n : u[v].parent = v - 1 /\ (v > 1 => u[v - 1].plan # u[v].plan)
    BY <2>2 DEF Rows, Chain
  <2> QED BY <2>1, <2>2, <2>3, <2>4, <2>5, <1>3 DEF Closed, Chain
<1> QED BY <1>2, <1>3

\* The INSERT extends a closed chain by its new, only active, version.
LEMMA InsertExtends ==
  ASSUME NEW t, NEW n \in Nat, NEW p \in Plans, Closed(t, n), Differs(t, n, p),
         NEW row, row = [status |-> "active", plan |-> p, parent |-> n],
         NEW u, u = Insert(t, n + 1, row)
  PROVE  Rows(u, n + 1) /\ u[n + 1].plan = p /\ Keeps(t, u)
<1>1. IsTable(t) /\ DOMAIN t = 1..n
  BY DEF Closed, Chain
<1>2. DOMAIN u = 1..(n + 1)
  BY <1>1 DEF Insert
<1>3. u[n + 1] = row /\ \A v \in 1..n : u[v] = t[v]
  BY <1>1, <1>2 DEF Insert
<1>4. \A v \in 1..(n + 1) : v = n + 1 \/ v \in 1..n
  OBVIOUS
<1>5. row \in Row
  BY DEF Row
<1>6. IsTable(u)
  <2>1. \A v \in 1..(n + 1) : u[v] \in Row
    BY <1>1, <1>3, <1>4, <1>5 DEF IsTable
  <2> QED BY <1>2, <2>1 DEF IsTable, Insert
<1>7. \A v \in 1..(n + 1) : u[v].parent = v - 1
  BY <1>3, <1>4 DEF Closed, Chain
<1>8. \A v \in 1..(n + 1) : v > 1 => u[v - 1].plan # u[v].plan
  <2> TAKE v \in 1..(n + 1)
  <2> HAVE v > 1
  <2>1. CASE v = n + 1
    BY <2>1, <1>3 DEF Differs
  <2>2. CASE v \in 1..n
    BY <2>2, <1>3 DEF Closed, Chain
  <2> QED BY <2>1, <2>2, <1>4
<1>9. \A v \in 1..(n + 1) : u[v].status = "active" <=> v = n + 1
  BY <1>3, <1>4 DEF Closed
<1>10. Keeps(t, u)
  BY <1>1, <1>2, <1>3 DEF Keeps
<1>11. Chain(u, n + 1)
  <2>1. n + 1 \in Nat
    OBVIOUS
  <2> QED BY <1>2, <1>6, <1>7, <1>8, <2>1 DEF Chain
<1>12. Rows(u, n + 1)
  BY <1>9, <1>11 DEF Rows
<1>13. u[n + 1].plan = p
  BY <1>3
<1> QED BY <1>10, <1>12, <1>13

-----------------------------------------------------------------------------
\* The invariant.

LEMMA InitInv == Init => Inv
<1> SUFFICES ASSUME Init PROVE Inv
  OBVIOUS
<1>1. \A d \in Days : Rows(EmptyTable, 0) /\ Top(EmptyTable) = 0
  <2>1. Rows(EmptyTable, 0)
    BY DEF EmptyTable, Rows, Chain, IsTable
  <2> QED BY <2>1, TopOfChain DEF Rows
<1>2. TypeOK
  BY <1>1, PlanVersionsAssumption DEF Init, TypeOK, InTransaction, Rows, Chain
<1>3. Settled(route_plan_versions, day_sequences)
  BY <1>1 DEF Init, Settled, Clean
<1>4. Lock /\ \A r \in Requests : Progress(r)
  BY PlanVersionsAssumption DEF Init, Lock, Progress, InTransaction, Working
<1> QED BY <1>2, <1>3, <1>4 DEF Inv

\* A request that holds no lock arrives: no table changes.
LEMMA RequestInv ==
  ASSUME Inv, NEW r \in Requests, NEW work \in Jobs, Request(r, work)
  PROVE  Inv'
<1> USE DEF Inv
<1>1. TypeOK'
  BY DEF TypeOK, Request, database, tx
<1>2. Lock'
  BY DEF TypeOK, Lock, Request, database, tx, InTransaction, Working
<1>3. Settled(route_plan_versions, day_sequences)'
  BY DEF Settled, Request, database
<1>4. ASSUME NEW q \in Requests PROVE Progress(q)'
  <2>1. CASE q = r
    BY <2>1 DEF TypeOK, Request, Progress, InTransaction
  <2>2. CASE q # r
    <3>1. Progress(q)
      OBVIOUS
    <3> QED BY <2>2, <3>1 DEF TypeOK, Request, Progress, SettledBut, database, tx
  <2> QED BY <2>1, <2>2
<1> QED BY <1>1, <1>2, <1>3, <1>4

LEMMA BeginInv ==
  ASSUME Inv, NEW r \in Requests, Begin(r)
  PROVE  Inv'
<1> USE DEF Inv
<1>1. TypeOK'
  BY DEF TypeOK, Begin, database, InTransaction
<1>2. Lock'
  BY PlanVersionsAssumption DEF TypeOK, Lock, Begin, InTransaction, Working
<1>3. Settled(route_plan_versions, day_sequences)'
  BY DEF Settled, Begin, database
<1>4. Settled(txVersions, txSequences)'
  BY DEF Settled, Begin, database
<1>5. ASSUME NEW q \in Requests PROVE Progress(q)'
  <2>1. CASE q = r
    BY <2>1, <1>4, KeepsItself DEF TypeOK, Begin, Progress, database
  <2>2. CASE q # r
    BY <2>2, PlanVersionsAssumption DEF TypeOK, Lock, Begin, Progress, InTransaction
  <2> QED BY <2>1, <2>2
<1> QED BY <1>1, <1>2, <1>3, <1>5

LEMMA BusyInv ==
  ASSUME Inv, NEW r \in Requests, Busy(r)
  PROVE  Inv'
<1> USE DEF Inv
<1>1. TypeOK'
  BY DEF TypeOK, Busy, database, tx
<1>2. Lock'
  BY DEF TypeOK, Lock, Busy, InTransaction, Working
<1>3. Settled(route_plan_versions, day_sequences)'
  BY DEF Settled, Busy, database
<1>4. ASSUME NEW q \in Requests PROVE Progress(q)'
  <2>1. CASE q = r
    BY <2>1 DEF TypeOK, Busy, Progress, InTransaction
  <2>2. CASE q # r
    <3>1. Progress(q)
      OBVIOUS
    <3> QED BY <2>2, <3>1 DEF TypeOK, Busy, Progress, SettledBut, database, tx
  <2> QED BY <2>1, <2>2
<1> QED BY <1>1, <1>2, <1>3, <1>4

\* A publish of what is already active ends where it began.
LEMMA SelectSameInv ==
  ASSUME Inv, NEW r \in Requests, SelectSame(r)
  PROVE  Inv'
<1> USE DEF Inv
<1>1. pc[r] = "select" /\ todo[r] \in Jobs
  BY DEF SelectSame, Lock, Working
<1>2. TypeOK'
  BY <1>1, WorkShrinks DEF TypeOK, SelectSame, NextPublish, database, tx, InTransaction
<1>3. Lock'
  BY <1>1, WorkShrinks
  DEF TypeOK, Lock, SelectSame, NextPublish, InTransaction, Working
<1>4. Settled(route_plan_versions, day_sequences)'
  BY DEF Settled, SelectSame, database
<1>5. ASSUME NEW q \in Requests PROVE Progress(q)'
  <2>1. CASE q = r
    <3>1. Settled(txVersions, txSequences)'
      BY <1>1 DEF Progress, Settled, SelectSame, tx
    <3>2. \A d \in Days : Keeps(route_plan_versions[d], txVersions[d])'
      BY <1>1 DEF Progress, SelectSame, tx, database, InTransaction
    <3> QED BY <2>1, <3>1, <3>2 DEF TypeOK, SelectSame, NextPublish, Progress
  <2>2. CASE q # r
    BY <1>1, <2>2 DEF TypeOK, Lock, SelectSame, NextPublish, Progress, InTransaction
  <2> QED BY <2>1, <2>2
<1> QED BY <1>2, <1>3, <1>4, <1>5

\* The version read is the newest of its date, and the number the one after it.
LEMMA SelectInv ==
  ASSUME Inv, NEW r \in Requests, Select(r)
  PROVE  Inv'
<1> USE DEF Inv
<1> DEFINE s == Head(todo[r])
           t == txVersions[s.day]
           n == Top(t)
<1>1. pc[r] = "select" /\ todo[r] \in Jobs /\ s \in Sequence /\ s.day \in Days
  BY WorkShrinks DEF Select, Lock, Working, Sequence
<1>2. Clean(t, txSequences[s.day], n) /\ n \in Nat
  BY <1>1 DEF Progress, Settled, Clean, Rows, Chain
<1>3. ActiveVersions(t) = IF n = 0 THEN {} ELSE {n}
  BY <1>2, ActiveOfRows DEF Clean
<1>4. txActive' = n /\ Differs(t, n, s.plan)
  BY <1>2, <1>3 DEF Select, Differs
<1>5. txNumber' = n + 1
  BY DEF Select, NextVersion, Top
<1>6. TypeOK'
  BY <1>2, <1>4, <1>5 DEF TypeOK, Select, database, InTransaction
<1>7. Lock'
  BY <1>1 DEF TypeOK, Lock, Select, InTransaction, Working
<1>8. Settled(route_plan_versions, day_sequences)'
  BY DEF Settled, Select, database
<1>9. ASSUME NEW q \in Requests PROVE Progress(q)'
  <2>1. CASE q = r
    <3>1. SettledBut(s.day)'
      BY <1>1 DEF Progress, Settled, SettledBut, Select
    <3>2. \A d \in Days : Keeps(route_plan_versions[d], txVersions[d])'
      BY <1>1 DEF Progress, Select, database, InTransaction
    <3>3. pc'[r] = "supersede" /\ UNCHANGED <<todo, txVersions, txSequences>>
      BY DEF TypeOK, Select
    <3> HIDE DEF n
    <3> QED BY <2>1, <3>1, <3>2, <3>3, <1>2, <1>4, <1>5 DEF Progress
  <2>2. CASE q # r
    BY <1>1, <2>2 DEF TypeOK, Lock, Select, Progress, InTransaction
  <2> QED BY <2>1, <2>2
<1> QED BY <1>6, <1>7, <1>8, <1>9

\* The UPDATE closes the chain of the date in hand; rows committed earlier are
\* kept, superseded at most.
LEMMA SupersedeActiveInv ==
  ASSUME Inv, NEW r \in Requests, SupersedeActive(r)
  PROVE  Inv'
<1> USE DEF Inv
<1> DEFINE s == Head(todo[r])
           t == txVersions[s.day]
           u == txVersions'[s.day]
<1>1. pc[r] = "supersede" /\ todo[r] \in Jobs /\ s.day \in Days /\ txActive \in Nat
  BY WorkShrinks DEF SupersedeActive, Lock, Working, Sequence, TypeOK
<1>2. /\ SettledBut(s.day) /\ Rows(t, txActive) /\ Differs(t, txActive, s.plan)
      /\ txNumber = txActive + 1
      /\ \A d \in Days : Keeps(route_plan_versions[d], txVersions[d])
  BY <1>1 DEF Progress, Clean, InTransaction
<1>3. /\ u = IF txActive = 0 THEN t ELSE Supersede(t, txActive)
      /\ \A d \in Days \ {s.day} : txVersions'[d] = txVersions[d]
      /\ txVersions' = [d \in Days |-> txVersions'[d]]
  BY <1>1 DEF TypeOK, SupersedeActive
<1>4. Closed(u, txActive) /\ Differs(u, txActive, s.plan)
  BY <1>1, <1>2, <1>3, SupersedeCloses DEF Differs
<1>5. TypeOK'
  <2>1. \A d \in Days : IsTable(txVersions'[d])
    BY <1>1, <1>3, <1>4 DEF TypeOK, Closed, Chain
  <2> QED BY <2>1, <1>3 DEF TypeOK, SupersedeActive, database, InTransaction
<1>6. Lock'
  BY <1>1 DEF TypeOK, Lock, SupersedeActive, InTransaction, Working
<1>7. Settled(route_plan_versions, day_sequences)'
  BY DEF Settled, SupersedeActive, database
<1>8. Keeps(route_plan_versions[s.day], u)
  <2>1. CASE txActive = 0
    BY <2>1, <1>1, <1>2, <1>3
  <2>2. CASE txActive > 0
    <3> DEFINE old == route_plan_versions[s.day]
    <3>1. \A v \in DOMAIN t : u[v] = IF v = txActive THEN Superseded(t[v]) ELSE t[v]
      BY <2>2, <1>3 DEF Supersede
    <3>2. DOMAIN u = DOMAIN t
      BY <2>2, <1>3 DEF Supersede
    <3>3. txActive \in DOMAIN t /\ t[txActive].status = "active"
      BY <2>2, <1>1, <1>2 DEF Rows, Chain
    <3>4. \A v \in DOMAIN old : Superseded(old[v]).status = "superseded"
      BY DEF Superseded
    <3>5. Keeps(old, t)
      BY <1>1, <1>2
    <3>6. Keeps(old, u)
      <4> HIDE DEF t, u, old
      <4> QED BY <3>1, <3>2, <3>3, <3>4, <3>5 DEF Keeps
    <3> QED BY <3>6
  <2> QED BY <2>1, <2>2, <1>1
<1>9. ASSUME NEW q \in Requests PROVE Progress(q)'
  <2>1. CASE q = r
    <3>1. SettledBut(s.day)'
      BY <1>2, <1>3 DEF SettledBut, SupersedeActive
    <3>2. \A d \in Days : Keeps(route_plan_versions[d], txVersions[d])'
      BY <1>1, <1>2, <1>3, <1>8 DEF SupersedeActive, database
    <3>3. pc'[r] = "insert" /\ UNCHANGED <<todo, txActive, txNumber>>
      BY DEF TypeOK, SupersedeActive
    <3> QED BY <2>1, <3>1, <3>2, <3>3, <1>2, <1>4 DEF Progress
  <2>2. CASE q # r
    BY <1>1, <2>2 DEF TypeOK, Lock, SupersedeActive, Progress, InTransaction
  <2> QED BY <2>1, <2>2
<1> QED BY <1>5, <1>6, <1>7, <1>9

\* The INSERT makes the chain one longer and its last version active.
LEMMA InsertVersionInv ==
  ASSUME Inv, NEW r \in Requests, InsertVersion(r)
  PROVE  Inv'
<1> USE DEF Inv
<1> DEFINE s == Head(todo[r])
           t == txVersions[s.day]
           u == txVersions'[s.day]
           row == [status |-> "active", plan |-> s.plan, parent |-> txActive]
<1>1. /\ pc[r] = "insert" /\ todo[r] \in Jobs /\ s.day \in Days /\ s.plan \in Plans
      /\ txActive \in Nat
  BY WorkShrinks DEF InsertVersion, Lock, Working, Sequence, TypeOK
<1>2. /\ SettledBut(s.day) /\ Closed(t, txActive) /\ Differs(t, txActive, s.plan)
      /\ txNumber = txActive + 1
      /\ \A d \in Days : Keeps(route_plan_versions[d], txVersions[d])
  BY <1>1 DEF Progress, InTransaction
<1>3. /\ u = Insert(t, txActive + 1, row)
      /\ \A d \in Days \ {s.day} : txVersions'[d] = txVersions[d]
      /\ txVersions' = [d \in Days |-> txVersions'[d]]
  BY <1>1, <1>2 DEF TypeOK, InsertVersion
<1>4. Rows(u, txActive + 1) /\ u[txActive + 1].plan = s.plan /\ Keeps(t, u)
  BY <1>1, <1>2, <1>3, InsertExtends
<1>5. TypeOK'
  <2>1. \A d \in Days : IsTable(txVersions'[d])
    BY <1>1, <1>3, <1>4 DEF TypeOK, Rows, Chain
  <2> QED BY <2>1, <1>3 DEF TypeOK, InsertVersion, database, InTransaction
<1>6. Lock'
  BY <1>1 DEF TypeOK, Lock, InsertVersion, InTransaction, Working
<1>7. Settled(route_plan_versions, day_sequences)'
  BY DEF Settled, InsertVersion, database
<1>8. Keeps(route_plan_versions[s.day], u)
  <2> DEFINE old == route_plan_versions[s.day]
  <2>1. Keeps(old, t) /\ Keeps(t, u)
    BY <1>1, <1>2, <1>4
  <2>2. \A v \in DOMAIN t : t[v].status = "superseded"
    BY <1>2 DEF Closed, Chain
  <2>3. Keeps(old, u)
    <3> HIDE DEF t, u, old
    <3> QED BY <2>1, <2>2 DEF Keeps
  <2> QED BY <2>3
<1>9. ASSUME NEW q \in Requests PROVE Progress(q)'
  <2>1. CASE q = r
    <3>1. SettledBut(s.day)'
      BY <1>2, <1>3 DEF SettledBut, InsertVersion
    <3>2. \A d \in Days : Keeps(route_plan_versions[d], txVersions[d])'
      BY <1>1, <1>2, <1>3, <1>8 DEF InsertVersion, database
    <3>3. pc'[r] = "cache" /\ UNCHANGED <<todo, txActive, txNumber>>
      BY DEF TypeOK, InsertVersion
    <3> QED BY <2>1, <3>1, <3>2, <3>3, <1>1, <1>2, <1>4 DEF Progress
  <2>2. CASE q # r
    BY <1>1, <2>2 DEF TypeOK, Lock, InsertVersion, Progress, InTransaction
  <2> QED BY <2>1, <2>2
<1> QED BY <1>5, <1>6, <1>7, <1>9

\* The cache catches up with the version just inserted.
LEMMA CacheSequenceInv ==
  ASSUME Inv, NEW r \in Requests, CacheSequence(r)
  PROVE  Inv'
<1> USE DEF Inv
<1> DEFINE s == Head(todo[r])
           t == txVersions[s.day]
<1>1. /\ pc[r] = "cache" /\ todo[r] \in Jobs /\ s.day \in Days /\ s.plan \in Plans
      /\ txNumber \in Nat
  BY WorkShrinks DEF CacheSequence, Lock, Working, Sequence, TypeOK
<1>2. /\ SettledBut(s.day) /\ Rows(t, txNumber) /\ txNumber > 0
      /\ t[txNumber].plan = s.plan
      /\ \A d \in Days : Keeps(route_plan_versions[d], txVersions[d])
  BY <1>1 DEF Progress, InTransaction
<1>3. /\ txSequences'[s.day] = s.plan
      /\ \A d \in Days \ {s.day} : txSequences'[d] = txSequences[d]
      /\ txSequences' \in [Days -> Plans \cup {NoPlan}]
      /\ txVersions' = txVersions
  BY <1>1 DEF TypeOK, CacheSequence
<1>4. Settled(txVersions, txSequences)'
  <2>1. Top(t) = txNumber
    BY <1>2, TopOfChain DEF Rows
  <2>2. Clean(t, s.plan, Top(t))
    BY <1>1, <1>2, <2>1 DEF Clean
  <2> HIDE DEF t
  <2>3. \A d \in Days : d # s.day => Clean(txVersions'[d], txSequences'[d], Top(txVersions'[d]))
    BY <1>2, <1>3 DEF SettledBut
  <2>4. Clean(txVersions'[s.day], txSequences'[s.day], Top(txVersions'[s.day]))
    BY <2>2, <1>3 DEF t
  <2> QED BY <2>3, <2>4 DEF Settled
<1>5. TypeOK'
  BY <1>1, <1>3, WorkShrinks
  DEF TypeOK, CacheSequence, NextPublish, database, InTransaction
<1>6. Lock'
  BY <1>1, WorkShrinks
  DEF TypeOK, Lock, CacheSequence, NextPublish, InTransaction, Working
<1>7. Settled(route_plan_versions, day_sequences)'
  BY DEF Settled, CacheSequence, database
<1>8. ASSUME NEW q \in Requests PROVE Progress(q)'
  <2>1. CASE q = r
    <3>1. \A d \in Days : Keeps(route_plan_versions[d], txVersions[d])'
      BY <1>2, <1>3 DEF CacheSequence, database
    <3> QED BY <2>1, <1>4, <3>1 DEF TypeOK, CacheSequence, NextPublish, Progress
  <2>2. CASE q # r
    BY <1>1, <2>2 DEF TypeOK, Lock, CacheSequence, NextPublish, Progress, InTransaction
  <2> QED BY <2>1, <2>2
<1> QED BY <1>4, <1>5, <1>6, <1>7, <1>8

\* COMMIT installs what the transaction has built, which is settled.
LEMMA CommitInv ==
  ASSUME Inv, NEW r \in Requests, Commit(r)
  PROVE  Inv'
<1> USE DEF Inv
<1>1. pc[r] = "commit" /\ Settled(txVersions, txSequences)
  BY DEF Commit, Progress
<1>2. TypeOK'
  BY DEF TypeOK, Commit, tx
<1>3. Lock'
  BY <1>1, PlanVersionsAssumption DEF TypeOK, Lock, Commit, InTransaction, Working
<1>4. Settled(route_plan_versions, day_sequences)'
  BY <1>1 DEF Settled, Commit
<1>5. ASSUME NEW q \in Requests PROVE Progress(q)'
  BY <1>1 DEF TypeOK, Lock, Commit, Progress, InTransaction
<1> QED BY <1>2, <1>3, <1>4, <1>5

\* ROLLBACK and a crash leave the committed tables, and nobody inside.
LEMMA DiscardInv ==
  ASSUME Inv, Discard,
         pc' \in [Requests -> {"idle", "begin"}],
         todo' \in [Requests -> Jobs \cup {<< >>}],
         \A q \in Requests : pc'[q] = "begin" => todo'[q] \in Jobs
  PROVE  Inv'
<1> USE DEF Inv
<1>1. TypeOK'
  BY DEF TypeOK, Discard, database, InTransaction
<1>2. Lock'
  BY PlanVersionsAssumption DEF Lock, Discard, InTransaction, Working
<1>3. Settled(route_plan_versions, day_sequences)'
  BY DEF Settled, Discard, database
<1>4. ASSUME NEW q \in Requests PROVE Progress(q)'
  BY DEF Progress, InTransaction
<1> QED BY <1>1, <1>2, <1>3, <1>4

LEMMA RollbackInv ==
  ASSUME Inv, NEW r \in Requests, Rollback(r)
  PROVE  Inv'
<1>1. Discard
  BY DEF Rollback
<1>2. \A q \in Requests : q # r => pc[q] \in {"idle", "begin"}
  BY DEF Inv, TypeOK, Lock, Rollback
<1>3. pc' \in [Requests -> {"idle", "begin"}]
  BY <1>2 DEF Inv, TypeOK, Rollback
<1>4. todo' \in [Requests -> Jobs \cup {<< >>}]
  BY DEF Inv, TypeOK, Rollback
<1>5. \A q \in Requests : pc'[q] = "begin" => todo'[q] \in Jobs
  BY DEF Inv, TypeOK, Lock, Rollback, Working
<1> QED BY <1>1, <1>3, <1>4, <1>5, DiscardInv

LEMMA CrashInv == ASSUME Inv, Crash PROVE Inv'
  BY DiscardInv DEF Crash

-----------------------------------------------------------------------------
\* The theorems.

\* Inv holds in every reachable state, for every set of dates, routes and
\* concurrent requests.
THEOREM Invariance == Spec => []Inv
<1>1. Inv /\ [Next]_vars => Inv'
  <2> SUFFICES ASSUME Inv, [Next]_vars PROVE Inv'
    OBVIOUS
  <2>1. ASSUME NEW r \in Requests, NEW work \in Jobs, Request(r, work) PROVE Inv'
    BY <2>1, RequestInv
  <2>2. ASSUME NEW r \in Requests, Publish(r) PROVE Inv'
    BY <2>2, BeginInv, BusyInv, SelectSameInv, SelectInv, SupersedeActiveInv,
       InsertVersionInv, CacheSequenceInv, CommitInv DEF Publish
  <2>3. ASSUME NEW r \in Requests, Rollback(r) PROVE Inv'
    BY <2>3, RollbackInv
  <2>4. CASE Crash
    BY <2>4, CrashInv
  <2>5. CASE UNCHANGED vars
    <3>1. Lock' /\ \A r \in Requests : Progress(r)'
      BY <2>5 DEF Inv, Lock, Progress, SettledBut, Settled, vars, database, tx
    <3> QED BY <2>5, <3>1 DEF Inv, TypeOK, Settled, vars, database, tx
  <2> QED BY <2>1, <2>2, <2>3, <2>4, <2>5 DEF Next
<1> QED BY InitInv, <1>1, PTL DEF Spec

\* Variables keep their types.
THEOREM TypeCorrect == Spec => []TypeOK
<1>1. Inv => TypeOK
  BY DEF Inv
<1> QED BY <1>1, Invariance, PTL

\* A reader of a planned date always finds exactly one active version, the newest.
THEOREM OneActive == Spec => []OneActivePlan
<1>1. Inv => OneActivePlan
  <2> SUFFICES ASSUME Inv, NEW d \in Days, DOMAIN route_plan_versions[d] # {}
               PROVE  ActiveVersions(route_plan_versions[d])
                        = {LastVersion(DOMAIN route_plan_versions[d])}
    BY DEF OneActivePlan
  <2> DEFINE t == route_plan_versions[d]
  <2>1. Rows(t, Top(t))
    BY DEF Inv, Settled, Clean
  <2>2. Top(t) # 0
    BY <2>1 DEF Rows, Chain
  <2> QED BY <2>1, <2>2, ActiveOfRows DEF Top
<1> QED BY <1>1, Invariance, PTL

\* Version v of a date was made out of version v - 1 and differs from it.
THEOREM NoGap == Spec => []HistoryUnbroken
<1>1. Inv => HistoryUnbroken
  BY DEF Inv, Settled, Clean, Rows, Chain, HistoryUnbroken
<1> QED BY <1>1, Invariance, PTL

\* The day_sequences cache is the route of the active version.
THEOREM CacheCorrect == Spec => []CacheAgrees
<1>1. Inv => CacheAgrees
  <2> SUFFICES ASSUME Inv, NEW d \in Days
               PROVE  LET t == route_plan_versions[d] IN
                 day_sequences[d] = IF DOMAIN t = {} THEN NoPlan
                                    ELSE t[LastVersion(DOMAIN t)].plan
    BY DEF CacheAgrees
  <2> DEFINE t == route_plan_versions[d]
  <2>1. Clean(t, day_sequences[d], Top(t))
    BY DEF Inv, Settled
  <2>2. DOMAIN t = {} <=> Top(t) = 0
    BY <2>1 DEF Clean, Rows, Chain
  <2> QED BY <2>1, <2>2 DEF Clean, Top
<1> QED BY <1>1, Invariance, PTL

\* No INSERT of a version meets a uniqueness constraint of the schema.
THEOREM NoCollision == Spec => []InsertNeverCollides
<1>1. Inv => InsertNeverCollides
  <2> SUFFICES ASSUME Inv, NEW r \in Requests, pc[r] = "insert"
               PROVE  LET t == txVersions[Head(todo[r]).day] IN
                        txNumber \notin DOMAIN t /\ ActiveVersions(t) = {}
    BY DEF InsertNeverCollides
  <2> DEFINE t == txVersions[Head(todo[r]).day]
  <2>1. Closed(t, txActive) /\ txNumber = txActive + 1
    BY DEF Inv, Progress
  <2>2. txNumber \notin DOMAIN t
    BY <2>1 DEF Closed, Chain
  <2> QED BY <2>1, <2>2, ActiveOfClosed
<1> QED BY <1>1, Invariance, PTL

\* Committed versions are kept, superseded at most.
THEOREM KeptForever == Spec => HistoryKept
<1> DEFINE Kept == \A d \in Days : Keeps(route_plan_versions[d], route_plan_versions'[d])
<1>1. Inv /\ [Next]_vars => Kept
  <2> SUFFICES ASSUME Inv, [Next]_vars PROVE Kept
    OBVIOUS
  <2>1. ASSUME NEW r \in Requests, Commit(r) PROVE Kept
    <3>1. \A d \in Days : Keeps(route_plan_versions[d], txVersions[d])
      BY <2>1 DEF Inv, Progress, Commit, InTransaction
    <3> QED BY <2>1, <3>1 DEF Commit
  <2>2. CASE UNCHANGED route_plan_versions
    BY <2>2, KeepsItself
  <2>3. \/ \E r \in Requests : Commit(r)
        \/ UNCHANGED route_plan_versions
    BY DEF Next, Publish, Request, Begin, Busy, SelectSame, Select, SupersedeActive,
           InsertVersion, CacheSequence, Rollback, Crash, Discard, vars, database
  <2> QED BY <2>1, <2>2, <2>3
<1>2. Kept => [\A d \in Days : \A v \in DOMAIN route_plan_versions[d] :
       LET old == route_plan_versions[d][v] IN
         /\ v \in DOMAIN route_plan_versions'[d]
         /\ \/ route_plan_versions'[d][v] = old
            \/ /\ old.status = "active"
               /\ route_plan_versions'[d][v] = Superseded(old)]_vars
  BY DEF Keeps
<1> QED BY <1>1, <1>2, Invariance, PTL DEF Spec, HistoryKept
=============================================================================
