---------------------------- MODULE PlanVersions ----------------------------
(***************************************************************************)
(* publish_plan_version (planning/plan_service.py) and the SQLite          *)
(* transaction it runs in.  A request publishes one route in a transaction *)
(* of its own (replan_day), or joins the BEGIN IMMEDIATE transaction of an *)
(* acceptance, which publishes the accepted date and, when the customer    *)
(* held another date, the vacated one.  Each SQL statement is a step;      *)
(* other connections see only what has been committed.  A failing          *)
(* statement rolls back, a crash of the server loses every request in      *)
(* flight, and a BEGIN that finds the write lock taken may give up         *)
(* ("database is locked").                                                 *)
(***************************************************************************)
EXTENDS Naturals, Sequences, FiniteSets

CONSTANTS Days,        \* delivery dates
          Plans,       \* customer-facing content of a route: its content_hash
          Requests,    \* worker threads serving HTTP requests
          NoPlan,      \* no row in day_sequences for a date
          Nobody,      \* nobody holds the write lock
          MaxVersions  \* bound: versions per date, in Request's guard only

ASSUME PlanVersionsAssumption ==
  /\ NoPlan \notin Plans
  /\ Nobody \notin Requests
  /\ MaxVersions \in Nat

VARIABLES
  route_plan_versions, \* committed rows: date -> version -> RoutePlanVersion
  day_sequences,       \* committed cache: date -> route of the active version
  txVersions,          \* route_plan_versions as the open transaction sees it
  txSequences,         \* day_sequences as the open transaction sees it
  txActive,            \* active version SELECTed by the open publish, 0 if none
  txNumber,            \* next_version computed by the open publish
  holder,              \* who holds SQLite's write lock
  pc,                  \* next statement of each request
  todo                 \* routes each request still has to publish

database == <<route_plan_versions, day_sequences>>
tx       == <<txVersions, txSequences, txActive, txNumber>>
vars     == <<database, tx, holder, pc, todo>>

Row   == [status : {"active", "superseded"}, plan : Plans, parent : Nat]
IsTable(t) == DOMAIN t \subseteq Nat \ {0} /\ t \in [DOMAIN t -> Row]
Sequence == [day : Days, plan : Plans]
InTransaction == {"select", "supersede", "insert", "cache", "commit"}

\* One route of its own, or the accepted date followed by the vacated one.
Jobs == {<<s>> : s \in Sequence}
          \cup {<<s, t>> : s, t \in Sequence}
Publishable(work) == Len(work) = 2 => work[1].day # work[2].day

\* SELECT COALESCE(MAX(version), 0)
LastVersion(versions) ==
  IF versions = {} THEN 0
  ELSE CHOOSE v \in versions : \A w \in versions : w <= v

NextVersionMutant(table) == LastVersion(DOMAIN table)
NextVersion(table) == LastVersion(DOMAIN table) + 1

\* SELECT ... WHERE status = 'active'
ActiveVersions(table) == {v \in DOMAIN table : table[v].status = "active"}

Superseded(row) == [status |-> "superseded", plan |-> row.plan, parent |-> row.parent]
Supersede(table, v) ==
  [w \in DOMAIN table |-> IF w = v THEN Superseded(table[w]) ELSE table[w]]
Insert(table, v, row) ==
  [w \in DOMAIN table \cup {v} |-> IF w = v THEN row ELSE table[w]]

EmptyTable == [v \in {} |-> [status |-> "active", plan |-> NoPlan, parent |-> 0]]

-----------------------------------------------------------------------------

Init ==
  /\ route_plan_versions = [d \in Days |-> EmptyTable]
  /\ day_sequences = [d \in Days |-> NoPlan]
  /\ txVersions = route_plan_versions
  /\ txSequences = day_sequences
  /\ txActive = 0
  /\ txNumber = 0
  /\ holder = Nobody
  /\ pc = [r \in Requests |-> "idle"]
  /\ todo = [r \in Requests |-> << >>]

\* A request arrives with the routes it has solved.  MaxVersions bounds it.
Request(r, work) ==
  /\ pc[r] = "idle"
  /\ Publishable(work)
  /\ \A d \in Days : LastVersion(DOMAIN route_plan_versions[d])
                       + Cardinality({q \in Requests : pc[q] # "idle"}) < MaxVersions
  /\ pc' = [pc EXCEPT ![r] = "begin"]
  /\ todo' = [todo EXCEPT ![r] = work]
  /\ UNCHANGED <<database, tx, holder>>

\* As if BEGIN were deferred: no write lock until COMMIT.
BeginMutant(r) ==
  /\ pc[r] = "begin"
  /\ holder' = r
  /\ txVersions' = route_plan_versions
  /\ txSequences' = day_sequences
  /\ pc' = [pc EXCEPT ![r] = "select"]
  /\ UNCHANGED <<database, txActive, txNumber, todo>>

\* BEGIN IMMEDIATE
Begin(r) ==
  /\ pc[r] = "begin"
  /\ holder = Nobody
  /\ holder' = r
  /\ txVersions' = route_plan_versions
  /\ txSequences' = day_sequences
  /\ pc' = [pc EXCEPT ![r] = "select"]
  /\ UNCHANGED <<database, txActive, txNumber, todo>>

\* The busy timeout ran out while another connection held the write lock.
Busy(r) ==
  /\ pc[r] = "begin"
  /\ holder # Nobody
  /\ pc' = [pc EXCEPT ![r] = "idle"]
  /\ todo' = [todo EXCEPT ![r] = << >>]
  /\ UNCHANGED <<database, tx, holder>>

\* As if a publish were retried until it changed something.
NextPublishMutant(r) ==
  /\ todo' = [todo EXCEPT ![r] = IF Len(@) = 1 THEN @ ELSE Tail(@)]
  /\ pc' = [pc EXCEPT ![r] = "select"]

\* The publish in hand is done: on to the vacated date, or to COMMIT.
NextPublish(r) ==
  /\ todo' = [todo EXCEPT ![r] = Tail(@)]
  /\ pc' = [pc EXCEPT ![r] = IF Len(todo[r]) = 1 THEN "commit" ELSE "select"]

\* The active version promises the same thing: return it, publish nothing.
SelectSame(r) ==
  /\ pc[r] = "select"
  /\ LET s == Head(todo[r]) IN
       \E v \in ActiveVersions(txVersions[s.day]) : txVersions[s.day][v].plan = s.plan
  /\ NextPublish(r)
  /\ UNCHANGED <<database, tx, holder>>

\* As if the content hash were not compared.
SelectMutant(r) ==
  /\ pc[r] = "select"
  /\ LET table == txVersions[Head(todo[r]).day]
     IN /\ \/ ActiveVersions(table) = {} /\ txActive' = 0
           \/ txActive' \in ActiveVersions(table)
        /\ txNumber' = NextVersion(table)
  /\ pc' = [pc EXCEPT ![r] = "supersede"]
  /\ UNCHANGED <<database, txVersions, txSequences, holder, todo>>

\* Read the active version and number the new one, inside the transaction.
Select(r) ==
  /\ pc[r] = "select"
  /\ LET s == Head(todo[r])
         table == txVersions[s.day]
     IN /\ \/ /\ ActiveVersions(table) = {}
              /\ txActive' = 0
           \/ \E v \in ActiveVersions(table) :
                /\ table[v].plan # s.plan
                /\ txActive' = v
        /\ txNumber' = NextVersion(table)
  /\ pc' = [pc EXCEPT ![r] = "supersede"]
  /\ UNCHANGED <<database, txVersions, txSequences, holder, todo>>

\* As if the active version were never superseded.
SupersedeActiveMutant(r) ==
  /\ pc[r] = "supersede"
  /\ pc' = [pc EXCEPT ![r] = "insert"]
  /\ UNCHANGED <<database, tx, holder, todo>>

\* UPDATE route_plan_versions SET status = 'superseded', when a plan was active.
SupersedeActive(r) ==
  /\ pc[r] = "supersede"
  /\ LET d == Head(todo[r]).day IN
       txVersions' = IF txActive = 0 THEN txVersions
                     ELSE [txVersions EXCEPT ![d] = Supersede(@, txActive)]
  /\ pc' = [pc EXCEPT ![r] = "insert"]
  /\ UNCHANGED <<database, txSequences, txActive, txNumber, holder, todo>>

\* INSERT INTO route_plan_versions, the parent being the version superseded.
InsertVersion(r) ==
  /\ pc[r] = "insert"
  /\ LET s == Head(todo[r]) IN
       txVersions' = [txVersions EXCEPT ![s.day] =
         Insert(@, txNumber, [status |-> "active", plan |-> s.plan, parent |-> txActive])]
  /\ pc' = [pc EXCEPT ![r] = "cache"]
  /\ UNCHANGED <<database, txSequences, txActive, txNumber, holder, todo>>

\* As if the cache kept the first route it was given.
CacheSequenceMutant(r) ==
  /\ pc[r] = "cache"
  /\ LET s == Head(todo[r]) IN
       txSequences' = [txSequences EXCEPT ![s.day] = IF @ = NoPlan THEN s.plan ELSE @]
  /\ NextPublish(r)
  /\ txActive' = 0
  /\ txNumber' = 0
  /\ UNCHANGED <<database, txVersions, holder>>

\* INSERT INTO day_sequences ... ON CONFLICT DO UPDATE
CacheSequence(r) ==
  /\ pc[r] = "cache"
  /\ LET s == Head(todo[r]) IN txSequences' = [txSequences EXCEPT ![s.day] = s.plan]
  /\ NextPublish(r)
  /\ txActive' = 0
  /\ txNumber' = 0
  /\ UNCHANGED <<database, txVersions, holder>>

Commit(r) ==
  /\ pc[r] = "commit"
  /\ route_plan_versions' = txVersions
  /\ day_sequences' = txSequences
  /\ holder' = Nobody
  /\ pc' = [pc EXCEPT ![r] = "idle"]
  /\ UNCHANGED <<tx, todo>>

\* As if the connection committed on exit, the way db._connect does.
DiscardMutant ==
  /\ route_plan_versions' = txVersions
  /\ day_sequences' = txSequences
  /\ txActive' = 0
  /\ txNumber' = 0
  /\ holder' = Nobody
  /\ UNCHANGED <<txVersions, txSequences>>

\* What an uncommitted transaction leaves behind: nothing.
Discard ==
  /\ txVersions' = route_plan_versions
  /\ txSequences' = day_sequences
  /\ txActive' = 0
  /\ txNumber' = 0
  /\ holder' = Nobody
  /\ UNCHANGED database

\* A statement raised, or the acceptance around it did: ROLLBACK.
Rollback(r) ==
  /\ pc[r] \in InTransaction
  /\ Discard
  /\ pc' = [pc EXCEPT ![r] = "idle"]
  /\ todo' = [todo EXCEPT ![r] = << >>]

\* The server process dies; SQLite drops the open transaction.
Crash ==
  /\ \E r \in Requests : pc[r] # "idle"
  /\ Discard
  /\ pc' = [r \in Requests |-> "idle"]
  /\ todo' = [r \in Requests |-> << >>]

Publish(r) == \/ Begin(r) \/ Busy(r) \/ SelectSame(r) \/ Select(r)
              \/ SupersedeActive(r) \/ InsertVersion(r) \/ CacheSequence(r)
              \/ Commit(r)

Next == \/ \E r \in Requests : \/ \E work \in Jobs : Request(r, work)
                               \/ Publish(r)
                               \/ Rollback(r)
        \/ Crash

\* A worker thread keeps executing statements; nothing makes one fail or arrive.
Fairness == \A r \in Requests : WF_vars(Publish(r))

Spec == Init /\ [][Next]_vars /\ Fairness

-----------------------------------------------------------------------------

\* Every variable has its type; txNumber and txActive are version numbers.
TypeOK ==
  /\ route_plan_versions = [d \in Days |-> route_plan_versions[d]]
  /\ txVersions = [d \in Days |-> txVersions[d]]
  /\ \A d \in Days : IsTable(route_plan_versions[d]) /\ IsTable(txVersions[d])
  /\ day_sequences \in [Days -> Plans \cup {NoPlan}]
  /\ txSequences \in [Days -> Plans \cup {NoPlan}]
  /\ txActive \in Nat /\ txNumber \in Nat
  /\ holder \in Requests \cup {Nobody}
  /\ pc \in [Requests -> {"idle", "begin"} \cup InTransaction]
  /\ todo \in [Requests -> Jobs \cup {<< >>}]

\* Whatever interleaving of publishes, rollbacks and crashes came before, a
\* reader finds one active version per planned date, and it is the newest
\* (db.py: active_plan reads one row and trusts that it is the only one).
OneActivePlan ==
  \A d \in Days : LET t == route_plan_versions[d] IN
    DOMAIN t # {} => ActiveVersions(t) = {LastVersion(DOMAIN t)}

\* The history of a date has no gap: version v was made out of version v - 1,
\* and promises something else ("Plan v7" is never a replan that changed
\* nothing).
HistoryUnbroken ==
  \A d \in Days : LET t == route_plan_versions[d] IN
    \A v \in DOMAIN t :
      /\ t[v].parent = v - 1
      /\ v > 1 => v - 1 \in DOMAIN t /\ t[v - 1].plan # t[v].plan

\* day_sequences is the route of the active version, also after a rollback of
\* a transaction that had already written one of its two dates.
CacheAgrees ==
  \A d \in Days : LET t == route_plan_versions[d] IN
    day_sequences[d] = IF DOMAIN t = {} THEN NoPlan ELSE t[LastVersion(DOMAIN t)].plan

\* An INSERT meets neither UNIQUE(delivery_date, version) nor the unique index
\* on the active row: two concurrent publishes never pick the same number.
InsertNeverCollides ==
  \A r \in Requests : pc[r] = "insert" =>
    LET t == txVersions[Head(todo[r]).day] IN
      txNumber \notin DOMAIN t /\ ActiveVersions(t) = {}

\* A committed version is never lost, renumbered or rewritten; all that happens
\* to it is that it is superseded, once ("what did we tell this customer, and
\* when did that change?" stays answerable).
HistoryKept ==
  [][\A d \in Days : \A v \in DOMAIN route_plan_versions[d] :
       LET old == route_plan_versions[d][v] IN
         /\ v \in DOMAIN route_plan_versions'[d]
         /\ \/ route_plan_versions'[d][v] = old
            \/ /\ old.status = "active"
               /\ route_plan_versions'[d][v] = Superseded(old)]_vars

\* The write lock is not kept: whoever holds it commits, rolls back or dies.
LockReleased == \A r \in Requests : holder = r ~> holder # r

\* Statement by statement, with failures, the transactions implement the
\* register: each one appends to the history of its dates at its COMMIT.
Register == INSTANCE PlanRegister WITH
  history <- [d \in Days |-> [v \in DOMAIN route_plan_versions[d] |->
                                route_plan_versions[d][v].plan]]
PublishesAtomically == Register!Spec
=============================================================================
