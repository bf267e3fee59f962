-------------------------- MODULE MessageTurnProofs --------------------------
(***************************************************************************)
(* Safety of a conversation's requests for any number of requests, keys    *)
(* and crashes.  A key never leads two runs because it is claimed in the   *)
(* step that creates its run (Holding), and no request writes twice        *)
(* because each kind of message belongs to one place of its course         *)
(* (Spoken): those two make the properties of MessageTurn inductive.       *)
(***************************************************************************)
EXTENDS MessageTurn, FiniteSetTheorems, TLAPS

Message == [from : {"customer", "agent"}, body : Bodies, by : Requests]

\* Where a request has not started a run.
Fresh == {"idle", "lookup", "guard", "read", "record", "start", "reserve", "wait"}

\* A request's place determines its kind of key, its run and its answer.
Shape ==
  \A r \in Requests :
    /\ req[r].pc \in {"record", "start"} => req[r].key = NoKey
    /\ req[r].pc \in {"lookup", "reserve", "wait"} => req[r].key \in Keys
    /\ req[r].pc \in Fresh => runs[r] = "none"
    /\ req[r].pc \in {"work", "save", "fail"} => runs[r] = "RUNNING"
    /\ req[r].pc # "done" => req[r].reply = "none"

\* A claimed key and a keyed run are two sides of one row.
Holding ==
  /\ \A k \in Keys : claimed[k] # Nobody =>
       req[claimed[k]].key = k /\ runs[claimed[k]] # "none"
  /\ \A r \in Requests : runs[r] # "none" /\ req[r].key # NoKey =>
       claimed[req[r].key] = r

\* Who has been heard in a request's name, by where the request is.
Spoken ==
  \A i \in DOMAIN thread :
    LET r == thread[i].by IN
    /\ thread[i].from = "customer" =>
         /\ req[r].pc \in {"start", "work", "save", "fail", "done", "lost"}
         /\ req[r].key # NoKey => runs[r] # "none"
    /\ thread[i].from = "agent" =>
         req[r].pc \in {"save", "done", "lost"} /\ runs[r] # "none"

\* Nobody is heard twice in the name of one request.
Once ==
  \A i, j \in DOMAIN thread :
    thread[i].from = thread[j].from /\ thread[i].by = thread[j].by => i = j

\* The customer's words under every claimed message key.
Heard ==
  \A k \in MessageKeys : claimed[k] # Nobody =>
    \E i \in DOMAIN thread : thread[i].from = "customer" /\ thread[i].by = claimed[k]

\* A run that spoke did so after the words it answers.
Answered ==
  \A r \in Requests : req[r].pc = "save" \/ runs[r] = "COMPLETED" =>
    \E i \in DOMAIN thread :
      /\ thread[i].from = "agent" /\ thread[i].by = r
      /\ \A j \in DOMAIN thread :
           thread[j].from = "customer" /\ thread[j].by = r => j < i

\* A replay answers with a claimed key's finished run of the same words.
Replayed ==
  \A r \in Requests : req[r].reply = "replayed" =>
    /\ req[r].key \in Keys /\ claimed[req[r].key] # Nobody
    /\ req[claimed[req[r].key]].body = req[r].body
    /\ runs[claimed[req[r].key]] \in Over

IInv ==
  TypeOK /\ Shape /\ Holding /\ Spoken /\ Once /\ Heard /\ Answered /\ Replayed

-----------------------------------------------------------------------------
(* The thread *)

LEMMA Saying ==
  ASSUME NEW m \in Message, thread \in Seq(Message), thread' = Append(thread, m)
  PROVE  /\ thread' \in Seq(Message)
         /\ DOMAIN thread = 1..Len(thread)
         /\ DOMAIN thread' = 1..(Len(thread) + 1)
         /\ Len(thread) \in Nat
         /\ \A i \in DOMAIN thread : thread'[i] = thread[i]
         /\ thread'[Len(thread) + 1] = m
OBVIOUS

LEMMA AtMostOne ==
  ASSUME NEW S, \A x, y \in S : x = y
  PROVE  Cardinality(S) <= 1
<1>1. CASE S = {}
  BY <1>1, FS_EmptySet
<1>2. CASE S # {}
  <2>1. PICK x \in S : TRUE
    BY <1>2
  <2>2. S = {x}
    BY <2>1
  <2>. QED
    BY <2>2, FS_Singleton
<1>. QED
  BY <1>1, <1>2

-----------------------------------------------------------------------------
(* The steps *)

LEMMA InitIInv == Init => IInv
<1>. SUFFICES ASSUME Init PROVE IInv
  OBVIOUS
<1>. USE TurnAssumption DEF Init
<1>1. TypeOK
  <2>1. (CHOOSE b \in Bodies : TRUE) \in Bodies
    OBVIOUS
  <2>2. req \in [Requests -> [pc : InFlight \cup {"idle", "done", "lost"},
                              key : Keys \cup {NoKey}, body : Bodies,
                              reply : {"none", "turn", "duplicate", "replayed",
                                       "already", "conflict", "busy"}]]
    BY <2>1
  <2>3. thread \in Seq([from : {"customer", "agent"}, body : Bodies, by : Requests])
    OBVIOUS
  <2>. QED
    BY <2>2, <2>3 DEF TypeOK, Over
<1>2. Shape
  BY DEF Shape, Fresh
<1>3. Holding
  BY DEF Holding
<1>4. DOMAIN thread = {}
  OBVIOUS
<1>5. Spoken /\ Once
  BY <1>4 DEF Spoken, Once
<1>6. Heard /\ Answered /\ Replayed
  BY DEF Heard, Answered, Replayed, Keys
<1>. QED
  BY <1>1, <1>2, <1>3, <1>5, <1>6 DEF IInv

\* A step that changes one request, and not what it asks.
Moves(r) ==
  /\ \A s \in Requests : s # r => req'[s] = req[s]
  /\ req'[r].key = req[r].key /\ req'[r].body = req[r].body

LEMMA Messages ==
  ASSUME TypeOK
  PROVE  \A i \in DOMAIN thread : thread[i] \in Message
<1>1. ASSUME NEW S, NEW s \in Seq(S), NEW i \in DOMAIN s PROVE s[i] \in S
  OBVIOUS
<1>2. thread \in Seq(Message)
  BY DEF TypeOK, Message
<1>. QED
  BY <1>1, <1>2

\* Where a request has neither spoken nor started a run, its own move
\* disturbs nothing but its own place.
LEMMA Quiet ==
  ASSUME IInv, NEW r \in Requests,
         req[r].pc \in {"idle", "lookup", "guard", "read", "reserve", "wait"},
         \A s \in Requests : s # r => req'[s] = req[s],
         req'[r].pc # "save",
         UNCHANGED <<claimed, runs, thread>>
  PROVE  Holding' /\ Spoken' /\ Once' /\ Heard' /\ Answered'
<1>. USE DEF IInv
<1>1. runs[r] = "none"
  BY DEF Shape, Fresh
<1>2. Holding'
  <2>1. \A k \in Keys : claimed[k] # Nobody => claimed[k] \in Requests /\ claimed[k] # r
    BY <1>1 DEF Holding, TypeOK
  <2>. QED
    BY <2>1, <1>1 DEF Holding
<1>3. \A i \in DOMAIN thread : thread[i].by \in Requests /\ thread[i].by # r
            /\ thread[i].from \in {"customer", "agent"}
  BY Messages DEF Spoken, Message
<1>4. Spoken'
  BY <1>3 DEF Spoken
<1>5. Once' /\ Heard'
  BY DEF Once, Heard
<1>6. Answered'
  BY <1>1 DEF Answered, Over
<1>. QED
  BY <1>2, <1>4, <1>5, <1>6

LEMMA SendIInv ==
  ASSUME IInv, NEW r \in Requests, NEW b \in Bodies, NEW k \in Uses[r], Send(r, k, b)
  PROVE  IInv'
<1>1. k \in Keys \cup {NoKey}
  BY TurnAssumption
<1>2. PICK pc \in IF k = NoKey THEN {"guard", "start"} ELSE {"lookup"} :
        req' = [req EXCEPT ![r] = [pc |-> pc, key |-> k, body |-> b, reply |-> "none"]]
  BY DEF Send
<1>3. req[r].pc = "idle" /\ UNCHANGED <<claimed, runs, thread, crashes>>
  BY DEF Send
<1>4. TypeOK'
  BY <1>1, <1>2, <1>3 DEF IInv, TypeOK, InFlight
<1>5. Shape'
  BY <1>1, <1>2, <1>3 DEF IInv, TypeOK, Shape, Fresh
<1>6. /\ \A s \in Requests : s # r => req'[s] = req[s]
      /\ req'[r].pc # "save" /\ req'[r].reply # "replayed"
  BY <1>2 DEF IInv, TypeOK
<1>7. Holding' /\ Spoken' /\ Once' /\ Heard' /\ Answered'
  BY <1>3, <1>6, Quiet
<1>8. Replayed'
  <2>1. \A j \in Keys : claimed[j] # Nobody => claimed[j] \in Requests /\ claimed[j] # r
    BY <1>3 DEF IInv, Holding, TypeOK, Shape, Fresh
  <2>. QED
    BY <2>1, <1>3, <1>6 DEF IInv, Replayed
<1>. QED
  BY <1>4, <1>5, <1>7, <1>8 DEF IInv

\* A move on the way to a run, or to an answer without one.
LEMMA QuietIInv ==
  ASSUME IInv, NEW r \in Requests, Moves(r), TypeOK', Shape',
         req[r].pc \in {"lookup", "guard", "read", "reserve", "wait"},
         req'[r].pc # "save",
         req'[r].reply = "replayed" =>
           /\ req[r].key \in Keys /\ claimed[req[r].key] # Nobody
           /\ req[claimed[req[r].key]].body = req[r].body
           /\ runs[claimed[req[r].key]] \in Over,
         UNCHANGED <<claimed, runs, thread>>
  PROVE  IInv'
<1>1. Holding' /\ Spoken' /\ Once' /\ Heard' /\ Answered'
  BY Quiet DEF Moves
<1>2. Replayed'
  <2>1. \A j \in Keys : claimed[j] # Nobody => claimed[j] \in Requests
    BY DEF IInv, TypeOK
  <2>2. \A s \in Requests : req'[s].body = req[s].body /\ req'[s].key = req[s].key
    BY DEF Moves
  <2>. QED
    BY <2>1, <2>2 DEF IInv, Replayed, Moves
<1>. QED
  BY <1>1, <1>2 DEF IInv

LEMMA LookupIInv ==
  ASSUME IInv, NEW r \in Requests, Lookup(r)
  PROVE  IInv'
<1>1. req[r].pc = "lookup" /\ UNCHANGED <<claimed, runs, thread, crashes>>
  BY DEF Lookup
<1>2. PICK pc \in {"done", "reserve", "wait", "guard"} :
        /\ \/ req' = [req EXCEPT ![r].pc = pc]
           \/ pc = "done" /\ req' = [req EXCEPT ![r].pc = pc, ![r].reply = "conflict"]
        /\ pc = "wait" => claimed[req[r].key] # Nobody
  BY DEF Lookup, Goto, Answer
<1>3. TypeOK'
  <2>1. \A s \in Requests : req'[s].pc = "wait" => claimed'[req'[s].key] # Nobody
    BY <1>1, <1>2 DEF IInv, TypeOK
  <2>2. req' \in [Requests -> [pc : InFlight \cup {"idle", "done", "lost"},
                               key : Keys \cup {NoKey}, body : Bodies,
                               reply : {"none", "turn", "duplicate", "replayed",
                                        "already", "conflict", "busy"}]]
    BY <1>2 DEF IInv, TypeOK, InFlight
  <2>. QED
    BY <1>1, <2>1, <2>2 DEF IInv, TypeOK
<1>4. Shape'
  BY <1>1, <1>2 DEF IInv, TypeOK, Shape, Fresh
<1>5. /\ Moves(r)
      /\ req'[r].pc # "save" /\ req'[r].reply # "replayed"
  BY <1>1, <1>2 DEF IInv, TypeOK, Shape, Moves
<1>. QED
  BY <1>1, <1>3, <1>4, <1>5, QuietIInv

LEMMA GuardIInv ==
  ASSUME IInv, NEW r \in Requests, Guard(r)
  PROVE  IInv'
<1>1. req[r].pc = "guard" /\ UNCHANGED <<claimed, runs, thread, crashes>>
  BY DEF Guard
<1>2. \/ req' = [req EXCEPT ![r].pc = "read"]
      \/ req' = [req EXCEPT ![r].pc = "done", ![r].reply = "duplicate"]
  BY DEF Guard, Goto, Answer
<1>3. TypeOK'
  BY <1>1, <1>2 DEF IInv, TypeOK, InFlight
<1>4. Shape'
  BY <1>1, <1>2 DEF IInv, TypeOK, Shape, Fresh
<1>5. /\ Moves(r)
      /\ req'[r].pc # "save" /\ req'[r].reply # "replayed"
  BY <1>1, <1>2 DEF IInv, TypeOK, Shape, Moves
<1>. QED
  BY <1>1, <1>3, <1>4, <1>5, QuietIInv

LEMMA ReadIInv ==
  ASSUME IInv, NEW r \in Requests, Read(r)
  PROVE  IInv'
<1>1. req[r].pc = "read" /\ UNCHANGED <<claimed, runs, thread, crashes>>
  BY DEF Read
<1>2. PICK pc \in {"record", "reserve"} :
        /\ req' = [req EXCEPT ![r].pc = pc]
        /\ pc = "record" <=> req[r].key = NoKey
  BY DEF Read, Goto
<1>3. TypeOK'
  BY <1>1, <1>2 DEF IInv, TypeOK, InFlight
<1>4. Shape'
  BY <1>1, <1>2 DEF IInv, TypeOK, Shape, Fresh
<1>5. /\ Moves(r)
      /\ req'[r].pc # "save" /\ req'[r].reply # "replayed"
  BY <1>1, <1>2 DEF IInv, TypeOK, Shape, Moves
<1>. QED
  BY <1>1, <1>3, <1>4, <1>5, QuietIInv

LEMMA WaitIInv ==
  ASSUME IInv, NEW r \in Requests, Wait(r)
  PROVE  IInv'
<1>1. req[r].pc = "wait" /\ UNCHANGED <<claimed, runs, thread, crashes>>
  BY DEF Wait
<1>2. PICK reply \in {"conflict", "replayed", "busy"} :
        /\ req' = [req EXCEPT ![r].pc = "done", ![r].reply = reply]
        /\ reply = "replayed" => /\ req[claimed[req[r].key]].body = req[r].body
                                 /\ runs[claimed[req[r].key]] \in Over
  BY DEF Wait, Answer
<1>3. req[r].key \in Keys /\ claimed[req[r].key] # Nobody
  BY <1>1 DEF IInv, Shape, TypeOK
<1>4. TypeOK'
  BY <1>1, <1>2 DEF IInv, TypeOK, InFlight
<1>5. Shape'
  BY <1>1, <1>2 DEF IInv, TypeOK, Shape, Fresh
<1>6. /\ Moves(r) /\ req'[r].pc # "save"
      /\ req'[r].reply = reply
  BY <1>1, <1>2 DEF IInv, TypeOK, Moves
<1>. QED
  BY <1>1, <1>2, <1>3, <1>4, <1>5, <1>6, QuietIInv

\* A message after all others, in the name of a request that has not been
\* heard in that way and is not yet done.
LEMMA Speaks ==
  ASSUME IInv, NEW r \in Requests, NEW who \in {"customer", "agent"},
         thread' = Says(who, r),
         \A i \in DOMAIN thread : thread[i].by = r => thread[i].from # who
  PROVE  /\ thread' \in Seq(Message)
         /\ Len(thread) \in Nat /\ DOMAIN thread = 1..Len(thread)
         /\ DOMAIN thread' = DOMAIN thread \cup {Len(thread) + 1}
         /\ \A i \in DOMAIN thread : thread'[i] = thread[i]
         /\ thread'[Len(thread) + 1].from = who
         /\ thread'[Len(thread) + 1].by = r
         /\ Once'
<1>1. thread \in Seq(Message) /\ [from |-> who, body |-> req[r].body, by |-> r] \in Message
  BY DEF IInv, TypeOK, Message
<1>2. thread' = Append(thread, [from |-> who, body |-> req[r].body, by |-> r])
  BY DEF Says
<1>3. /\ thread' \in Seq(Message)
      /\ Len(thread) \in Nat /\ DOMAIN thread = 1..Len(thread)
      /\ DOMAIN thread' = DOMAIN thread \cup {Len(thread) + 1}
      /\ \A i \in DOMAIN thread : thread'[i] = thread[i]
      /\ thread'[Len(thread) + 1] = [from |-> who, body |-> req[r].body, by |-> r]
  BY <1>1, <1>2, Saying
<1>4. Once'
  BY <1>3 DEF IInv, Once
<1>. QED
  BY <1>3, <1>4

\* The transaction that claims a key.
LEMMA ClaimIInv ==
  ASSUME IInv, NEW r \in Requests, NEW k \in Keys,
         req[r].pc = "reserve", k = req[r].key, claimed[k] = Nobody,
         claimed' = [claimed EXCEPT ![k] = r],
         runs' = [runs EXCEPT ![r] = "RUNNING"],
         thread' = IF k \in MessageKeys THEN Says("customer", r) ELSE thread,
         Goto(r, "work"), crashes' = crashes
  PROVE  IInv'
<1>. DEFINE n == Len(thread) + 1
<1>1. /\ req'[r].pc = "work" /\ Moves(r)
      /\ req'[r].reply = "none" /\ runs[r] = "none" /\ runs'[r] = "RUNNING"
      /\ \A s \in Requests : s # r => runs'[s] = runs[s]
      /\ claimed'[k] = r /\ \A j \in Keys : j # k => claimed'[j] = claimed[j]
  BY DEF IInv, TypeOK, Goto, Moves, Shape, Fresh
<1>2. \A i \in DOMAIN thread : thread[i] \in Message /\ thread[i].by # r
  BY Messages DEF IInv, Spoken, Message
<1>3. thread' \in Seq(Message) /\ Once'
  BY <1>2, Speaks DEF IInv, TypeOK, Once, Message
<1>4. /\ DOMAIN thread \subseteq DOMAIN thread' /\ DOMAIN thread' \subseteq DOMAIN thread \cup {n}
      /\ \A i \in DOMAIN thread : thread'[i] = thread[i]
      /\ n \in DOMAIN thread' => thread'[n].from = "customer" /\ thread'[n].by = r
      /\ k \in MessageKeys => n \in DOMAIN thread'
  <2>1. CASE k \in MessageKeys
    BY <2>1, <1>2, Speaks
  <2>2. CASE k \notin MessageKeys
    <3>1. n \notin DOMAIN thread
      BY DEF IInv, TypeOK
    <3>. QED
      BY <2>2, <3>1
  <2>. QED
    BY <2>1, <2>2
<1>. HIDE DEF n
<1>5. TypeOK'
  <2>1. req' \in [Requests -> [pc : InFlight \cup {"idle", "done", "lost"},
                               key : Keys \cup {NoKey}, body : Bodies,
                               reply : {"none", "turn", "duplicate", "replayed",
                                        "already", "conflict", "busy"}]]
    BY DEF IInv, TypeOK, InFlight, Goto
  <2>2. \A s \in Requests : req'[s].pc = "wait" => claimed'[req'[s].key] # Nobody
    BY <1>1, TurnAssumption DEF IInv, TypeOK, Moves, Shape
  <2>3. claimed' \in [Keys -> Requests \cup {Nobody}] /\ runs' \in [Requests -> {"none", "RUNNING"} \cup Over]
    BY DEF IInv, TypeOK
  <2>. QED
    BY <1>3, <2>1, <2>2, <2>3 DEF IInv, TypeOK, Message
<1>6. Shape'
  BY <1>1 DEF IInv, Shape, Moves, Fresh
<1>7. Holding'
  <2>1. \A j \in Keys : claimed[j] # Nobody => claimed[j] \in Requests /\ claimed[j] # r
    BY <1>1 DEF IInv, Holding, TypeOK
  <2>2. \A s \in Requests : runs[s] # "none" /\ req[s].key # NoKey =>
           req[s].key \in Keys /\ req[s].key # k
    BY TurnAssumption DEF IInv, Holding, TypeOK
  <2>3. \A s \in Requests : req'[s].key = req[s].key
    BY <1>1 DEF Moves
  <2>4. ASSUME NEW j \in Keys, claimed'[j] # Nobody
        PROVE  req'[claimed'[j]].key = j /\ runs'[claimed'[j]] # "none"
    <3>1. CASE j = k
      BY <3>1, <1>1, <2>3
    <3>2. CASE j # k
      BY <3>2, <1>1, <2>1, <2>3, <2>4 DEF IInv, Holding
    <3>. QED
      BY <3>1, <3>2
  <2>5. ASSUME NEW s \in Requests, runs'[s] # "none", req'[s].key # NoKey
        PROVE  claimed'[req'[s].key] = s
    <3>1. CASE s = r
      BY <3>1, <1>1, <2>3
    <3>2. CASE s # r
      BY <3>2, <1>1, <2>2, <2>3, <2>5 DEF IInv, Holding
    <3>. QED
      BY <3>1, <3>2
  <2>. QED
    BY <2>4, <2>5 DEF Holding
<1>8. Spoken'
  BY <1>1, <1>2, <1>4 DEF IInv, Spoken, Moves, Message
<1>9. Heard'
  <2>1. ASSUME NEW j \in MessageKeys, claimed'[j] # Nobody
        PROVE  \E i \in DOMAIN thread' :
                 thread'[i].from = "customer" /\ thread'[i].by = claimed'[j]
    <3>1. CASE j = k
      BY <3>1, <1>1, <1>4
    <3>2. CASE j # k
      BY <3>2, <2>1, <1>1, <1>4 DEF IInv, Heard, Keys
    <3>. QED
      BY <3>1, <3>2
  <2>. QED
    BY <2>1 DEF Heard
<1>10. Answered'
  BY <1>1, <1>2, <1>4 DEF IInv, Answered, Moves
<1>11. Replayed'
  <2>1. \A s \in Requests : req'[s].body = req[s].body /\ req'[s].key = req[s].key
                            /\ req'[s].reply = req[s].reply
    BY <1>1 DEF Moves, IInv, Shape
  <2>2. \A j \in Keys : claimed[j] # Nobody =>
          claimed[j] \in Requests /\ claimed[j] # r /\ claimed'[j] = claimed[j]
    BY <1>1 DEF IInv, Holding, TypeOK
  <2>. QED
    BY <2>1, <2>2, <1>1 DEF IInv, Replayed
<1>. QED
  BY <1>3, <1>5, <1>6, <1>7, <1>8, <1>9, <1>10, <1>11 DEF IInv

LEMMA ReserveIInv ==
  ASSUME IInv, NEW r \in Requests, Reserve(r)
  PROVE  IInv'
<1>1. req[r].pc = "reserve" /\ req[r].key \in Keys /\ crashes' = crashes
  BY DEF Reserve, IInv, Shape
<1>2. CASE claimed[req[r].key] = Nobody
  BY <1>1, <1>2, ClaimIInv DEF Reserve
<1>3. CASE claimed[req[r].key] # Nobody
  <2>1. /\ \/ req' = [req EXCEPT ![r].pc = "wait"]
           \/ req' = [req EXCEPT ![r].pc = "done", ![r].reply = "already"]
        /\ UNCHANGED <<claimed, runs, thread>>
    BY <1>3 DEF Reserve, Goto, Answer
  <2>2. TypeOK'
    <3>1. \A s \in Requests : req'[s].pc = "wait" => claimed'[req'[s].key] # Nobody
      BY <1>1, <1>3, <2>1 DEF IInv, TypeOK
    <3>2. req' \in [Requests -> [pc : InFlight \cup {"idle", "done", "lost"},
                                 key : Keys \cup {NoKey}, body : Bodies,
                                 reply : {"none", "turn", "duplicate", "replayed",
                                          "already", "conflict", "busy"}]]
      BY <2>1 DEF IInv, TypeOK, InFlight
    <3>. QED
      BY <1>1, <2>1, <3>1, <3>2 DEF IInv, TypeOK
  <2>3. Shape'
    BY <1>1, <2>1 DEF IInv, TypeOK, Shape, Fresh
  <2>4. /\ Moves(r)
        /\ req'[r].pc # "save" /\ req'[r].reply # "replayed"
    BY <1>1, <2>1 DEF IInv, TypeOK, Shape, Moves
  <2>. QED
    BY <1>1, <2>1, <2>2, <2>3, <2>4, QuietIInv
<1>. QED
  BY <1>2, <1>3

\* The words of a message without a key.
LEMMA RecordIInv ==
  ASSUME IInv, NEW r \in Requests, Record(r)
  PROVE  IInv'
<1>. DEFINE n == Len(thread) + 1
<1>1. /\ req[r].pc = "record" /\ req[r].key = NoKey /\ runs[r] = "none"
      /\ req[r].reply = "none" /\ thread' = Says("customer", r)
      /\ req' = [req EXCEPT ![r].pc = "start"]
      /\ UNCHANGED <<claimed, runs, crashes>>
  BY DEF Record, Goto, IInv, Shape, Fresh
<1>2. \A i \in DOMAIN thread : thread[i] \in Message /\ thread[i].by # r
  BY <1>1, Messages DEF IInv, Spoken, Message
<1>3. /\ thread' \in Seq(Message) /\ Once'
      /\ DOMAIN thread' = DOMAIN thread \cup {n}
      /\ \A i \in DOMAIN thread : thread'[i] = thread[i]
      /\ thread'[n].from = "customer" /\ thread'[n].by = r
  BY <1>1, <1>2, Speaks
<1>. HIDE DEF n
<1>4. TypeOK'
  <2>1. req' \in [Requests -> [pc : InFlight \cup {"idle", "done", "lost"},
                               key : Keys \cup {NoKey}, body : Bodies,
                               reply : {"none", "turn", "duplicate", "replayed",
                                        "already", "conflict", "busy"}]]
    BY <1>1 DEF IInv, TypeOK, InFlight
  <2>2. \A s \in Requests : req'[s].pc = "wait" => claimed'[req'[s].key] # Nobody
    BY <1>1 DEF IInv, TypeOK
  <2>. QED
    BY <1>1, <1>3, <2>1, <2>2 DEF IInv, TypeOK, Message
<1>5. Shape' /\ Moves(r) /\ req'[r].pc = "start" /\ req'[r].reply = "none"
  BY <1>1 DEF IInv, TypeOK, Shape, Fresh, Moves
<1>6. \A s \in Requests : req'[s].key = req[s].key /\ req'[s].body = req[s].body
                          /\ req'[s].reply = req[s].reply
  BY <1>1, <1>5 DEF Moves
<1>7. \A k \in Keys : claimed[k] # Nobody => claimed[k] \in Requests
  BY DEF IInv, TypeOK
<1>8. Holding' /\ Replayed'
  BY <1>1, <1>6, <1>7 DEF IInv, Holding, Replayed
<1>9. Spoken'
  BY <1>1, <1>2, <1>3, <1>5, <1>6 DEF IInv, Spoken, Moves, Message
<1>10. Heard' /\ Answered'
  BY <1>1, <1>2, <1>3, <1>5 DEF IInv, Heard, Answered, Moves, Over, Keys
<1>. QED
  BY <1>3, <1>4, <1>5, <1>8, <1>9, <1>10 DEF IInv

\* The run of a request without a key.
LEMMA StartIInv ==
  ASSUME IInv, NEW r \in Requests, Start(r)
  PROVE  IInv'
<1>1. /\ req[r].pc = "start" /\ req[r].key = NoKey /\ runs[r] = "none"
      /\ req[r].reply = "none"
      /\ req' = [req EXCEPT ![r].pc = "work"]
      /\ runs' = [runs EXCEPT ![r] = "RUNNING"]
      /\ UNCHANGED <<claimed, thread, crashes>>
  BY DEF Start, Goto, IInv, Shape, Fresh
<1>2. /\ Moves(r) /\ req'[r].pc = "work" /\ req'[r].reply = "none"
      /\ runs'[r] = "RUNNING" /\ \A s \in Requests : s # r => runs'[s] = runs[s]
  BY <1>1 DEF IInv, TypeOK, Moves
<1>3. TypeOK'
  <2>1. req' \in [Requests -> [pc : InFlight \cup {"idle", "done", "lost"},
                               key : Keys \cup {NoKey}, body : Bodies,
                               reply : {"none", "turn", "duplicate", "replayed",
                                        "already", "conflict", "busy"}]]
    BY <1>1 DEF IInv, TypeOK, InFlight
  <2>2. \A s \in Requests : req'[s].pc = "wait" => claimed'[req'[s].key] # Nobody
    BY <1>1 DEF IInv, TypeOK
  <2>. QED
    BY <1>1, <2>1, <2>2 DEF IInv, TypeOK
<1>4. Shape'
  BY <1>1, <1>2 DEF IInv, Shape, Fresh, Moves
<1>5. \A s \in Requests : req'[s].key = req[s].key /\ req'[s].body = req[s].body
                          /\ req'[s].reply = req[s].reply
  BY <1>1, <1>2 DEF Moves
<1>6. \A k \in Keys : claimed[k] # Nobody => claimed[k] \in Requests /\ claimed[k] # r
  BY <1>1 DEF IInv, TypeOK, Holding
<1>7. Holding' /\ Replayed'
  BY <1>1, <1>2, <1>5, <1>6 DEF IInv, Holding, Replayed
<1>8. \A i \in DOMAIN thread : thread[i] \in Message
  BY Messages DEF IInv
<1>9. Spoken' /\ Once'
  BY <1>1, <1>2, <1>5, <1>8 DEF IInv, Spoken, Once, Moves, Message
<1>10. Heard' /\ Answered'
  BY <1>1, <1>2, <1>6 DEF IInv, Heard, Answered, Moves, Keys
<1>. QED
  BY <1>3, <1>4, <1>7, <1>9, <1>10 DEF IInv

\* The run speaks to the customer, after the words it answers.
LEMMA ReplyIInv ==
  ASSUME IInv, NEW r \in Requests, req[r].pc = "work",
         thread' = Says("agent", r), Goto(r, "save"),
         UNCHANGED <<claimed, runs, crashes>>
  PROVE  IInv'
<1>. DEFINE n == Len(thread) + 1
<1>1. /\ Moves(r) /\ req'[r].pc = "save" /\ req'[r].reply = req[r].reply
      /\ req[r].reply = "none" /\ runs[r] = "RUNNING"
  BY DEF Goto, IInv, TypeOK, Shape, Moves
<1>2. \A i \in DOMAIN thread : /\ thread[i] \in Message
                               /\ thread[i].by = r => thread[i].from = "customer"
  BY Messages DEF IInv, Spoken, Message
<1>3. /\ thread' \in Seq(Message) /\ Once'
      /\ DOMAIN thread' = DOMAIN thread \cup {n}
      /\ \A i \in DOMAIN thread : thread'[i] = thread[i] /\ i < n
      /\ thread'[n].from = "agent" /\ thread'[n].by = r
  <2>1. /\ thread' \in Seq(Message) /\ Once'
        /\ Len(thread) \in Nat /\ DOMAIN thread = 1..Len(thread)
        /\ DOMAIN thread' = DOMAIN thread \cup {n}
        /\ \A i \in DOMAIN thread : thread'[i] = thread[i]
        /\ thread'[n].from = "agent" /\ thread'[n].by = r
    BY <1>2, Speaks
  <2>. QED
    BY <2>1
<1>. HIDE DEF n
<1>4. TypeOK'
  <2>1. req' \in [Requests -> [pc : InFlight \cup {"idle", "done", "lost"},
                               key : Keys \cup {NoKey}, body : Bodies,
                               reply : {"none", "turn", "duplicate", "replayed",
                                        "already", "conflict", "busy"}]]
    BY DEF IInv, TypeOK, InFlight, Goto
  <2>2. \A s \in Requests : req'[s].pc = "wait" => claimed'[req'[s].key] # Nobody
    BY <1>1 DEF IInv, TypeOK, Moves
  <2>. QED
    BY <1>3, <2>1, <2>2 DEF IInv, TypeOK, Message
<1>5. Shape'
  BY <1>1 DEF IInv, Shape, Fresh, Moves
<1>6. \A s \in Requests : req'[s].key = req[s].key /\ req'[s].body = req[s].body
                          /\ req'[s].reply = req[s].reply
  BY <1>1 DEF Moves
<1>7. \A k \in Keys : claimed[k] # Nobody => claimed[k] \in Requests
  BY DEF IInv, TypeOK
<1>8. Holding' /\ Replayed'
  BY <1>6, <1>7 DEF IInv, Holding, Replayed
<1>9. Spoken'
  BY <1>1, <1>2, <1>3, <1>6 DEF IInv, Spoken, Moves, Message
<1>10. Heard'
  BY <1>3 DEF IInv, Heard
<1>11. Answered'
  <2>1. \A s \in Requests : s # r => req'[s] = req[s]
    BY <1>1 DEF Moves
  <2>. QED
    BY <1>1, <1>3, <2>1 DEF IInv, Answered
<1>. QED
  BY <1>3, <1>4, <1>5, <1>8, <1>9, <1>10, <1>11 DEF IInv

\* The run has failed before it said anything.
LEMMA FailIInv ==
  ASSUME IInv, NEW r \in Requests, req[r].pc = "work", Goto(r, "fail"),
         UNCHANGED <<claimed, runs, thread, crashes>>
  PROVE  IInv'
<1>1. /\ Moves(r) /\ req'[r].pc = "fail" /\ req'[r].reply = req[r].reply
      /\ req[r].reply = "none" /\ runs[r] = "RUNNING"
  BY DEF Goto, IInv, TypeOK, Shape, Moves
<1>2. TypeOK'
  <2>1. req' \in [Requests -> [pc : InFlight \cup {"idle", "done", "lost"},
                               key : Keys \cup {NoKey}, body : Bodies,
                               reply : {"none", "turn", "duplicate", "replayed",
                                        "already", "conflict", "busy"}]]
    BY DEF IInv, TypeOK, InFlight, Goto
  <2>2. \A s \in Requests : req'[s].pc = "wait" => claimed'[req'[s].key] # Nobody
    BY <1>1 DEF IInv, TypeOK, Moves
  <2>. QED
    BY <2>1, <2>2 DEF IInv, TypeOK
<1>3. Shape'
  BY <1>1 DEF IInv, Shape, Fresh, Moves
<1>4. \A s \in Requests : req'[s].key = req[s].key /\ req'[s].body = req[s].body
                          /\ req'[s].reply = req[s].reply
  BY <1>1 DEF Moves
<1>5. \A k \in Keys : claimed[k] # Nobody => claimed[k] \in Requests
  BY DEF IInv, TypeOK
<1>6. Holding' /\ Replayed'
  BY <1>4, <1>5 DEF IInv, Holding, Replayed
<1>7. \A i \in DOMAIN thread : thread[i] \in Message
  BY Messages DEF IInv
<1>8. Spoken' /\ Once'
  BY <1>1, <1>4, <1>7 DEF IInv, Spoken, Once, Moves, Message
<1>9. Heard' /\ Answered'
  BY <1>1 DEF IInv, Heard, Answered, Moves, Over
<1>. QED
  BY <1>2, <1>3, <1>6, <1>8, <1>9 DEF IInv

LEMMA SaveIInv ==
  ASSUME IInv, NEW r \in Requests, Save(r)
  PROVE  IInv'
<1>1. /\ req[r].pc \in {"save", "fail"} /\ runs[r] = "RUNNING"
      /\ UNCHANGED <<claimed, thread, crashes>>
  BY DEF Save, IInv, Shape
<1>. DEFINE move == req' = [req EXCEPT ![r].pc = "done", ![r].reply = "turn"]
<1>0. move
  BY DEF Save, Answer
<1>. HIDE DEF move
<1>2. /\ Moves(r) /\ req'[r].pc = "done" /\ req'[r].reply = "turn"
      /\ \A s \in Requests : s # r => runs'[s] = runs[s]
      /\ runs'[r] \in Over /\ runs' \in [Requests -> {"none", "RUNNING"} \cup Over]
      /\ runs'[r] = "COMPLETED" => req[r].pc = "save"
  BY <1>1, <1>0 DEF Save, IInv, TypeOK, Moves, Over, move
<1>3. TypeOK'
  <2>1. req' \in [Requests -> [pc : InFlight \cup {"idle", "done", "lost"},
                               key : Keys \cup {NoKey}, body : Bodies,
                               reply : {"none", "turn", "duplicate", "replayed",
                                        "already", "conflict", "busy"}]]
    <3>1. \A s \in Requests :
            [req[s] EXCEPT !.pc = "done", !.reply = "turn"]
              \in [pc : InFlight \cup {"idle", "done", "lost"},
                  key : Keys \cup {NoKey}, body : Bodies,
                  reply : {"none", "turn", "duplicate", "replayed",
                           "already", "conflict", "busy"}]
      BY DEF IInv, TypeOK
    <3>2. req' = [req EXCEPT ![r] = [req[r] EXCEPT !.pc = "done", !.reply = "turn"]]
      BY <1>0 DEF move, IInv, TypeOK
    <3>. QED
      BY <3>1, <3>2 DEF IInv, TypeOK
  <2>2. \A s \in Requests : req'[s].pc = "wait" => claimed'[req'[s].key] # Nobody
    BY <1>1, <1>2 DEF IInv, TypeOK, Moves
  <2>. QED
    BY <1>1, <1>2, <2>1, <2>2 DEF IInv, TypeOK
<1>4. Shape'
  BY <1>1, <1>2 DEF IInv, Shape, Fresh, Moves
<1>5. \A s \in Requests : req'[s].key = req[s].key /\ req'[s].body = req[s].body
  BY <1>1, <1>2 DEF Moves
<1>6. \A k \in Keys : claimed[k] # Nobody => claimed[k] \in Requests
  BY DEF IInv, TypeOK
<1>7. \A s \in Requests : /\ runs[s] = "none" => runs'[s] = "none"
                          /\ runs'[s] = "none" => runs[s] = "none"
                          /\ runs[s] \in Over => runs'[s] = runs[s]
  BY <1>1, <1>2 DEF Over
<1>8. Holding'
  BY <1>1, <1>5, <1>6, <1>7 DEF IInv, Holding
<1>9. Replayed'
  BY <1>1, <1>2, <1>5, <1>6, <1>7 DEF IInv, Replayed, Moves
<1>10. \A i \in DOMAIN thread : thread[i] \in Message
  BY Messages DEF IInv
<1>11. Spoken' /\ Once'
  BY <1>1, <1>2, <1>5, <1>7, <1>10 DEF IInv, Spoken, Once, Moves, Message
<1>12. Heard' /\ Answered'
  BY <1>1, <1>2 DEF IInv, Heard, Answered, Moves
<1>. QED
  BY <1>3, <1>4, <1>8, <1>9, <1>11, <1>12 DEF IInv

\* A process that dies takes nothing back.
LEMMA CrashIInv ==
  ASSUME IInv, Crash
  PROVE  IInv'
<1>1. /\ \A s \in Requests :
           /\ req'[s].key = req[s].key /\ req'[s].body = req[s].body
           /\ req'[s].reply = req[s].reply
           /\ \/ req'[s].pc = req[s].pc /\ req[s].pc \notin InFlight
              \/ req'[s].pc = "lost" /\ req[s].pc \in InFlight
      /\ UNCHANGED <<claimed, runs, thread>>
  BY DEF Crash, IInv, TypeOK
<1>2. TypeOK'
  <2>1. req' \in [Requests -> [pc : InFlight \cup {"idle", "done", "lost"},
                               key : Keys \cup {NoKey}, body : Bodies,
                               reply : {"none", "turn", "duplicate", "replayed",
                                        "already", "conflict", "busy"}]]
    BY DEF Crash, IInv, TypeOK
  <2>2. \A s \in Requests : req'[s].pc # "wait"
    BY <1>1 DEF InFlight
  <2>3. crashes' \in 0..MaxCrashes
    BY TurnAssumption DEF Crash, IInv, TypeOK
  <2>. QED
    BY <1>1, <2>1, <2>2, <2>3 DEF IInv, TypeOK
<1>3. Shape'
  BY <1>1 DEF IInv, Shape, Fresh, InFlight
<1>4. \A k \in Keys : claimed[k] # Nobody => claimed[k] \in Requests
  BY DEF IInv, TypeOK
<1>5. Holding' /\ Replayed'
  BY <1>1, <1>4 DEF IInv, Holding, Replayed
<1>6. \A i \in DOMAIN thread : thread[i] \in Message
  BY Messages DEF IInv
<1>7. Spoken' /\ Once'
  BY <1>1, <1>6 DEF IInv, Spoken, Once, Message, InFlight
<1>8. Heard' /\ Answered'
  BY <1>1 DEF IInv, Heard, Answered
<1>. QED
  BY <1>2, <1>3, <1>5, <1>7, <1>8 DEF IInv

LEMMA StutterIInv ==
  ASSUME IInv, UNCHANGED vars
  PROVE  IInv'
BY DEF vars, IInv, TypeOK, Shape, Holding, Spoken, Once, Heard, Answered, Replayed

-----------------------------------------------------------------------------
(* The theorems *)

(* The strengthened invariant holds of every behaviour of the requests.   *)
THEOREM Invariance == Spec => []IInv
<1>1. ASSUME IInv, [Next]_vars PROVE IInv'
  <2>1. ASSUME NEW r \in Requests, Handle(r) PROVE IInv'
    <3>1. CASE Work(r)
      BY <1>1, <3>1, ReplyIInv, FailIInv DEF Work
    <3>. QED
      BY <1>1, <2>1, <3>1, LookupIInv, GuardIInv, ReadIInv, ReserveIInv,
         RecordIInv, StartIInv, SaveIInv, WaitIInv DEF Handle
  <2>. QED
    BY <1>1, <2>1, SendIInv, CrashIInv, StutterIInv DEF Next
<1>. QED
  BY InitIInv, <1>1, PTL DEF Spec

(* Every variable stays within its type, and a request waits only for a    *)
(* key somebody holds.                                                     *)
THEOREM TypeCorrect == Spec => []TypeOK
BY Invariance, PTL DEF IInv

(* However many requests carry a key, at once or after a crash, it starts  *)
(* one run, and each side is written down for it at most once.             *)
THEOREM OneTurn == Spec => []OneTurnPerKey
<1>1. ASSUME IInv PROVE OneTurnPerKey
  <2>. SUFFICES ASSUME NEW k \in Keys
       PROVE LET users == {r \in Requests : req[r].key = k} IN
             /\ Cardinality({r \in users : runs[r] # "none"}) <= 1
             /\ \A who \in {"customer", "agent"} :
                  Cardinality(UNION {Written(who, r) : r \in users}) <= 1
    BY DEF OneTurnPerKey
  <2>. DEFINE users == {r \in Requests : req[r].key = k}
  <2>1. \A r \in users : runs[r] # "none" => r = claimed[k]
    BY <1>1, TurnAssumption DEF IInv, Holding
  <2>2. Cardinality({r \in users : runs[r] # "none"}) <= 1
    BY <2>1, AtMostOne
  <2>3. ASSUME NEW who \in {"customer", "agent"}
        PROVE  Cardinality(UNION {Written(who, r) : r \in users}) <= 1
    <3>1. \A r \in users : \A i \in Written(who, r) : r = claimed[k]
      BY <1>1, <2>1, TurnAssumption DEF Written, IInv, Spoken
    <3>2. \A i, j \in UNION {Written(who, r) : r \in users} : i = j
      BY <1>1, <3>1 DEF Written, IInv, Once
    <3>. HIDE DEF users
    <3>. QED
      BY <3>2, AtMostOne
  <2>. QED
    BY <2>2, <2>3
<1>. QED
  BY <1>1, Invariance, PTL

(* No crash leaves half a turn behind a key: its run and the customer's    *)
(* words are there, and a completed run has answered them.                 *)
THEOREM ClaimsAreWhole == Spec => []ClaimIsWhole
<1>1. ASSUME IInv PROVE ClaimIsWhole
  BY <1>1, TurnAssumption
     DEF IInv, ClaimIsWhole, Holding, Heard, Answered, Written, Keys
<1>. QED
  BY <1>1, Invariance, PTL

(* A retry that is shown a turn is shown a finished one of the same words. *)
THEOREM ReplaysShowTurns == Spec => []ReplayShowsTurn
<1>1. ASSUME IInv PROVE ReplayShowsTurn
  BY <1>1 DEF IInv, TypeOK, ReplayShowsTurn, Replayed, Answered, Written
<1>. QED
  BY <1>1, Invariance, PTL
=============================================================================
