------------------------------ MODULE MessageTurn ------------------------------
(***************************************************************************)
(* One customer's conversation as its requests reach the server: a message *)
(* (webapp/chat_api.py receive_message) or a refusal from the page         *)
(* (webapp/main.py respond_to_offer), with or without the client's retry   *)
(* key, while other requests of the same conversation are in progress.     *)
(* Each database call commits on its own except the reservation, which is  *)
(* one transaction; the process may die between any two of them.           *)
(*                                                                         *)
(* Abstracted: the run of the agent is one step that writes to the         *)
(* customer or, having failed before it did anything, does not: that is    *)
(* what AgentRun states and AgentLoop shows.  Fifteen seconds of polling   *)
(* are a deadline that may pass at any time.                               *)
(***************************************************************************)
EXTENDS Naturals, Sequences, FiniteSets

CONSTANTS Requests,     \* HTTP requests, each made once
          MessageKeys,  \* client_message_id values
          AnswerKeys,   \* event_id values of the page's refusals
          NoKey,        \* a message sent without one
          Bodies,       \* message texts (normalised), or refused slots
          Uses,         \* the keys each request may come with
          MaxCrashes

Keys == MessageKeys \cup AnswerKeys
Nobody == "nobody"

ASSUME TurnAssumption ==
  /\ Uses \in [Requests -> SUBSET (Keys \cup {NoKey})]
  /\ Nobody \notin Requests
  /\ NoKey \notin Keys /\ MessageKeys \cap AnswerKeys = {}
  /\ Bodies # {} /\ MaxCrashes \in Nat

VARIABLES req,        \* the requests
          claimed,    \* planning_events: who reserved a key, or nobody
          runs,       \* agent_runs: the run each request created
          thread,     \* messages, in order
          crashes

vars == <<req, claimed, runs, thread, crashes>>

Over == {"COMPLETED", "FAILED"}
InFlight == {"lookup", "guard", "read", "record", "start", "reserve", "work",
             "save", "fail", "wait"}

Goto(r, pc) == req' = [req EXCEPT ![r].pc = pc]
Answer(r, reply) == req' = [req EXCEPT ![r].pc = "done", ![r].reply = reply]

Says(who, r) == Append(thread, [from |-> who, body |-> req[r].body, by |-> r])

(* POST /api/orders/{id}/messages, POST /api/offers/{id}/respond: a key is *)
(* looked up first; without one a message is guarded against a double tap, *)
(* a refusal starts its run.                                               *)
Send(r, k, b) ==
  /\ req[r].pc = "idle"
  /\ \E pc \in IF k = NoKey THEN {"guard", "start"} ELSE {"lookup"} :
       req' = [req EXCEPT ![r] = [pc |-> pc, key |-> k, body |-> b,
                                  reply |-> "none"]]
  /\ UNCHANGED <<claimed, runs, thread, crashes>>

LookupMutant(r) ==
  /\ req[r].pc = "lookup"
  /\ LET k == req[r].key IN
     IF k \in AnswerKeys THEN Goto(r, "reserve")
     ELSE Goto(r, "wait")
  /\ UNCHANGED <<claimed, runs, thread, crashes>>

(* A known message key is answered with the turn it started; a known       *)
(* refusal key must come with the same answer.                             *)
Lookup(r) ==
  /\ req[r].pc = "lookup"
  /\ LET k == req[r].key IN
     IF k \in AnswerKeys
       THEN IF claimed[k] # Nobody /\ req[claimed[k]].body # req[r].body
              THEN Answer(r, "conflict")
              ELSE Goto(r, "reserve")
       ELSE Goto(r, IF claimed[k] # Nobody THEN "wait" ELSE "guard")
  /\ UNCHANGED <<claimed, runs, thread, crashes>>

Inbound == {i \in DOMAIN thread : thread[i].from = "customer"}

(* is_duplicate_send: the customer's last words again *)
DuplicateSend(b) ==
  \E i \in Inbound : /\ \A j \in Inbound : j <= i
                     /\ thread[i].body = b

Guard(r) ==
  /\ req[r].pc = "guard"
  /\ IF DuplicateSend(req[r].body) THEN Answer(r, "duplicate") ELSE Goto(r, "read")
  /\ UNCHANGED <<claimed, runs, thread, crashes>>

(* The model reads the message: seconds, outside any transaction. *)
Read(r) ==
  /\ req[r].pc = "read"
  /\ Goto(r, IF req[r].key = NoKey THEN "record" ELSE "reserve")
  /\ UNCHANGED <<claimed, runs, thread, crashes>>

ReserveMutant(r) ==
  /\ req[r].pc = "reserve"
  /\ LET k == req[r].key IN
     IF claimed[k] = Nobody
       THEN /\ claimed' = [claimed EXCEPT ![k] = r]
            /\ runs' = [runs EXCEPT ![r] = "RUNNING"]
            /\ Goto(r, "work")
            /\ UNCHANGED thread
       ELSE /\ IF k \in MessageKeys THEN Goto(r, "wait") ELSE Answer(r, "already")
            /\ UNCHANGED <<claimed, runs, thread>>
  /\ UNCHANGED crashes

ClaimMutant(r) ==
  /\ req[r].pc = "reserve"
  /\ claimed' = [claimed EXCEPT ![req[r].key] = r]
  /\ runs' = [runs EXCEPT ![r] = "RUNNING"]
  /\ thread' = IF req[r].key \in MessageKeys THEN Says("customer", r) ELSE thread
  /\ Goto(r, "work")
  /\ UNCHANGED crashes

(* One transaction claims the key, creates its run and, for a message,     *)
(* writes down the customer's words.  Who comes second waits for the       *)
(* winner; a second refusal returns the winner's run as it is.             *)
Reserve(r) ==
  /\ req[r].pc = "reserve"
  /\ LET k == req[r].key IN
     IF claimed[k] = Nobody
       THEN /\ claimed' = [claimed EXCEPT ![k] = r]
            /\ runs' = [runs EXCEPT ![r] = "RUNNING"]
            /\ thread' = IF k \in MessageKeys THEN Says("customer", r) ELSE thread
            /\ Goto(r, "work")
       ELSE /\ IF k \in MessageKeys THEN Goto(r, "wait") ELSE Answer(r, "already")
            /\ UNCHANGED <<claimed, runs, thread>>
  /\ UNCHANGED crashes

(* Without a key the words are one commit and the run another. *)
Record(r) ==
  /\ req[r].pc = "record"
  /\ thread' = Says("customer", r)
  /\ Goto(r, "start")
  /\ UNCHANGED <<claimed, runs, crashes>>

Start(r) ==
  /\ req[r].pc = "start"
  /\ runs' = [runs EXCEPT ![r] = "RUNNING"]
  /\ Goto(r, "work")
  /\ UNCHANGED <<claimed, thread, crashes>>

(* The agent's run, up to the message it owes *)
Work(r) ==
  /\ req[r].pc = "work"
  /\ \/ thread' = Says("agent", r) /\ Goto(r, "save")
     \/ thread' = thread /\ Goto(r, "fail")
  /\ UNCHANGED <<claimed, runs, crashes>>

SaveMutant(r) ==
  /\ req[r].pc \in {"save", "fail"}
  /\ runs' = IF req[r].pc = "save" THEN [runs EXCEPT ![r] = "COMPLETED"] ELSE runs
  /\ Answer(r, "turn")
  /\ UNCHANGED <<claimed, thread, crashes>>

(* save_agent_run: the run's final status; then the turn is returned. *)
Save(r) ==
  /\ req[r].pc \in {"save", "fail"}
  /\ runs' = [runs EXCEPT ![r] = IF req[r].pc = "save" THEN "COMPLETED" ELSE "FAILED"]
  /\ Answer(r, "turn")
  /\ UNCHANGED <<claimed, thread, crashes>>

WaitBlindMutant(r) ==
  /\ req[r].pc = "wait"
  /\ LET winner == claimed[req[r].key] IN
     IF req[winner].body # req[r].body THEN Answer(r, "conflict")
     ELSE Answer(r, "replayed")
  /\ UNCHANGED <<claimed, runs, thread, crashes>>

WaitForeverMutant(r) ==
  /\ req[r].pc = "wait"
  /\ LET winner == claimed[req[r].key] IN
     IF req[winner].body # req[r].body THEN Answer(r, "conflict")
     ELSE runs[winner] \in Over /\ Answer(r, "replayed")
  /\ UNCHANGED <<claimed, runs, thread, crashes>>

(* _replayed_turn: the same words, and a finished run; or the deadline *)
Wait(r) ==
  /\ req[r].pc = "wait"
  /\ LET winner == claimed[req[r].key] IN
     IF req[winner].body # req[r].body THEN Answer(r, "conflict")
     ELSE IF runs[winner] \in Over THEN Answer(r, "replayed")
     ELSE Answer(r, "busy")
  /\ UNCHANGED <<claimed, runs, thread, crashes>>

(* The process dies: what was committed stays, and nobody takes it up.     *)
Crash ==
  /\ crashes < MaxCrashes /\ \E r \in Requests : req[r].pc \in InFlight
  /\ crashes' = crashes + 1
  /\ req' = [r \in Requests |->
               IF req[r].pc \in InFlight THEN [req[r] EXCEPT !.pc = "lost"]
               ELSE req[r]]
  /\ UNCHANGED <<claimed, runs, thread>>

Init ==
  /\ req = [r \in Requests |->
              [pc |-> "idle", key |-> NoKey, body |-> CHOOSE b \in Bodies : TRUE,
               reply |-> "none"]]
  /\ claimed = [k \in Keys |-> Nobody]
  /\ runs = [r \in Requests |-> "none"]
  /\ thread = <<>>
  /\ crashes = 0

Handle(r) ==
  \/ Lookup(r) \/ Guard(r) \/ Read(r) \/ Reserve(r) \/ Record(r) \/ Start(r)
  \/ Work(r) \/ Save(r) \/ Wait(r)

Next ==
  \/ \E r \in Requests, b \in Bodies : \E k \in Uses[r] : Send(r, k, b)
  \/ \E r \in Requests : Handle(r)
  \/ Crash

(* A worker thread runs its request to the end; customers need not write.  *)
Spec == Init /\ [][Next]_vars /\ \A r \in Requests : WF_vars(Handle(r))

-----------------------------------------------------------------------------
(* Properties *)

Written(who, r) == {i \in DOMAIN thread : thread[i].from = who /\ thread[i].by = r}

(* Every variable stays within its type, and a request waits only for a    *)
(* key somebody holds.                                                     *)
TypeOK ==
  /\ req \in [Requests -> [pc : InFlight \cup {"idle", "done", "lost"},
                            key : Keys \cup {NoKey}, body : Bodies,
                            reply : {"none", "turn", "duplicate", "replayed",
                                     "already", "conflict", "busy"}]]
  /\ claimed \in [Keys -> Requests \cup {Nobody}]
  /\ runs \in [Requests -> {"none", "RUNNING"} \cup Over]
  /\ thread \in Seq([from : {"customer", "agent"}, body : Bodies, by : Requests])
  /\ crashes \in 0..MaxCrashes
  /\ \A r \in Requests : req[r].pc = "wait" => claimed[req[r].key] # Nobody

(* However often a key is sent, at once or after a crash, it starts one    *)
(* run, its words are in the thread once, and it is answered once.         *)
OneTurnPerKey ==
  \A k \in Keys :
    LET users == {r \in Requests : req[r].key = k} IN
    /\ Cardinality({r \in users : runs[r] # "none"}) <= 1
    /\ \A who \in {"customer", "agent"} :
         Cardinality(UNION {Written(who, r) : r \in users}) <= 1

(* A key is never held by half a turn, wherever the process died: its run  *)
(* exists and the customer's words are in the thread; and a completed      *)
(* run's answer stands after the words it answers.                         *)
ClaimIsWhole ==
  /\ \A k \in Keys : claimed[k] # Nobody =>
       /\ runs[claimed[k]] # "none"
       /\ k \in MessageKeys => Written("customer", claimed[k]) # {}
  /\ \A r \in Requests : runs[r] = "COMPLETED" =>
       \E i \in Written("agent", r) : \A j \in Written("customer", r) : j < i

(* A replayed turn is the turn of the same words, and it is over: "never a *)
(* blank snapshot of work still in flight".                                *)
ReplayShowsTurn ==
  \A r \in Requests : req[r].reply = "replayed" =>
    LET winner == claimed[req[r].key] IN
    /\ req[winner].body = req[r].body
    /\ runs[winner] \in Over
    /\ runs[winner] = "COMPLETED" => Written("agent", winner) # {}

(* Every request is answered unless the process dies under it, also one    *)
(* that waits for a run whose process died.                                *)
RequestsReturn ==
  \A r \in Requests : req[r].pc \in InFlight ~> req[r].pc \in {"done", "lost"}

(* A run that was started gets its final status, failed or not, unless the *)
(* process dies.                                                           *)
RunsAreClosed ==
  \A r \in Requests : runs[r] = "RUNNING" ~> runs[r] \in Over \/ crashes > 0
=============================================================================
