# Verification of the delivery scheduling service

TLA+ models of the back end in `dispatch_agent/`: customers are offered delivery
times, accept or reject them, and every date has a published route that has to
keep what customers were promised. TLC checks the models on small instances;
TLAPS proves, for instances of any size, that publishing is safe and one atomic
step, and the safety of appointments and their routes, of the agent's run, of a
conversation's requests and of the times offered from a day's route.

## 1. Inventory

FastAPI runs its handlers on a pool of threads over one SQLite file. Every
repository call commits on its own connection (`db._connect`) unless it runs in
`JobsRepository.transaction`, a `BEGIN IMMEDIATE` kept in a context variable.
There is no lock per order or per date. So a handler is a sequence of steps that
hold copies of rows, and two handlers interleave at every call.

| Component | State | Operations | What makes it correct | Module |
|---|---|---|---|---|
| Plan publication (`plan_service.publish_plan_version`) | `route_plan_versions`, `day_sequences` | publish, alone or inside an acceptance | one active version per date, unbroken history, cache agrees | PlanVersions |
| Solving (`plan_service.solve_day`, `solver`) | none | solve a date from its routable jobs | every locked customer reached in their window | BookingState, Disruption |
| Offers (`offer_service`, `workflows`, `tools`) | `appointment_offers`, planning status of a job | create offer, accept, reject | an answer is final; accepting keeps rows, offers and routes in step | Negotiation |
| Insertion search (`insertion`, `slots`) | none | search, rebuild the tested route | what is published is what was tested, and it can be driven | DayWindows, Negotiation |
| Candidate evaluation (`candidate_service`, `promise_window`, `scoring`) | none | evaluate the windows of an order | a promise lies where the van will be and where the customer is free | DayWindows, Negotiation |
| Availability (`conversation`, `negotiation_tools`) | the options of a job, each with exclusions | record a stated time, carve a refusal | a declined time stays out | DayWindows |
| Disruption (`recovery_service`) | readiness of a job | mark readiness, offer a freed slot | delayed goods leave the route; being asked is not being moved | Disruption |
| Coordinator endpoints (`webapp/main.py`) | as above | route plan, morning run, edit, delete, reset | a day sent out stays sent out | Disruption |
| Storage (`db`, `models`) | all tables | save and load rows, transactions, migration | a row that was saved can be read | BookingState, MessageTurn |
| Chat turns (`chat_api`, `main.respond_to_offer`) | `messages`, `planning_events`, `agent_runs` | receive message, refuse an offer, retry | a message is handled once; a retry gets the answer | MessageTurn |
| Agent loop (`scheduling_agent`, `tools`, `workflows`, `insertion_tools`) | run log, tool context | observe, decide, act, conclude | no illegal tool, always one reply, a bounded number of steps | AgentLoop |
| Policy answers | none | search, answer, hand over | an answer is followed by a message | AgentLoop (hand-off only) |
| Language, geography, decision record | none or caches | pure or I/O | | |
| Legacy reschedule and job intake | `jobs` | `apply_reschedule`, chat intake | | |

Interactions: a chat turn (MessageTurn) or a button starts a run of the agent
(AgentLoop), whose tools call the offer service (Negotiation) with times that the
search or the solver found (DayWindows); an acceptance calls the insertion or
solving code and then plan publication, in one transaction; a readiness change or
a coordinator's button solves and publishes in separate steps; a recovery offer is
answered through the same acceptance. All of them share the `jobs` rows.

Hard behaviours: rows read, then a solve of several seconds, then a whole-row
save; check-then-act on "is an offer open" and on the number of rounds; a route
republished while a customer decides; rejection in four commits with a crash in
between; two dates republished in one move, the second of which may fail; a
language model that may name any tool, any number of times, and lose its provider
half way; an HTTP retry that meets the request it repeats; a promise cut around
an arrival at the edge of what the customer gave.
`PROJECT.json` lists each of these hazards at its line with the properties that
watch it.

## 2. Modules

    PlanRegister      abstract: per date an append-only history of routes
      ^ refined by
    PlanVersions      publish_plan_version, SQL statement by statement
      PlanVersionsProofs   its theorems
      PlanRegisterProofs   the refinement
      MCPlanVersions       its instance

    BookingState      rows, how they load, how a date is solved
      Negotiation     offering, accepting, rejecting
      Disruption      readiness, replans, sequencing, dispatch, recovery offers
        Coordinator   both together, crashes, the properties
          ^ refines, while only customers act
        Appointments  abstract: who holds what, and routes that follow
      CoordinatorProofs    what holds in every environment
      AppointmentProofs    what holds of rows, promises and routes, and where
      MCCoordinator        its instances

    AgentRun          abstract: what a run promises whoever started it
      ^ refined by
    AgentLoop         observe, decide, act, conclude
      AgentLoopProofs    its theorems, the refinement among them
      MCAgentLoop        its instance

    MessageTurn       requests of one conversation, retries, crashes
      MessageTurnProofs  its theorems
      MCMessageTurn      its instance

    DayWindows        which time is offered, minute by minute
      DayWindowsProofs   the promises of a solved day
      DayRoutesProofs    the routes, on both paths
      MCDayWindows       its instance

The four groups meet at abstractions of each other: MessageTurn takes a run of
the agent as one step that writes at most one message, which is what AgentRun
states and AgentLoop is shown to do; AgentLoop takes a tool as its outcomes, whose
effects on rows and routes are Negotiation's steps; Negotiation takes "some window
next to a published stop, or of the customer's own" for what DayWindows computes;
and all of them take a publish as the one step that PlanVersions implements.

### PlanVersions

`route_plan_versions` and `day_sequences` are the committed tables;
`txVersions` and `txSequences` are what the one open transaction sees, `holder`
is SQLite's write lock, `pc[r]` the next statement of thread `r`, `todo[r]` the
routes it still has to publish: one for `replan_day`, two for an acceptance that
vacates a date. `Begin`, `Select` or `SelectSame`, `SupersedeActive`,
`InsertVersion`, `CacheSequence`, `Commit` are the statements in their order;
`Busy` is "database is locked"; `Rollback` is any of them raising, or the
acceptance around them; `Crash` is the death of the process. A route is its
content hash, so "same content" is equality. A thread of its own that finds the
same content commits at once, as in the code.

### Coordinator

`jobs[o]` holds the planning status, date, locked window and readiness of an
order. `Loads` is `JobRecord._states_cannot_contradict`, which runs on every
read. The legacy status mirror is always set with the planning status and is not
a variable; `pending_availability`, `exception`, `completed` and `cancelled` are
not reached by the modelled operations.

`offers` is the table in insertion order. An offer has two copies of its status:
`column`, which `claim_offer_response` updates, and `data`, the JSON that every
reader deserialises. A slot carries the version its insertion was tested against,
or 0 when it comes from a re-solve.

`history[d]` is the abstract register of PlanRegister: PlanVersions shows that a
publish is one step of it, so here it is one.

`req[r]` is a thread's place in its handler with the rows it has copied:

| Code | Steps |
|---|---|
| a message or the plan buttons, up to an offer | `StartMessage`, `StartPlan` or `StartTimes`, `SaveTimes`, `LoadOrder`, `Search` or `Escalate`, `SaveOffer`, `SaveOffered` |
| `accept_offer` | `AcceptOffer`: one step, since the whole function runs in one `BEGIN IMMEDIATE`. An acceptance that is refused rolls back and is no step |
| `reject_offer` and the search after it | `StartReject`, `Claim`, `SaveRejection`, `LoadRejected`, `SaveRejected`, then as a message |
| `mark_readiness` | `StartReadiness`, `SaveReady`, `Solve` or `SolveFails`, `Publish` |
| `replan_day` tool | `StartReplan`, `Solve` or `SolveFails`, `Publish` |
| route-plan, morning-run | `StartStops`, `Solve` or `SolveFails`, `Publish`, `Advance` per stop |
| `offer_freed_slot` | `StartRecovery`, `SaveOption`, `Search`, `SaveOffer` |

What the solver, the insertion search and the customer's words decide is left
open: any readable date may be feasible or not, `Insertions` may include any window
next to a published stop (declined windows included, which over-approximates),
a message may carry times or none, and after a rejection the run may look for
alternatives or re-solve. `Solved` is what a successful solve promises: every
routable job in its locked window, which `assert_locks_respected` verifies.

Left out on purpose: the override of the round cap for a time the customer
proposes (`create_offer`, `customer_initiated`), since stated windows arrive only
with chat intents whose tools do not include `create_offer` (AgentLoop's Scope); the consent flag
of recovery customers, taken as given; `find_replacements`, which only reads.

### AgentLoop

`event` is what started the run: the intents and types `_event_for` and the page's
handlers build. `ctx` is `ToolContext`, `run` the log and the counters the rules
look back at, `store` what the run wrote for others, `offer` the offer the
customer's message is about, which another request may answer at any time.
`legal_actions` is the state gate of `tools.py`, `Decisions` the controller's
shortcuts, then the model or the rules, then the gate's correction; `Call` is
`dispatch`, which refuses what is not legal; one action per tool gives its
outcomes, failures and exceptions included. `Conclude` is the final status and
`_guarantee_a_reply`. A decider names the order of its own run or arguments the
tool rejects. `LookedBackAt` and `FailureMatters` keep of the log what a rule can
read, and whether a hand-over failed. Every event has a waiting customer.

A message is of a kind: an offer, a confirmation, the guarantee's apology, a
"handover", which promises that a person will call, or a plain reply. Handovers
are `escalate_booking`'s wording and every reply the code has for a support
request (`Clarification`); a model may use that reply or words of its own, and
words of its own are not read: that a model promises a call in a policy answer or
a question is outside the models. A tool that raises does so before its first
write (`ToolFails`), except `escalate_booking`, whose wording is set before its
row is saved; database calls outside the tools succeed.

AgentRun is the contract: within its event's permission, one message at most,
silence only after a failure with nothing done.

### MessageTurn

`req[r]` is a request's place in `receive_message` or `respond_to_offer`,
`claimed` the rows of `planning_events`, `runs` those of `agent_runs`, `thread` the
messages. `Reserve` is the one transaction that claims a key, creates its run and
stores the words; all other calls commit alone, so `Crash` may fall between any
two. `Wait` is `_replayed_turn` and its fifteen seconds, which may be over at any
time. What a turn does to rows is left to the other modules. `receive_message`'s
branch for no event is dead, as `_event_for` always returns one, and is left out.

### DayWindows

An order waits with `options` (its times, each with the intervals excluded from
it). On the solving path `Services` are the arrivals for which the day has a
route, `promise_window` is the code's arithmetic, and `Feasible` drops what was
offered before; the solver may return any of them and the score any ranking. On
the inserting path `Tested` drives the published route with one more stop,
`search` keeps the best option of each date and slot, and `First` ranks them.
`Reject` and `Merged` are what a refusal and a restated time do to the options.
`subtract` is stated declaratively, as the maximal free pieces, where the code
carves one interval at a time. `Fits` asks for the earliest-arrival drive with the
order pinned, which exists exactly if some schedule does.

## 3. Runs

| Run | What it asks | Answer |
|---|---|---|
| plan_versions | Do two threads publishing for two dates, with failures, busy locks and crashes, keep one active version, an unbroken history and an agreeing cache, never collide, release the lock, and implement the register? | yes |
| booking | Two new customers next to two booked ones, each with one request in flight: do acceptances keep rows readable, routes equal to promises, other offers closed, and publish exactly the tested route? Is every commit a step of Appointments? | yes |
| answer_races | One customer, overlapping requests of every kind, crashes: can an answer be undone or both accepted and rejected? | no, answers are final |
| disruption | One coordinator at a time with readiness, replans, sequencing, dispatch, recovery offers and their acceptance on a shared day: do promises and dispatches stand, do confirmed customers stay on their route, do delayed goods leave the route or a coordinator hear of it? | yes |
| recovery_rejected | May a booked customer decline an earlier slot and keep the appointment? | no: a rejection always returns the order to planning |
| stale_replan | Can a replan drop a customer who confirmed meanwhile? | yes: it publishes what it solved before |
| delayed_while_offered | Can delayed goods come on a route? | yes: acceptance of a tested insertion does not look at readiness |
| two_rounds | Is an earlier round closed when a later one is made? | no |
| agent_turns | For every event, with the rules, a model that names anything, or both in turn, tools that fail and the offer answered meanwhile: is the customer answered once and truthfully, is a promised call on a coordinator's list unless the hand-over itself broke, does the run end, and is it a run of AgentRun? | yes |
| counter_proposal | Is the time recorded that a refusal names ("not 11, after 1?")? | no: its tools do not include `record_availability`, although `chat_api.py:288` relies on it |
| message_turns | Three requests, retries of one message or refusal or without a key, and a crash: one turn per key, a claim never half a turn, a replay a finished turn, every request answered? | yes |
| day_windows | Two days with three booked stops, both paths, refusals, a restated time and two rounds: are promises sound, do declined times stay out, can every offer be kept? | yes |

### Environment and bounds

In Coordinator four constants say what surrounds the code, and each is open in
some run:

* `Concurrency`: "none", one request at a time; "orders", one per order; "any".
  The code enforces none of them. Its whole-row saves lose updates when two
  requests for one order overlap (for instance an offer saved after an
  acceptance), so the positive properties of booking and disruption hold under
  the restriction and are not claimed beyond it: stale_replan shows what overlap
  does, answer_races checks what survives it.
* `BookedWrite`: whether a customer who holds an appointment asks for another
  one or rejects an offer. They can, and the code then sets `OFFERED` or
  `PENDING_PLANNING` on a row with a lock. The runs booking and disruption leave
  this out, and their RowsLoad and PromiseStands claim nothing about it;
  answer_races has it and recovery_rejected shows what happens.
* `Endpoints`: what the instance exercises. Disruption has no negotiation and no
  rejection, booking no coordinator.
* `Crashes`: on in answer_races and in PlanVersions; a crash inside a rejection
  or between a readiness save and its rebuild leaves work undone, which later
  runs are to show.

`MaxOffers` and `MaxVersions` bound the tables, in the guards of `Search`,
`AcceptOffer` and `Begin` only. Two offers let one customer hold two rounds, or
two customers race for the same tested version; three answer_races offers let a
rejection be followed by another round while an older answer is in flight. Three
versions per date are the initial route, a change, and a change on top of it,
enough for a slot to become stale and for a vacated date to be republished. Two
dates are what a move touches; two booked customers make a shared stop list, and
two windows tell a moved promise from a kept one. `Alternatives` stands for the
three options of a fallback offer and is 2 or 1 where the instance has fewer
windows; only "all or none" depends on it. In PlanVersions two dates, two
contents and two threads are the least with which transactions of one and two
dates meet. New customers and threads are interchangeable, hence the symmetry
sets; runs with a liveness property use none.

agent_turns has six steps, not ten: the rules need at most six when no tool
fails, so runs end both before the limit and at it, and a model that wastes its
steps reaches it sooner, which is the case that matters. The tools of an unscoped
run are those the rules use and those a model
may be drawn to (`PlainTools`); `Stray` adds an unknown name and one tool outside
every scope but one. The theorems need neither bound.

message_turns has two requests that may be retries of each other, a third that
retries them or comes without a key, one key of each kind, two texts and one
crash: the loser of a reservation may find a winner that runs, is done, has died,
or said something else. MessageTurnProofs has no such bounds.

day_windows counts in quarters of the narrowest slot: days of 12 units, a route
that may last to 15, visits of 2 for the new customer, promises of 4 snapped to 2,
slack 1, three slots of unequal width. Two dates make an option of another day;
two stops on one and one on the other give every position of a short route; the
two promised windows leave a gap or none. Two rounds and three alternatives are
the code's caps. One restated time lets a refusal be followed by a change of mind.

### Fairness

`LockReleased` assumes weak fairness of each thread's next statement: a Python
thread that can execute goes on, and nothing in the transaction waits. Failures
and arrivals are not assumed. `DelayedLeavesRoute` assumes that a request that
has started goes on (`Fairness`), with no crash and one request at a time, and
counts an exception row or error reply as the end of the program's duty. Neither
customers nor the coordinator owe anything.

`RunEnds` assumes that the loop goes on (`WF(Running)`): it is one synchronous
call. `RequestsReturn` and `RunsAreClosed` assume it of each request's worker
thread (`WF(Handle(r))`); they allow for a crash, after which nobody resumes a
request, and a waiting retry gives up rather than wait for a dead winner.

## 4. Proofs

`PlanVersionsProofs` proves, for any sets of dates, routes and threads and from
`PlanVersionsAssumption` alone, that TypeOK, OneActivePlan, HistoryUnbroken,
CacheAgrees and InsertNeverCollides are invariants and that HistoryKept holds of
every step. None of them is inductive: COMMIT installs whatever the open
transaction has built. `Inv` adds, per statement, how far it has got:

* `Settled`: the committed tables are chains of versions whose last alone is
  active and cached (`Rows`, `Clean`);
* `Lock`: exactly the thread inside a transaction holds the write lock;
* `Progress`: for the holder, that dates other than the one in hand are clean,
  that the date in hand is clean before the supersede, `Closed` (no active
  version) before the insert, and a chain one longer before the cache is
  written, with `txNumber` the next number throughout;
* for the holder, that the transaction's copies keep every committed row,
  superseded at most.

Each action has a lemma that it preserves `Inv`; helper lemmas say what
superseding and inserting do to a chain. `Invariance` combines them, and the
theorems about the named properties follow from `Inv`.

`AgentLoopProofs` proves from `AgentAssumption`, for any step limit, any tools an
unscoped run may try and anything a model may name, that AnsweredOnce,
OutcomeTold, CallPromised and OffersFollowRecord are invariants and that every run
is a run of AgentRun (`Implementation`). The properties speak about the end of a
run; `IInv` says what holds on the way: `Unspoken`, a run has written to the
customer only by a tool after which nothing but a question's hand-off is legal;
`Noted`, what the context holds ready or ticks off has been done; `Told`, the one
message agrees with the effects; `Course` and `Within`, nothing is done before the
order is read or beyond the permission. `Legal` is the lemma about the gate that
carries the argument, `Acts` and `Tells` the two shapes a call can have; each tool
is shown to be one of them. Where a rule decides past the gate, dispatch's own
check (`Call`) is what the proof uses, so for these no fact about any decider is
needed.

CallPromised is another matter, since its words are spoken before they are true.
It allows two excuses, `HandoverBroken`: `escalate_booking` failed, or the run
raised between a support reply and it; run agent_turns breaks it without either.
The second invariant, `Handed`, says what covers the words on the way: the row,
the failure on the log, or an escalation still `Owed`. While one is owed it is all
that is legal (`OwedLegal`), so nothing is sent; a run then ends by an exception,
by the step limit, whose own row is the coordinator's, or by a decision to finish.
That decision passes the gate only when the rules stand in for a model, and they
try the escalation before they finish (`RulesEscalate`): here the order of the
rules is part of the argument.

`MessageTurnProofs` proves from `TurnAssumption`, for any requests, keys and
number of crashes, that TypeOK, OneTurnPerKey, ClaimIsWhole and ReplayShowsTurn
are invariants. OneTurnPerKey is not inductive: `Holding` adds that a claimed key
and a keyed run are the same row, `Spoken` where a request is when it has been
heard, `Once` that it is heard once; `Heard`, `Answered` and `Replayed` carry the
other two.

`DayWindowsProofs` proves from `DayAssumption` the arithmetic of `promise_window`
(`PromiseHolds`) and with it, by the invariant `Solving`, PromiseSound and, on the
solving path, DeclinedStaysOut, for any day, visit, grid and number of rounds. The
inserting path's promises are whole delivery slots, of which nothing is claimed
there.

### Publishing is atomic

`PlanRegisterProofs` proves `Spec => PublishesAtomically`. The histories change
only at COMMIT, so what has to be known there is what the open transaction has
published since BEGIN: `Pending` says, per statement, which dates have got a new
or the same route (`Touched`), and that there are at most two (`Before`,
`AfterInsert`). The mapping to the register forgets statuses and numbers; that
every history is a chain (`Inv`) makes a publication one `After` of the register.

### Appointments

The code locks neither orders nor dates, so most of Coordinator's properties are
false if requests may overlap freely. `CoordinatorProofs` has those that do not
depend on it:

* `IInv` types every row and every copy a request holds at its place (`Typed`,
  `Placed`), relates the two statuses of an offer (`Answers`), and says that
  whoever will save a rejection has claimed the offer (`Claimed`);
* AnswersFinal follows because `claim_offer_response` is a conditional UPDATE of
  a column that never returns to "sent"; TestedRouteIsPublished because an
  acceptance checks the version and publishes in one transaction;
* OpenCanBeAnswered needs `~Crashes`: a crash between the claim and the save leaves
  the stored object behind for good.

`AppointmentProofs` states what the rest needs of the environment, in terms of the
constants alone:

| Hypothesis | Says | Proved from it | Runs under it |
|---|---|---|---|
| `OnePerOrder` | one request per order, no booked customer asking again | RowsLoad, BookedNotAsked | booking, disruption |
| `OneCoordinator` | moreover a coordinator's request runs alone | PromiseStands, SentOutStays, ConfirmedNotDropped | booking, disruption |
| `NothingLost` | moreover goods are delayed only where no tested insertion is offered, and no crash under a coordinator | RoutesMatchPromises, NotReadyNotRouted (which delayed_while_offered refutes without it) | booking, disruption |
| `CustomersOnly` | `OnePerOrder`, with customers' endpoints only | KeepsAppointments | booking |

These are assumptions on the use of the system, not facts about the code:
recovery_rejected breaks the first, stale_replan the second and
delayed_while_offered the third, each with the property it costs.

The invariants build on each other. `RowInv`: every row is `Free` or `Bound`, at
most one request works on an order (`Lone`), and each copy is as free or as bound
as the row it will be saved over (`Careful`), hence a whole-row save cannot
contradict itself. `RouteInv`: a coordinator's request is `Alone` and what it has
read is `Current`, in particular a route solved is still what the rows make it
when it is published. `MatchInv`: RoutesMatchPromises itself, which is inductive
once it is known that in this environment either all goods are ready (`AllReady`)
or no offer needs a tested route (`AllUntested`). `StayInv`: with customers only,
nothing is reported and no appointment moves, which makes each acceptance a step
of Appointments and everything else a stutter, crashes included.

### The agent's types

`AgentLoopProofs!TypeCorrect` adds `Paced` to `IInv`: the step counter stays below
the limit while the loop decides or acts.

### A day's routes

`DayRoutesProofs` proves two things of DayWindows from `DayAssumption` and
`LegAssumption` (finitely many stops, whole minutes and metres, a matrix with all
their legs), on both paths, for routes of any length.

TypeOK includes that no two options share an id and that every route visits
exactly the customers promised on its date, once each. `Fitting` is its invariant:
ids are new because they exceed every id ever given or asked about
(`OptionsFit`), a slot's position exists on the route it was tested on
(`SlotsFit`), and routes stay free of repetitions when a stop is inserted or a
date re-solved (`ToursFit`, `Planned`).

OfferCanBeKept: `AllKept` says it of each slot, and needs `Fitting`. The
argument for an inserted slot compares two drives of one route: the one tested,
with the new stop unconstrained, and the one with that stop locked to its slot.
They arrive alike at every stop, because the tested arrival lies in the slot
(`WindowSwap`), so nobody is late in the second either. For a solved slot the
promise contains the arrival of the drive that `Fits` found.

`Arrivals` recurs along a route, and the library's induction theorems are out of
the provers' reach, so the proofs argue by a least counterexample: `LeastNumber`
says that a set of numbers has a least one, `ArrivalsDriven` that the recursion
has a solution (no longest prefix of a route is the last that can be driven),
`NotLater` and `KeepsTime` compare drives. Counting what lies below an element
gives a strict order on a finite set its minimum, hence ranking an option.

The theorem has one hypothesis, `SlotsInDay`: each delivery slot ends by the
cutoff. It is true of the slots in `planning/slots.py` with the default
`ARRIVAL_CUTOFF` of 21:00, and nothing checks it of another setting. It is not
an artefact of the proof: with `Cutoff = 10` and `RouteEnd = 18` in
MCDayWindows.cfg, TLC finds an inserted slot quoted at 11, which OfferCanBeKept
refuses.

### What stays with TLC

Liveness is out of the prover's reach: LockReleased, DelayedLeavesRoute, RunEnds,
RequestsReturn and RunsAreClosed are model-checked only. DeclinedStaysOut is proved
on the solving path; on the inserting path the run checks it for the dates on which
the customer has not restated a time. Every other property of a passing run has
its theorem, some under a hypothesis named above.

### Where code and text part ways

The five violation runs are listed as findings. Modelling also met the following,
which no run asks about:

* a confirmation repeated for an accepted offer writes nothing
  (`scheduling_agent.py:1071`), so the guarantee apologises to a booked customer;
* the rules' own message after a failed `create_offer` has no prepared wording,
  so dispatch refuses it and the guarantee's apology takes its place;
* "unclear" turns share their tools with `general_support`, hence its rule: they
  are always escalated;
* the promise of a call is made before the call is arranged: when saving
  `escalate_booking`'s row fails (`workflows.py:315`), or a run raises after the
  reply to a support request and before its escalation, the guarantee still sends
  the wording that promises a person, and nobody is told
  (`scheduling_agent.py:1086` sends what is prepared without looking for the row);
* `find_ready_replacements` turns an unscoped run to another customer's order;
* an order that cannot be read at the start ends the run in silence;
* a crash after the reservation leaves the run RUNNING for ever, and every retry
  of the message gives up, where `chat_api.py:160` has the key rolled back;
* two copies of a message without a key both pass the duplicate check; with a
  key, a retry past the event check may be turned away by it;
* on the inserting path a slot recorded for a date and window replaces the option
  there with its exclusions, and a restated time drops those it overlaps, so a
  time declined before may be offered again;
* no customer is to be promised an arrival after `ARRIVAL_CUTOFF`
  (`config.py:148`), but the slots of the inserting path are fixed and not clipped
  to it: with an earlier cutoff the solver rejects what was promised;
* an offered window is saved as availability, whether or not it is accepted.

## 5. Not modelled

Language understanding, prompts and providers: the models let a message be read
as anything. Policy retrieval beyond its hand-off, and the decision record, change
no booking. Geocoding, drive times and their caches decide what is feasible: a
constant in DayWindows, open elsewhere. The suggestion of other days
(`negotiation.py`) prices windows and writes nothing. Editing and deleting jobs,
demo reset, the legacy reschedule and job intake are a flow beside the
negotiation: they write the same `jobs` rows without its statuses, and no model
has both at once; an order deleted under a run is not considered. Migration runs once, before everything else.
Seeding appears as the initial states: booked customers on published routes,
others waiting.

## 6. Plan

1. `LegacyJobs`: edit, delete and reschedule beside the negotiation, for the
   stop that stays on a route and the row that cannot be read.
2. Instances for the lost acceptance (overlapping requests of one order), for
   booked customers who write in, for crashes in a rejection and a readiness
   change, and for goods delayed while a re-solved offer is open.
3. Events derived from the message: `_event_for` and which open slot a reply means.
4. Proofs: DeclinedStaysOut on the inserting path, for dates not restated;
   MissingNotRouted and RoutesMatch with a crash under a coordinator, once its
   unfinished date counts as such; what else can be said of any overlap.
5. A stronger DeclinedStaysOut for the inserting path, once what is recorded there
   keeps the exclusions it replaces.
