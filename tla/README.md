# Formal model of the aggregate twin

The aggregate twin pairs robots (*agents*) with digital-twin processes
(*instances*) and distributes missions over the pairs. Both jobs are the same
conversation: a *subject* (an agent, a mission) is offered to instances, one of
them accepts it, holds it, and gives it back. This directory models that
conversation, the two managers built on it, the loop that drives them, the
operator's console, the planner and the perception beside them, and what they
promise, in TLA+; TLC checks small instances and TLAPS proves the central facts
for all sizes.

## 1. Inventory

| Component (under `src/aggregate_twin`) | State | Operations | Talks to |
|---|---|---|---|
| `core/comm_managers/handshake_coordinator.py` | `handshakes`, `elections`, `epochs`, `request_register`, `outbox` | `request`, `elect`, `cancel`, `forget`, `route`, `tick`; hooks `on_link`, `on_release`, `on_complete`, `on_retire` | instances, through envelopes; its subclasses, through hooks |
| `core/comm_managers/link_manager.py` | linking mode, two pools, operator picks and questions | discovery, operator answers, `link`, `release`, `touch`, `sweep`, hooks | fleet registry, transport (callbacks), mission manager (`DROP_AGENT`) |
| `core/comm_managers/mission_manager.py` | missions with status and assigned agent | `add`, `remove`, `plan_and_elect`, `assign`, `cancel_mission`, `drop_agent`, hooks | fleet registry, mission planner |
| `core/fleet/fleet_registry.py`, `agent_entry.py` | pairs (two dicts), liveness of both halves, entries | `register`, `remove`, `touch_agent`, `ingest_twin_state`, queries | read by both managers and the console |
| `core/fleet/unlinked_registry.py` | a pool: payload and last heartbeat per name, in order | `register`, `remove`, `touch`, `stale_names` | link manager |
| `core/aggregate_twin.py` | inbox, command queue, step counter | `step`: drain inbox, run commands, plan, tick, sweep, link, flush; message handlers; operator surface | everything |
| `comms/aggregate_comms.py` | subscription registries | `subscribe_*`, `unsubscribe_*`, `publish_*`, `_ingest` | message bus, on its own threads |
| `gui/console_gateway.py`, `console_api.py`, `http_router.py` | none of its own; reads and pops the twin's open questions | checks on HTTP threads, commands submitted to the step thread | aggregate twin |
| `core/functions/mission_planner.py` | none | goals, scoring, the k cheapest invited, winner of a bidding round | A*, fleet |
| `core/functions/a_star_custom.py`, `grid_map.py`, `world_handler.py` | occupancy grid | path search, inflation, perception update | planner |
| `core/obstacle_registry.py`, `core/fleet/sensor_footprint.py` | observations, sensor range | merge, decay, prune | grid map |
| `core/discovery_config.py`, `gui/discovery_*.py` | configuration layers | complete a discovery or ask the operator | link manager, console |
| `gui/comm_monitor.py` | phase of every agent, counters, bounded logs | hooks around the managers' methods and the flush | console |
| `gui/*_view.py`, `gui/static/js` | none / browser state | JSON views; polling, review panel | console |
| `core_msgs` (external) | one initiator or election per conversation, one responder per instance | the handshake itself | coordinator |

Hard behaviours: answers of several instances interleave with timeouts,
cancellations and new attempts about the same subject; a pair has two halves
that die separately; the fleet changes between the award of a mission and its
confirmation; hooks may raise in the middle of a method; the operator's commands
are checked on HTTP threads and run later on the step thread; a step may be cut
short at any of its calls; envelopes may be lost and instances restart; reports
about robots arrive before, during and after the pairing that explains them.
`PROJECT.json` lists every hazard at its line.

What makes each modelled component correct: a coordinator keeps a subject in one
dict, an instance under one subject, epochs apart, and always comes to an end;
the link manager keeps fleet, conversations, pools and subscriptions in
agreement; the mission manager keeps the status of a mission in agreement with
its conversation and with the agent that drives it; the loop loses and
reorders nothing that it was given and keeps reaching the timeouts; the console
shows what is so and lets nobody wait for a question that is gone; the planner
plans a way that can be driven, and a cheapest one; the map holds what is
reported and nothing else; a completed announcement says what its sources say.

## 2. Plan

Done, in this order:

1. `Handshake`, `HandshakeCoordinator`, `Responders`, composed by
   `CoordinatorSystem` (the harness of `test_handshake_coordinator.py`).
2. `LinkManager` (the coordinator plus pools and fleet) and the abstract
   `Pairing` it implements.
3. `MissionManager`.
4. `AggregateTwin`: the loop, its queues and budgets, every exception that may
   cut it short, and the outboxes.
5. `Console`: the link manager behind a gateway that checks on one thread and
   commands on another, with the phases `CommMonitor` shows.
6. The algorithms: `GridMap`, `AStar`, `MissionPlanner`; `SensorFootprint`,
   `Perception`; `Discovery`.
7. Proofs: `CoordinatorLemmas`, `CoordinatorProofs`, `LinkManagerProofs`,
   `MissionManagerProofs`, `MissionPlannerProofs`, `PerceptionProofs`,
   `AggregateTwinProofs`, `DiscoveryProofs`.

Left:

8. The loop with the managers inside: the state space is the product of theirs
   and beyond TLC, so this is work for the prover, by showing that each phase of
   `AggregateTwin` is a step of `LinkManager` and `MissionManager` or a stutter.
9. Smoothing of paths.

## 3. Modules

| Module | Models | State |
|---|---|---|
| `Handshake` | `core_msgs`: initiator and election as records, their answers and timeouts as operators. External: inferred from the calls in `handshake_coordinator.py` and the assertions of its tests | none |
| `HandshakeCoordinator` | the base class | `handshakes`, `elections`, `epochs`, `cooling`, `net` |
| `Responders` | instances and bus (external) | `inst`, `uplink` |
| `CoordinatorSystem` | coordinator with empty hooks, plus responders | the above |
| `LinkManager` | `link_manager.py`, both pools, the fleet's routing dicts and liveness | `mode`, `waiting`, `pooled`, `joined`, `choice`, `questions`, `instanceOf`, `agentOf`, `stale`, `subscribed` |
| `Pairing` | what the link manager promises (abstract) | `pairs` |
| `MissionManager` | `mission_manager.py` | `status`, `assigned`, and `agentOf` of the fleet |
| `AggregateTwin` | `step()` and `_step` of `aggregate_twin.py`, `_flush`, ingestion | `inbox`, `commands`, `connected`, `linkOutbox`, `missionOutbox`, `published`, `simStep`, `phase`, `budget` |
| `Console` | `console_gateway.py` and the commands it submits, `_handle_discovery`, the phases of `comm_monitor.py`, around `LinkManager` | `autocomplete`, `reviews`, `handling`, `commands`, `phase`, and all of `LinkManager` |
| `Discovery` | `discovery_config.py`, `discovery_resolver.py`, `discovery_validation.py` | `config`, `layers`, `message`, `autocomplete` |
| `GridMap` | cells, clearance, risk and cost of `grid_map.py` | none |
| `AStar` | the query and the search of `a_star_custom.py` | `query`, `frontier`, `closed`, `g`, `parent`, `outcome` |
| `MissionPlanner` | `mission_planner.py` around `AStar` | `world`, `pending`, `candidates`, `scored`, `offers`, `awards`, `stage` |
| `SensorFootprint` | `sensor_footprint.py` | none |
| `Perception` | obstacle reports, `obstacle_registry.py`, markers and footprints of the fleet, the perceived layer of the map | `instanceOf`, `agentNamed`, `pose`, `hull`, `reports`, `perceived`, `fixes`, `now` |
| `MC*` | values and symmetry sets for TLC | |
| `*Lemmas`, `*Proofs` | proofs | |

`HandshakeCoordinator` is extended by `Responders`, that by `CoordinatorSystem`,
`LinkManager` and `MissionManager`; `Console` extends `LinkManager`;
`MissionPlanner` extends `AStar`, which extends `GridMap`; `Perception` extends
`GridMap` and `SensorFootprint`. `AggregateTwin` and `Discovery` stand alone.

### Coordinator and managers

* `handshakes[s]` and `elections[s]` are the values of the two dicts; absence is
  `NoInitiator` / `NoElection`. `epochs[s]` is 0 when the key is missing.
  `cooling` holds the keys of `request_register` younger than twenty seconds.
* `net[s, i]` is what the aggregate has sent to instance `i` about subject `s`
  and `i` has not read. A conversation stays in order; different conversations
  overtake each other. A broadcast is one envelope per instance. A repeat of the
  last envelope still under way is merged with it: the responder answers a
  repeated envelope with the same state change. Here the outbox is flushed with
  the action that fills it; what happens between is the subject of
  `AggregateTwin`.
* `uplink[i]` is what `i` published and `route()` has not seen, in order.
* A method is first an *effect* on one subject (`RouteEffects`, `TickEffects`,
  `CancelEffect`): the initiator and election it leaves, the envelopes it
  appends and the hook it calls. `Perform` commits the effect and retires a
  finished initiator; `Interrupted` is the same when the hook raised. The
  managers conjoin the hook: `LinkManager!Conclude`, `MissionManager!Conclude`.
* Timeouts are a `Tick` that may come at any moment: every deadline of the code
  may pass between any two messages.
* `stale` holds the registry entries not refreshed for longer than their
  timeout; `GoesQuiet` adds one at any moment, heartbeats and twin state remove
  it. `joined` is the order of the two pool dicts (`free[0]` depends on it).
  `waiting[a] = "incomplete"` is a pool entry whose payload is `None`.
* Leaving the fleet is one step (`Unregister`): `fleet.remove` also takes the agent's
  `agent_id` out of its table and would raise if another agent had the same one
  (`fleet_registry.py:113`). Different agents are taken to have different ids.
* `subscribed` is the trace of SUB and UNSUB callbacks; whether the transport
  honours them is not modelled.
* In `MissionManager` the fleet is only its pairing; `Unpair` includes the
  `DROP_AGENT` callback, which is the whole interaction between the managers.

### The loop

* `phase` is where the step thread stands: one action per message, per command,
  per call of `_step` and per flush. Between two actions the transport threads
  (`Ingest`), the HTTP threads (`SubmitCommand`) and start-up (`SetupTransport`)
  move.
* What a manager decides is left open: a phase appends an envelope or none, or
  raises. Envelopes carry the number in which they were appended, so order and
  loss are visible in `published`.
* `Flush` has the code's two outcomes: both outboxes published and cleared, or a
  publish that raises after some of the envelopes, which clears the link outbox
  only if it was through with it.
* The flush in `_drain_inbox` is outside the `try`, so it ends the step; the one
  in a command is inside and ends the command.
* `simStep` is folded at the product of the two periods; the first step plans
  whatever the period.

### The console

* A request on an HTTP thread is one action where the gateway checks and one
  where it pops and submits (`ReadReview`, then `Submit` or `Refuse`); links,
  releases and mode changes check and submit at once. The step thread runs the
  command later (`RunApprove`, `RunReject`, `RunChoose`, `RunRelease`,
  `RunMode`), without looking again.
* `reviews[t]` is what thread `t` has read. `commands` is the queue the step
  thread takes from.
* The flag of auto-completion is shared by the threads. `SetAutocomplete` writes it
  and `ListQuestions` takes the questions open by then; `CheckDiscovery` reads it for
  an announcement (`handling`) and `HandleDiscovery` asks the operator or does not,
  by what it read. Both pairs interleave. While an announcement is handled the step
  thread does nothing else (`StepThread`); instances, bus and clocks go on
  (`Outside`).
* The operator may choose any of the four modes, AUCTION included: releases of
  agents that were never linked then cut hooks short, and the phases have to follow.
* `phase[a]` is `CommMonitor`'s. Its hooks run around the managers' methods:
  `Concluded` asks the fleet, after `on_link`, whether the link was accepted, and
  marks `released` before `on_release`. `requested` is seen at the flush.

### Planner and search

* `Limit` grows a set until it stops growing: `Region` grows a free region from a
  cell by its neighbours, `Relaxation` (the reference of the search, not code)
  grows a table of costs until no step improves it.
* Lengths are in thousandths of a cell. A diagonal step is charged rounded up and
  the heuristic rounds down, so rounding never makes it overestimate; weights,
  energy and times are small integers. A cell costs what distance, uncertainty and risk
  make of it, as `grid_map.cost_layers` does.
* `Bind` is what the constructor of a query derives from map and robot;
  `Objection` is `_validate`; one `Expand` is one turn of the loop with all its
  neighbours. A node of the frontier that was settled in between is skipped, as
  in the code.
* `NextMission`, `PlanFor`, `Score` and `Offer` are the nested loops of
  `assign_and_plan`; a mission that tracks a live vehicle raises and the pass is
  lost. `Award` is `get_winner` over any bids; its rating is brought over the product
  of the two spreads of `_norm`, so that nothing is rounded. A bid says all three
  figures or nothing: one with a time and a margin but no `battery_bidding` makes
  `get_winner` raise (`mission_planner.py:77`, `:80`), which `PlannerAssumption` rules
  out.

### Perception

* Positions are in quarters of a cell, headings are quarter turns, so hulls and
  discs are exact. `HandleObstacle` is the whole handler: footprint first, then a
  position fix for a robot of the fleet or an entry of the registry for
  anybody else. `UpdatePerception` prunes and replaces the perceived layer.
* `Register` and `RemoveAgent` are the two calls with which the link manager
  changes the fleet, at any moment between two reports.

### Discovery

* A value is its JSON type and its content by key. `MergeLayers` is the merge
  behind auto-completion, `Candidate` the one behind each choice the operator is
  offered; both go through OmegaConf's merge, which is `Over`.
* A second announcement of an agent replaces the open question; the answer that
  follows may be to the first. `ResolveDiscovery` takes any choice for every
  field.

Operators marked "Variant" are deliberately wrong versions of the definition
that follows them. No action uses them; they show that each checked property
would notice a plausible bug.

## 4. Runs

| Run | Instance | Question |
|---|---|---|
| `MCCoordinatorPairs` | 2 subjects, 2 instances, one attempt each, nothing lost | one subject per receiver, the two sides agree, no orphaned holder |
| `MCCoordinatorAttempts` | 1 subject, 2 instances, 2 attempts, completion leg; loss, restarts, lapses | one dict; epochs; a held subject is not dropped |
| `MCLinkPairs` | 2 agents, 1 instance, one node goes quiet; fairness | fleet and conversations agree; healthy pairs stay, dead ones go; the fleet implements `Pairing` |
| `MCLinkOperator` | 1 agent lacking configuration, 1 instance; GUI, POOLED, AUCTION; loss, restarts; two upsets | types; linked instances are not on offer; picks |
| `MCMissionFleet` | 2 missions, 2 instances, 1 agent | status agrees with conversation; one mission per agent; the operator's verdict |
| `MCMissionFaults` | 1 mission, 2 instances, 2 agents; loss, restarts, lapses, fairness | every round, request, award, release and BIDDING ends |
| `MCMissionPlanner` | 3 agents of 2 sizes, 2 passes, 7 x 6 cells, up to two obstacles anywhere in the middle, 2 camera coverages | ways can be driven and are cheapest; refusals are right; the cheapest are invited, and for every mission that can be done; awards respect the mission and no better bid is passed over |
| `MCPerception` | 2 agents, 2 instances, 3 things to see, 4 reports; fairness | robots of the fleet are not obstacles; the map forgets once the reports stop; footprints, at the cap too |
| `MCAggregateTwin` | 2 messages (one without a handler), 1 command, 3 envelopes, 1 exception besides those of planning; fairness | nothing lost or overtaken; queues and ticks move |
| `MCConsole` | 1 agent, 1 instance, 2 HTTP threads, 3 commands, 1 upset; GUI and AUCTION | reviews stay open; the linked are not pooled; phases are true |
| `MCDiscovery` | 2 fields, 3 files of 5 contents, 3 reports, any answer | the default answer is the automatic one; approved is what is offered |
| `MCMissionDropped` | 1 mission, 1 instance, 1 agent | refuted: see section 6 |

Every property of a passing run has a mutant in `PROJECT.json`: a plausible bug
("Variant") under which the same run fails.

Bounds. `MaxEpoch` bounds the attempts per subject: 1 suffices where the
question is about competition between subjects, 2 where it is about what an
attempt leaves behind. (A subject that is forgotten starts over, so cycles of
eviction and return are not cut off.) `MaxTries` bounds the CANCELs sent again
before a release is given up on (0: at the first timeout). `MaxUpsets` bounds how
often an entry goes quiet or a question is refused; the ghost counter `upsets`
implements it. Two competitors are enough for every exclusion property here, as
each relates two subjects and one instance. `MaxCommands` bounds the operator's
commands: three let a verdict, a competing verdict and a command that invalidates
both overlap. `MaxEnvelopes` and `MaxFaults` let an outbox of several envelopes
be cut by one failed publish. `MaxDetections` and `MaxTime` let a report of
every thing be made, two of them at different times, age and be pruned: no report is
handled that could not grow too old before the clock stops. With `MaxVertices` four,
the four points an agent may see and its own centre make a hull of five, of which
the cap drops one. `LinkingModes` of `MCConsole` are the mode of the operator's
picks and the one with releases of the never-linked; the theorems about the console
are for any set of modes.
The grid is the smallest with a detour on both sides of an obstacle, a passage
the wide robot does not fit and a corner to cut. Deadlock is not checked where
such a bound may use up the moves (all runs but `MCAggregateTwin` and
`MCDiscovery`, which check it).

`OneSubjectPerReceiver`, `NoOrphanHolder`, `ConfirmedIsHeld`, `ConfirmedIsLinked`,
`ReviewsAreOpen`, `LinkedIsNotPooled` and `OneMissionPerAgent` are checked on a bus
that delivers everything and with instances that do not restart. Losses and
restarts break the first three (restarts alone leave `NoOrphanHolder` true, as is
proved); what happens then is in section 6. The last four are proved with losses and
restarts (`ConfirmedIsLinked` where the run checks it: no POOLED mode, complete
announcements).

Fairness. `FairSpec` of the managers assumes only that `tick()` (and in
`LinkManager`, `sweep()`) keeps running: `step()` is driven by a timer, catches
its own exceptions, and deadlines are real time. Neither messages nor instances
are assumed fair: every liveness property holds although nothing is ever
delivered. `AggregateTwin!FairSpec` assumes only that the step thread keeps
running (`create_timer`, and the `try` around `_step`); that this is enough for
`tick()` to keep being reached is `TicksGoOn`, which is what makes the managers'
fairness a consequence: exceptions outside planning are finitely many there, and
those of planning may come on every pass, as planning is not due on every step.
`Perception!FairSpec` assumes that time passes and that the layer is rebuilt again
and again: `_step` does it every `perception_period` steps, before planning and the
hooks, which are what is known to raise. That the reports stop is what
`MaxDetections` means there: an obstacle that is reported for ever stays on the map.

## 5. Proofs

All theorems hold for every set of subjects, instances, agents, threads and
cells, finite or not (one planning pass has a finite fleet and a finite grid), and
every bound. The two of `CoordinatorProofs` about pledges assume `Reliable`, the one
about orphans assumes that nothing is lost, and those of `LinkManagerProofs` about what the fleet
and the coordinator agree on assume `Directed`; all others hold with and without
losses, lapses and restarts.

`CoordinatorLemmas` states what each helper and method preserves in terms of
the coordinator's and the responders' variables only, and what a conversation
tells its owner (`Tells`): a quiet step leaves a held subject where it is, a
LINK comes from a conversation nobody held, a RELEASE names the holder, only a
confirmed subject completes. Its last part says who is engaged (`Counted`): a step
about one conversation engages nobody new (`Narrows`), so conversations that were
`Apart` stay apart, and only an opening can bring a receiver in. The proof modules
of the coordinator and the managers cite these lemmas.

`CoordinatorProofs`: `TypeCorrect` (`Spec => []TypeOK`; the type of an initiator
says that whoever was awarded, holds or gives back a subject is named, which is
what makes every envelope well formed) and `OneDictHolds` (`Spec => []OneDict`).
The inductive invariant is their conjunction. Neither is inductive alone: the
types of what `route()` and `tick()` send need the receiver's name, and that an
effect leaves one dict empty needs that the other was empty before.
`FreshAttemptsHolds` (`Spec => FreshAttempts`) needs more: `Covered`, that the
epoch of a subject is at least that of its conversations, of every envelope about
it in either direction, and of every instance that holds it, since a holder may
speak up at any time. Every step keeps it (`NextCovers`), and only `request()` and
`elect()` open a conversation, with the epoch after it (`OpensNext`).
`HeldUntilLetGoHolds` (`Spec => HeldUntilLetGo`) uses from `Covered` that an
envelope on the line of an instance was written by that instance.

Pledges, in the same module: `OneSubjectHolds` (`Reliable => (Spec => []OneSubjectPerReceiver)`)
and `ConfirmedHeldHolds` (the same for `ConfirmedIsHeld`). `Reliable` leaves out
losses, restarts, and reservations that lapse while their round is still open;
with a lost envelope both fail (section 6). Neither property is inductive: whether
two subjects can come to share an instance depends on what the instance has
agreed to and on every word of it that is still unread. The invariant `PledgeInv`
therefore reads the uplink of an instance as a chain: position 0 is what the
aggregate claims, the next ones are the unread words, and the far end is what the
instance holds or has reserved.

* `Exclusive`: between the pledges of an instance to two subjects (a claim, an
  unread ACK or BID) stands a word that takes the first one back.
* `Backed`: a pledge is still good at the far end of the chain, or taken back
  further on.
* `Lawful`: what can be under way at each stage of an attempt, in both directions.
  It rests on `Ordered` (nothing older is behind an opening) and on `CalledOnce`.
* `OnePledge` and `Conversation`: an instance promises itself once, and both dicts
  speak of the current epoch.

An instance only touches the far end of the chain (`ReceiveGood`, `AnnounceGood`,
`LapseGood`); the aggregate only the near end, and `Follows` says how a conversation
may move on there (`RouteGood`, `TickGood`, `CancelGood`). An opening starts with a
chain that says nothing about it, because its epoch is above everything
`Covered` speaks of (`OpensGood`).

Orphans: `NoOrphanHolds` (`~Lossy => (Spec => []NoOrphanHolder)`) uses the same
views, with an invariant of its own: restarts and lapses, which break `PledgeInv`,
are allowed. What it says of the quiet states follows from what `HolderInv` says of
all:

* `Accounted`: whoever holds a subject is confirmed by the aggregate in the current
  attempt, or his ACK is unread, or a CANCEL or COMPLETE_ACK that covers what he
  holds is on its way to him. The last disjunct is where the answers to words nobody
  waits for count (`LetGo` of the initiator, `OrphanReply` of the coordinator).
* `Wire`: an attempt grants its subject to an instance once, and never behind the
  CANCEL that takes it back (`GrantFirst`); who holds it, or has said ACK or REVOKE,
  meets no further grant; a bidder was granted nothing; and while the aggregate is
  releasing an instance that may hold the subject, a CANCEL is on its way to it.
* `Undecided`: a round that is open waits for somebody.

The instances keep it because they obey (`ReadsObey`: a subject is taken only with
a grant, and a CANCEL of the same attempt or a later one is obeyed). The aggregate
keeps it because each method, whatever it decides, minds its conversation
(`Minds`), dismisses the holder it stops counting on (`Dismisses`) and heeds the ACK
it took off the bus (`Heeds`); `RouteMinds`, `TickMinds` and `CancelMinds` show this
of the three methods, and `BecomesAccounts` that nothing else is needed.

`LinkManagerProofs`: `TypeCorrect`, `OneToOneHolds`, `LinkedIsEngagedHolds`,
`LinkedNotOfferedHolds` and `Refinement` (`Spec => Pairs!Spec`, the abstract
`Pairing`). The inductive invariant joins all of them with `OneDict`.
`LinkedIsEngaged` carries it: because a linked agent's conversation is confirmed
or being released, a LINK can only be about an agent that is not linked, and a
RELEASE names the partner the fleet has. `LinkPassKeeps` shows once, for all four
modes, that matching leaves everybody in flight alone; `FleetSteps` classifies
every step by what it does to the fleet, and the refinement follows from it.

`ConfirmedIsLinkedHolds` (`Directed => (Spec => []ConfirmedIsLinked)`) says that,
whatever is lost or restarts, nobody is confirmed without being linked to the
instance that confirmed; together with `LinkedIsEngaged` the fleet and the
coordinator agree exactly. `LinkInv` adds to the invariant above that everybody in
flight is with one instance (`InLine`), that no two conversations count the same
instance, and that whoever is on offer is not in flight (`FromPool`): `link()` takes
an instance from the pool for every request it sends, so an instance that confirms
cannot be another agent's. With it, `HealthyPairsKeptHolds` (`Directed => (Spec =>
HealthyPairsKept)`, an action property) follows: a confirmed agent waits in no pool
and its instance is on no offer, so of the three reasons `sweep()` has to withdraw
only the silence of a half in the fleet is left, and no other step cancels a
confirmed conversation. `Directed` is the condition that makes the last step sound:
a POOLED request goes to all instances, and an agent that is incomplete is pooled
without a look at whether it is linked. Both really break the properties (section
6).

`PicksAreHonouredHolds` (`Spec => PicksAreHonoured`) needs type correctness only:
`PassHonours` follows the one pass that takes picks off the list, and every other
step keeps them. The run has one instance, so the case that a later click replaces
a pick by another instance is in the theorem alone.

`MissionManagerProofs`: `TypeCorrect`, `BiddingIsUnderWayHolds`,
`ActiveIsConfirmedHolds`, `PendingIsNobodysHolds` and `CancelHolds`
(`Spec => CancelIsFinal`, an action property). Two facts are added to make the
invariant inductive: the conversation of a cancelled mission is gone or being
cancelled (`CancelledIsOver`), and a mission not yet added has no agent.
`ConcludedAgrees` is the heart: whatever effect `route()` or `tick()` may hand to
the hooks, the status after the hooks agrees with what is left of the
conversation. `OneMissionHolds` (`Spec => []OneMissionPerAgent`, with losses,
lapses and restarts) needs that an agent is engaged by one mission at a time:
the conversations are `Apart`, an ACTIVE mission's agent is the one it is confirmed
with (`Driven`), and the candidates of an election, which may overlap, do not count.

The console, in `LinkManagerProofs`: `ReviewsAreOpenHolds`, `LinkedIsNotPooledHolds`,
`PhasesAreTrueHolds` and `ConsoleIsHarmless`, for any number of threads, queued
commands and agents, in any linking modes, AUCTION included, and wherever the
threads meet.
The invariant `ConsoleInv` joins the link manager's with the types of what the
HTTP threads hold and queue, `PhasesAreTrue`, and `IncompleteIsIdle`: an agent
that waits for the operator has neither conversation nor partner unless one was
found when its question was raised. The last theorem says that a command which
runs when what was checked is over does the link manager no harm: `OneDict`,
`OneToOne`, `LinkedIsEngaged` and `LinkedNotOffered` hold of the manager behind
the console as well.

`MissionPlannerProofs` proves all four properties of the planner, for every map,
fleet, pass and bid. `WaysAreClearHolds` (`Spec => []WaysAreClear`): the invariant
`WaysInv` says that parents are settled cells and that a settled cell's costs do
not change, so the costs along a way keep adding up while the search goes on.
`SearchIsRightHolds` (a way that is found is a cheapest one, a refusal is right)
and `TheCheapestAreInvitedHolds` and `AwardsAreFairHolds` follow from
`PlannerInv`, which joins

* `PassInv`: where the pass stands, and that the search that runs is the one for the
  first candidate and the first mission;
* `SearchRuns` (around `SearchInv`): an unsettled cell that is reached is in the
  heap, a settled cell has passed on its cost, and its own is that of the cheapest
  way, up to the inflation. The first open cell on any way is then in the heap with
  no more than that way costs (`SomeOpenCellIsOnTheWay`), so the cell taken next is
  right, because the heuristic is consistent: a step is charged rounded up, the
  estimate rounds down, and no step changes the estimate by more than it costs
  (proved in integers, rounding included);
* `ScoresInv`: each agent is still to be planned for, or scored, once, at the least
  cost, if it is able; `OffersInv`: an offer is made to the cheapest of those;
* `GivenInv`: unless the pass is lost, a mission of it is still to be planned, or has
  no goal, or nobody can do it, or somebody was invited (`SomebodyIsInvited`);
* `AwardsInv`: elections are decided after the pass, by the rating of the bids. A bid
  as good in all three figures and better in one that counts is rated strictly
  better (`BetterBidsRateBetter`).

Costs of ways are a least family closed under one more step (`WayCosts`) and not a
recursion along a path, and the induction is on a least element: the library's
theorem on the strict subsets of a finite set takes no operator, and it gives
`FiniteMinimal` and `LeastNatural`. The regions of the map and the reference of
the search are the last of a growing series (`Limit`, a recursive function):
`Orbit`, `SomethingRepeats` and `LimitIsTheEnd` show that the series ends where
nothing more is added, because the cells are finitely many.

`PerceptionProofs`: `RobotsAreNotObstaclesHolds` (`Spec => RobotsAreNotObstacles`).
The invariant `MarkersAreTheFleet` says that the registry's
table of markers has the markers of the linked agents, each under its own, and no
other; it needs that no two robots bear one marker (`MarkersAssumption`), which
the code takes for granted: with two, `remove` raises.

`AggregateTwinProofs`: `PublishedInOrderHolds` (`Spec => []PublishedInOrder`) and
`NothingIsLostHolds` (`Spec => NothingIsLost`), for any number of messages, commands,
addressees, envelopes and exceptions. The invariant `LoopInv` says that an outbox
holds envelopes in the order they were appended and none from the future
(`InSequence`), that whatever precedes a published envelope in its conversation is
published before it, also while it still waits in an outbox (`InOrder`), and that
nothing published waits in an outbox unless there was a fault (`SentOnce`). What a
flush publishes is a beginning of `Deliverable`, which continues every conversation
where it stopped (`DeliverableIs`), wherever the exception cuts it (`PublishKeeps`).
After a fault the outbox is sent again from its start: that is why the invariant
speaks of the first time an envelope is published. What `Addressed` leaves of an
outbox (`AddressedIs`: the envelopes with a target, in order) is shown by a least
counterexample along its recursion.

`DiscoveryProofs`: `PreselectedIsMergedHolds` (`Spec => []PreselectedIsMerged`) and
`ApprovedAsOfferedHolds` (`Spec => ApprovedAsOffered`). The invariant `DiscoveryInv`
says what the layers of an open question may hold: values of the type the field has,
`null` or nothing in the files, no `null` in the report (`structured` turns it into
nothing), and an identity in the report. The merge is written out as a chain over
the four layers (`MergedIs`). Below the highest layer that has a value the chain of
the resolver, which takes objects only, and that of `merge_layers`, which takes
everything, agree step by step, because where the field is an object everything
else says nothing (`HighestIsMerged`); an object gathers one layer more at every step
(`GathersMore`). That all layers give a field values of one type is an assumption
(`DiscoveryAssumption`): nothing checks the files before they are merged.

Assumptions: `LoopAssumption`, `DiscoveryAssumption`, `HandshakeAssumption`,
`CoordinatorAssumption`, `RespondersAssumption`, `ModesAssumption`,
`LinkManagerAssumption`, `MissionAssumption`, `ConsoleAssumption`,
`PerceptionAssumption`, `MarkersAssumption`, `PlannerAssumption` and those of the
grid: the names of nodes and `None` are distinct, agents are not instances, only
missions have a completion leg, bounds are numbers, the fleet of a planning pass is
finite, no weight of a posture is negative (the table of postures in `core_msgs` is
external), and a discovery field has one type in all its layers.

Model-checked only: liveness (fairness and ENABLED are out of the prover's reach;
`MapForgets` is of this kind), and `FootprintsGrow`, which rests on Andrew's chain
building the convex hull: a fold over sorted points and products of coordinates, of
which no proof was attempted.
The invariants about pledges and orphans do not carry over to the managers: they
forget epochs of evicted agents, which `Covered` rules out.

## 6. Where code and comments disagree

`MCMissionDropped` is kept as a run. `drop_agent` looks for missions by
`assigned_ugv`, which is only set at `on_link` (`mission_manager.py:118`), so the
mission that is awarded and not confirmed is missed when "the agent lost its
instance, so it takes its missions with it" (`:116`): the confirmation arrives
and the mission becomes ACTIVE on nobody.

Observations made with the same modules, which no run is kept for:

Handshakes and pairs

* `on_agent_incomplete` pools an agent without a look at whether it is linked
  (`link_manager.py:95`; the comment on the confirm path, `:121`, says that must
  not happen). Its pool entry ages, and the sweep cancels the healthy pair.
* `_abandon_agent` forgets the epoch of an agent while envelopes about it are
  under way (`link_manager.py:323`): an eviction during a handshake lets the next
  attempt use the same epoch. (`CoordinatorSystem` never forgets, hence
  `FreshAttemptsHolds`.)
* `on_release` looks an instance name up in `stale_instances()`, which returns
  agent names (`link_manager.py:248`): the dead instance is pooled again.
* With a lost envelope `OneSubjectPerReceiver` fails: one receiver is committed
  to two subjects while the release of the first is still unacknowledged. With
  POOLED among the modes, `on_link` may refuse a confirmation because the fleet
  still has the instance with another agent, even if nothing is lost: an eviction
  forgets the epoch while envelopes are under way, the next attempt uses it again,
  an old CANCEL frees the linked instance, and another agent's broadcast takes it.
  The refused agent stays confirmed without being in the fleet, where neither
  `link()` nor `sweep()` looks at it. (Without POOLED and with complete
  announcements that is impossible: `ConfirmedIsLinkedHolds`.)
* In AUCTION mode an award nobody confirms is withdrawn and then released although
  the agent was never linked: `fleet.remove` raises (`result.id` of `None`), the
  finished handshake stays until the next tick, the rest of the step is lost.
* A pick of the operator is consumed although the request is refused by the
  cooldown (the case `PicksAreHonoured` has to allow), and an agent on cooldown
  with the first free instance is offered no other one.

Missions and planner

* `drop_agent` makes finished and cancelled missions of the agent PENDING again,
  so they are executed once more (the exception in `CancelIsFinal`). `remove()`
  of a mission has no caller.
* A mission that tracks a live vehicle raises in every planning pass
  (`mission_planner.py:157`), and with it every mission of that pass and the rest
  of that step. Patrols are accepted and never planned.
* An agent in the goal's own cell is not eligible: its plan has one waypoint, and
  `PlanResult.feasible` wants two. An agent is invited for several missions of
  one pass.
* A search binds its layers when it starts, but is validated against the map's
  own regions, which may have been replaced by then.

Console

* An approval that meets the handshake of its agent is dropped, and its question
  with it; a rejection that meets one sets the phase to rejected although the
  link goes on, and forgets the epoch.
* Two HTTP threads may both read a question before either pops it, and submit two
  verdicts ("a second click cannot submit it twice", `console_gateway.py:116`).
* A pick queued behind a mode change stays, outside GUI mode
  ("a pick only means something in GUI mode", `link_manager.py:150`).
* An approved agent that is evicted before the command runs is pooled again,
  without a subscription.
* Switching auto-completion on while an announcement is being handled may leave
  its question open. Two missions with the same id pass the check while both are
  queued; ids made of the time can collide. Re-planning calls a method the twin
  does not have.
* `CommMonitor._on_discovery` compares the message with a source, so it never
  counts agents; `_on_heartbeat` takes its arguments in the other order; envelopes
  are counted before they are published. HTTP threads iterate over dicts the step
  thread changes.

Loop and transport

* A publish that fails sends the envelopes before it again with the next flush
  (the exception in `PublishedInOrder`), and in `_drain_inbox` it ends the step.
* The timer starts before the transport is set up; until then nothing leaves the
  outboxes.
* `unsubscribe_agent` pops the wrong dict (`aggregate_comms.py:156`), and
  `unsubscribe_instance` forgets topics whose callbacks remain, so an instance
  that returns is subscribed twice.

Perception

* Comments in `grid_map.py` (`:386`, `:409`) claim that a cell is blocked as soon as
  an obstacle touches it: a disc that reaches into the corner of a cell leaves it
  free, and a polygon so thin that no centre of a cell lies within blocks nothing.
* A report that was under way when its reporter was paired anew is attributed to
  the new agent; an agent that sees its own marker reports itself as an obstacle.
* Until the first twin state an entry stands at a default pose, and its footprint
  grows by where the robot really is.
* Obstacles that do not move are pruned like others when they are out of sight
  for five seconds. A footprint that reaches its cap may lose the robot's centre.

Discovery

* A configuration that says null of a field a lower layer fills: the merge takes
  the null, the resolver what is below (the exception in `PreselectedIsMerged`).
  Identity fields a configuration fills are used by the merge only.
* The answer to a question that was replaced meanwhile is looked up in the new
  one: values of the new announcement are approved by an operator who saw the old
  one.

## 7. Not modelled

Payloads, routes, wording and logging. Wall clock against simulation clock
(staleness may come at any moment, which covers both). The console of missions:
its commands run as actions of `MissionManager`. `autocomplete` is constant in
`LinkManager` (`Underspecified`) and changes in `Console` and `Discovery`. Removed
mission ids are not used again. Smoothing and rendering of paths, image and world
files. The dicts of topics in `aggregate_comms.py`: what a second registration
means is decided in the external library. Labels and the validation rules no
field has. Views, routing of HTTP requests, browser scripts, logging and start-up
keep no state that a property could be about.
