----------------------------- MODULE LinkManager -----------------------------
(***************************************************************************)
(* link_manager.py: which agent is paired with which instance.  The class  *)
(* is a HandshakeCoordinator whose subjects are agents; around it sit the  *)
(* two pools of unlinked nodes (unlinked_registry.py) and the fleet        *)
(* registry with the pairs (fleet_registry.py), modelled here as far as    *)
(* linking uses them.                                                      *)
(*                                                                         *)
(* The clocks are abstracted to what they decide: `stale` holds the        *)
(* registry entries that have not been refreshed for longer than their     *)
(* timeout.  Callbacks into the transport leave their trace in             *)
(* `subscribed`.                                                           *)
(***************************************************************************)
EXTENDS Responders

CONSTANTS
    LinkingModes,       \* the modes the operator uses
    InstanceDiscovery,  \* instances announce themselves
    Underspecified,     \* agents whose announcement lacks configuration
    MaxUpsets           \* bound on entries going quiet and questions refused

Modes == {"POOLED", "FIRST_FREE", "GUI", "AUCTION"}

ASSUME LinkManagerAssumption ==
    /\ LinkingModes \subseteq Modes
    /\ InstanceDiscovery \in BOOLEAN
    /\ ~InstanceDiscovery => LinkingModes \subseteq {"POOLED"}
    /\ Underspecified \subseteq Subject
    /\ MaxUpsets \in Nat
    /\ Subject \cap Instance = {}
    /\ ~CompletionLeg

VARIABLES
    mode,           \* linking_mode
    waiting,        \* unlinked_agents: agent -> what is known about it
    pooled,         \* unlinked_instances
    joined,         \* <<m, n>>: m joined its pool before n (the dict order)
    choice,         \* instance_choice, the operator's picks
    questions,      \* discoveries_gui
    instanceOf,     \* fleet: agent -> instance
    agentOf,        \* fleet: instance -> agent
    stale,          \* <<registry, name>> entries past their timeout
    subscribed,     \* names the transport listens to
    upsets          \* counts what MaxUpsets bounds, nothing reads it

poolVars == <<waiting, pooled, joined, stale, subscribed>>
guiVars == <<mode, choice, questions>>
fleetVars == <<instanceOf, agentOf>>
domainVars == <<poolVars, guiVars, fleetVars, upsets>>
vars == <<coordVars, responderVars, domainVars>>

Node == Subject \cup Instance

DomainTypeOK ==
    /\ mode \in Modes
    /\ waiting \in [Subject -> {"absent", "incomplete", "ready"}]
    /\ pooled \in SUBSET Instance
    /\ joined \in SUBSET (Node \X Node)
    /\ choice \in [Subject -> Instance \cup {None}]
    /\ questions \in SUBSET Subject
    /\ instanceOf \in [Subject -> Instance \cup {None}]
    /\ agentOf \in [Instance -> Subject \cup {None}]
    /\ stale \in SUBSET ({"pool", "fleet"} \X Node)
    /\ subscribed \in SUBSET Node
    /\ upsets \in 0 .. MaxUpsets

TypeOK == CoordTypeOK /\ RespondersTypeOK /\ DomainTypeOK

Init ==
    /\ CoordInit /\ RespondersInit
    /\ mode \in LinkingModes
    /\ waiting = [a \in Subject |-> "absent"]
    /\ pooled = {} /\ joined = {} /\ stale = {} /\ subscribed = {} /\ questions = {}
    /\ choice = [a \in Subject |-> None]
    /\ instanceOf = [a \in Subject |-> None]
    /\ agentOf = [i \in Instance |-> None]
    /\ upsets = 0

-----------------------------------------------------------------------------
(* The pools                                                               *)

InPool(n) == IF n \in Subject THEN waiting[n] # "absent" ELSE n \in pooled

\* UnlinkedRegistry is a dict: a new name goes last, a known one keeps its place.
Join(n, order) ==
    IF InPool(n) THEN order
    ELSE order \cup {<<m, n>> : m \in {x \in Node : InPool(x) /\ (x \in Subject <=> n \in Subject)}}

Leave(ns, order) == {p \in order : p[1] \notin ns /\ p[2] \notin ns}

Fresh(registry, ns) == stale \ ({registry} \X ns)

Linked(a) == instanceOf[a] # None
\* Variant: only waiting agents are known.
AlreadyWaiting(a) == waiting[a] # "absent"

AlreadyHandled(a) == Linked(a) \/ InFlight(a)

\* Something outside goes wrong once more.
Upset == upsets < MaxUpsets /\ upsets' = upsets + 1

-----------------------------------------------------------------------------
(* Matching: one pass of link() over the pools as the caller leaves them.  *)

FreeInstances(pool) == {i \in pool : i \notin EngagedInstances /\ agentOf[i] = None}

Ready(w) == {a \in Subject : w[a] = "ready" /\ ~InFlight(a) /\ EpochLeft(a)}

FirstOf(ns, order) == {n \in ns : \A m \in ns : <<m, n>> \notin order}

\* FIRST_FREE and GUI: every waiting agent in turn is offered one of the free
\* instances the agents before it left over; a pair on cooldown is not asked.
DirectedPass(m, w, pool, order, picks) ==
    \E ask \in [Subject -> SUBSET Instance] :
        LET Left(a) == FreeInstances(pool)
                         \ UNION {ask[b] : b \in {x \in Ready(w) : <<x, a>> \in order}}
            Wanted(a) == IF m = "GUI" THEN {picks[a]} \cap Left(a) ELSE FirstOf(Left(a), order)
        IN  /\ \A a \in Subject :
                  ask[a] = IF a \in Ready(w) THEN {i \in Wanted(a) : <<a, i>> \notin cooling}
                           ELSE {}
            /\ OpenRequests({a \in Subject : ask[a] # {}}, ask)
            /\ choice' = [a \in Subject |->
                            IF m = "GUI" /\ a \in Ready(w) /\ Wanted(a) # {} THEN None
                            ELSE picks[a]]

\* AUCTION: the first waiting agent's bidding round takes every free instance.
AuctionPass(w, pool, order, picks) ==
    /\ IF Ready(w) = {} \/ FreeInstances(pool) = {} THEN UNCHANGED coordVars
       ELSE \E a \in FirstOf(Ready(w), order) : Elect(a, FreeInstances(pool))
    /\ choice' = picks

PooledPass(w, picks) ==
    /\ OpenRequests(Ready(w), [a \in Subject |-> {}])
    /\ choice' = picks

LinkPass(m, w, pool, order, picks) ==
    CASE m = "POOLED" -> PooledPass(w, picks)
      [] m = "AUCTION" -> AuctionPass(w, pool, order, picks)
      [] OTHER -> DirectedPass(m, w, pool, order, picks)

Link ==
    /\ LinkPass(mode, waiting, pooled, joined, choice)
    /\ UNCHANGED <<responderVars, poolVars, fleetVars, mode, questions, upsets>>

-----------------------------------------------------------------------------
(* Discovery and the operator                                              *)

\* unlinked_agents.register followed by link().
Wait(a) ==
    /\ waiting' = [waiting EXCEPT ![a] = "ready"]
    /\ joined' = Join(a, joined)
    /\ stale' = Fresh("pool", {a})
    /\ LinkPass(mode, waiting', pooled, joined', choice)

OnAgentDiscovered(a) ==
    /\ a \notin Underspecified
    /\ ~AlreadyHandled(a)
    /\ Wait(a)
    /\ subscribed' = subscribed \cup {a}
    /\ UNCHANGED <<responderVars, fleetVars, pooled, mode, questions, upsets>>

OnAgentIncomplete(a) ==
    /\ a \in Underspecified
    /\ waiting' = [waiting EXCEPT ![a] = "incomplete"]
    /\ joined' = Join(a, joined)
    /\ stale' = Fresh("pool", {a})
    /\ subscribed' = subscribed \cup {a}
    /\ questions' = questions \cup {a}
    /\ UNCHANGED <<coordVars, responderVars, fleetVars, pooled, mode, choice, upsets>>

JoinPool(i) ==
    /\ InstanceDiscovery
    /\ pooled' = pooled \cup {i}
    /\ joined' = Join(i, joined)
    /\ stale' = Fresh("pool", {i})
    /\ subscribed' = IF i \in pooled THEN subscribed ELSE subscribed \cup {i}
    /\ LinkPass(mode, waiting, pooled', joined', choice)
    /\ UNCHANGED <<responderVars, fleetVars, waiting, mode, questions, upsets>>

\* A linked instance that announces itself is ignored.
OnInstanceDiscovered(i) == agentOf[i] = None /\ JoinPool(i)

\* The operator answers a question, or clicks twice.
GuiConfirmAgent(a) ==
    /\ a \in questions \/ (a \in Underspecified /\ (AlreadyHandled(a) \/ waiting[a] = "ready"))
    /\ questions' = questions \ {a}
    /\ IF AlreadyHandled(a) THEN UNCHANGED <<coordVars, waiting, joined, stale, choice>> ELSE Wait(a)
    /\ UNCHANGED <<responderVars, fleetVars, pooled, subscribed, mode, upsets>>

GuiChooseInstance(a, i) ==
    /\ "GUI" \in LinkingModes
    /\ waiting[a] = "ready" /\ i \in pooled
    /\ LinkPass(mode, waiting, pooled, joined, [choice EXCEPT ![a] = i])
    /\ UNCHANGED <<responderVars, poolVars, fleetVars, mode, questions, upsets>>

GuiRejectAgent(a) ==
    /\ a \in questions /\ Upset
    /\ questions' = questions \ {a}
    /\ IF waiting[a] = "incomplete"
       THEN /\ waiting' = [waiting EXCEPT ![a] = "absent"]
            /\ joined' = Leave({a}, joined)
            /\ stale' = Fresh("pool", {a})
            /\ subscribed' = subscribed \ {a}
       ELSE UNCHANGED <<waiting, joined, stale, subscribed>>
    /\ Forget(a)
    /\ UNCHANGED <<responderVars, fleetVars, pooled, mode, choice>>

\* Variant: every change of mode clears the picks.
SetLinkingModeAnew(m) ==
    /\ mode' = m
    /\ LinkPass(m, waiting, pooled, joined, [a \in Subject |-> None])
    /\ UNCHANGED <<responderVars, poolVars, fleetVars, questions, upsets>>

SetLinkingMode(m) ==
    /\ mode' = m
    /\ LinkPass(m, waiting, pooled, joined,
                IF m = "GUI" THEN choice ELSE [a \in Subject |-> None])
    /\ UNCHANGED <<responderVars, poolVars, fleetVars, questions, upsets>>

\* release(): the operator gives a pair, or an attempt at one, up.
Release(a) == InFlight(a) /\ Cancel(a) /\ UNCHANGED <<responderVars, domainVars>>

-----------------------------------------------------------------------------
(* What a pairing means                                                    *)

\* Variant: the two names are swapped on the instance's side.
RegisterSwapped(a, i) ==
    /\ instanceOf' = [instanceOf EXCEPT ![a] = i]
    /\ agentOf' = [agentOf EXCEPT ![i] = i]

\* fleet.register: a moved agent leaves its old instance.
Register(a, i) ==
    /\ instanceOf' = [instanceOf EXCEPT ![a] = i]
    /\ agentOf' = [j \in Instance |-> IF j = i THEN a
                                      ELSE IF j = instanceOf[a] THEN None ELSE agentOf[j]]

\* Variant: the agent's entry outlives the pair.
UnregisterInstance(a) ==
    /\ agentOf' = [agentOf EXCEPT ![instanceOf[a]] = None]
    /\ UNCHANGED instanceOf

\* fleet.remove: the pair leaves both dicts.  (Of two linked agents with one agent_id
\* the second to leave raises a KeyError there; agent_ids are taken to differ.)
Unregister(a) ==
    /\ instanceOf' = [instanceOf EXCEPT ![a] = None]
    /\ agentOf' = [agentOf EXCEPT ![instanceOf[a]] = None]

\* An agent without a discovery message cannot be registered.
TakeUp(a, i) ==
    /\ waiting' = [waiting EXCEPT ![a] = "absent"]
    /\ IF waiting[a] # "ready"
       THEN /\ joined' = Leave({a}, joined)
            /\ stale' = Fresh("pool", {a})
            /\ UNCHANGED <<fleetVars, pooled>>
       ELSE /\ pooled' = pooled \ {i}
            /\ joined' = Leave({a, i}, joined)
            /\ stale' = stale \ ({"pool", "fleet"} \X {a, i, instanceOf[a]})
            /\ Register(a, i)
    /\ UNCHANGED <<guiVars, subscribed, upsets>>

\* on_link: an instance that is live with somebody keeps its agent.
OnLink(a, i) == IF agentOf[i] # None THEN UNCHANGED domainVars ELSE TakeUp(a, i)

\* stale_instances() answers with the AGENTS whose instance went quiet.
StaleInstances == {agentOf[j] : j \in {k \in Instance : <<"fleet", k>> \in stale /\ agentOf[k] # None}}

\* on_release: both halves go back to their pools, as far as they are alive.
OnRelease(a, i) ==
    LET agentAlive == <<"fleet", a>> \notin stale
        instanceAlive == i \notin StaleInstances
        dead == (IF agentAlive THEN {} ELSE {a}) \cup (IF instanceAlive THEN {} ELSE {i})
        order == Leave(dead, joined)
    IN  /\ Unregister(a)
        /\ waiting' = [waiting EXCEPT ![a] = IF agentAlive THEN "ready" ELSE "absent"]
        /\ pooled' = IF instanceAlive THEN pooled \cup {i} ELSE pooled \ {i}
        /\ joined' = (IF agentAlive THEN Join(a, order) ELSE order)
                       \cup (IF instanceAlive THEN Join(i, order) ELSE order)
        /\ stale' = stale \ ({"pool", "fleet"} \X {a, i, instanceOf[a]})
        /\ subscribed' = subscribed \ dead
        /\ UNCHANGED <<guiVars, upsets>>

\* _apply: the hook of the action; fleet.remove raises for an agent it does not
\* know, and the rest of the method is lost.
Conclude(a, x) ==
    \/ x.act = "NOTHING" /\ Perform(a, x) /\ UNCHANGED domainVars
    \/ x.act = "LINK" /\ Perform(a, x) /\ OnLink(a, x.by)
    \/ x.act = "RELEASE" /\ Linked(a) /\ Perform(a, x) /\ OnRelease(a, x.by)
    \/ x.act = "RELEASE" /\ ~Linked(a) /\ Interrupted(a, x) /\ UNCHANGED domainVars

Route(i) ==
    /\ Take(i)
    /\ \E x \in RouteEffects(Head(uplink[i])) : Conclude(Head(uplink[i]).id, x)

Tick(a) ==
    /\ InFlight(a)
    /\ \E x \in TickEffects(a) : Conclude(a, x)
    /\ UNCHANGED responderVars

-----------------------------------------------------------------------------
(* Liveness of the nodes                                                   *)

\* touch(): the fleet first, then the pools.
Touch(n) ==
    /\ stale' = IF n \in Subject /\ instanceOf[n] # None THEN Fresh("fleet", {n})
                ELSE Fresh("pool", {n})
    /\ stale' # stale
    /\ UNCHANGED <<coordVars, responderVars, guiVars, fleetVars,
                   waiting, pooled, joined, subscribed, upsets>>

\* Twin state is the heartbeat of a linked instance.
TwinState(i) ==
    /\ agentOf[i] # None /\ <<"fleet", i>> \in stale
    /\ stale' = Fresh("fleet", {i})
    /\ UNCHANGED <<coordVars, responderVars, guiVars, fleetVars,
                   waiting, pooled, joined, subscribed, upsets>>

GoesQuiet(n) ==
    /\ Upset
    /\ \E registry \in {"pool", "fleet"} :
          /\ IF registry = "pool" THEN InPool(n)
             ELSE IF n \in Subject THEN instanceOf[n] # None ELSE agentOf[n] # None
          /\ <<registry, n>> \notin stale
          /\ stale' = stale \cup {<<registry, n>>}
    /\ UNCHANGED <<coordVars, responderVars, guiVars, fleetVars,
                   waiting, pooled, joined, subscribed>>

StaleInPool == {n \in Node : InPool(n) /\ <<"pool", n>> \in stale}
StalePairs == {a \in Subject : Linked(a) /\ (\/ <<"fleet", a>> \in stale
                                             \/ <<"fleet", instanceOf[a]>> \in stale)}

\* Variants: an evicted agent keeps its handshake; dead pairs are left alone.
AbandonedByInstances == StalePairs \cup UNION {SubjectsOn(i) : i \in StaleInPool \cap Instance}
AbandonedInPools == (StaleInPool \cap Subject)
                      \cup UNION {SubjectsOn(i) : i \in StaleInPool \cap Instance}

\* An evicted agent, everybody engaged on an evicted instance, and the pairs one half
\* of which went quiet.
Abandoned == (StaleInPool \cap Subject) \cup StalePairs
               \cup UNION {SubjectsOn(i) : i \in StaleInPool \cap Instance}

\* sweep(): every death ends as a cancel on the handshake; an agent that left
\* the pool for good is forgotten.
Sweep ==
    LET agents == StaleInPool \cap Subject
        instances == StaleInPool \cap Instance
    IN  /\ StaleInPool # {} \/ StalePairs # {}
        /\ CancelAndForget(Abandoned, agents)
        /\ waiting' = [a \in Subject |-> IF a \in agents THEN "absent" ELSE waiting[a]]
        /\ pooled' = pooled \ instances
        /\ joined' = Leave(StaleInPool, joined)
        /\ questions' = questions \ agents
        /\ subscribed' = subscribed \ StaleInPool
        /\ stale' = Fresh("pool", StaleInPool)
        /\ UNCHANGED <<responderVars, fleetVars, mode, choice, upsets>>

-----------------------------------------------------------------------------
World ==
    \/ Environment /\ UNCHANGED domainVars
    \/ \E a \in Subject, i \in Instance :
          CooldownOver(a, i) /\ UNCHANGED <<responderVars, domainVars>>

Next ==
    \/ Link
    \/ Sweep
    \/ \E a \in Subject :
          \/ OnAgentDiscovered(a) \/ OnAgentIncomplete(a)
          \/ GuiConfirmAgent(a) \/ GuiRejectAgent(a)
          \/ Release(a) \/ Tick(a)
          \/ \E i \in Instance : GuiChooseInstance(a, i)
    \/ \E i \in Instance : OnInstanceDiscovered(i) \/ Route(i) \/ TwinState(i)
    \/ \E n \in Node : Touch(n) \/ GoesQuiet(n)
    \/ \E m \in LinkingModes : SetLinkingMode(m)
    \/ World

Spec == Init /\ [][Next]_vars

\* step() ticks every conversation and sweeps on every turn of its timer.
FairSpec == Spec /\ WF_vars(Sweep) /\ \A a \in Subject : WF_vars(Tick(a))

-----------------------------------------------------------------------------
(* Properties                                                              *)

\* The two dicts of the fleet registry say the same.
OneToOne == \A a \in Subject, i \in Instance : instanceOf[a] = i <=> agentOf[i] = a

\* A pair in the fleet is always backed by a conversation with that instance: if
\* the conversation were gone, _release_pair would return early and a dead pair
\* would stay in the fleet for good.
LinkedIsEngaged == \A a \in Subject : Linked(a) =>
    /\ handshakes[a].state \in {"CONFIRMED", "CANCELLED"}
    /\ handshakes[a].receiver = instanceOf[a]

\* And a confirmed conversation is a pair: an agent confirmed but not registered is
\* in flight for good, so it is neither offered again nor swept.
ConfirmedIsLinked == \A a \in Subject :
    handshakes[a].state = "CONFIRMED" => instanceOf[a] = handshakes[a].receiver

\* Instances of the fleet are off the list of candidates.
LinkedNotOffered == pooled \cap {i \in Instance : agentOf[i] # None} = {}

Pairs == INSTANCE Pairing WITH Agent <- Subject,
            pairs <- {p \in Subject \X Instance : instanceOf[p[1]] = p[2]}

\* The fleet behaves as promised (module Pairing).
PairsKeepTheirWord == Pairs!Spec

\* The aggregate withdraws from a confirmed pair only if the operator asked for it
\* or one of its halves went quiet, never over the pool.
HealthyPairsKept == [][\A a \in Subject :
    handshakes[a].state = "CONFIRMED" /\ handshakes'[a].state = "CANCELLED" =>
        Release(a) \/ a \in StalePairs]_vars

\* LinkingMode.GUI: "directed at whatever the operator picked".  A pick is used up
\* by the request it directs, dropped with the mode, or lost because the agent has
\* asked that instance a moment ago; a later click for the agent takes its place.
Pick(a, i) == i = choice[a] \/ GuiChooseInstance(a, i)

PicksAreHonoured == [][\A a \in Subject :
    choice[a] # None /\ choice'[a] = None =>
        \/ mode' # "GUI"
        \/ \E i \in Instance :
              /\ Pick(a, i)
              /\ \/ handshakes'[a].state = "REQUESTED" /\ handshakes'[a].asked = {i}
                 \/ <<a, i>> \in cooling]_vars

\* A pair one half of which died does not stay in the fleet.
DeadPairsEnd == \A a \in Subject : a \in StalePairs ~> a \notin StalePairs
=============================================================================
