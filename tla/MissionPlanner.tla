--------------------------- MODULE MissionPlanner ---------------------------
(***************************************************************************)
(* mission_planner.py: one pass of assign_and_plan over the pending        *)
(* missions, with a search per mission and agent, the invitation of the    *)
(* cheapest candidates, and get_winner over the bids that came back.       *)
(***************************************************************************)
EXTENDS AStar, Sequences

CONSTANTS
    Agent,          \* available_ugvs
    Radius,         \* agent -> radius
    Passes,         \* sequences of [type, goal, weights, threshold, budget], the pending missions
    Maps,           \* what the world looks like: [blocked, covered]
    Places,         \* where the agents stand: agent -> cell
    BidValues,      \* [time, energy, margin] the instances may bid, or None
    MaxInvited,     \* k
    SafetyReserve   \* the battery floor of a mission without one of its own

\* What a mission says that the planner reads.
Weights == [distance : Nat, uncertainty : Nat, risk : Nat, time : Nat, energy : Nat]
Missions == [type : STRING, goal : Int \X Int, weights : Weights,
             threshold : Int \cup {None}, budget : Int \cup {None}]

\* A map marks cells of the world, no weight of a posture is negative, somebody is to
\* be invited, and a bid is a missing answer or three numbers: one that says how long
\* and how far above the floor but not what it costs in battery makes get_winner raise.
ASSUME PlannerAssumption ==
    /\ IsFiniteSet(Agent) /\ None \notin Agent
    /\ Maps \subseteq [blocked : SUBSET Cells, covered : SUBSET Cells]
    /\ Passes \subseteq Seq(Missions)
    /\ BidValues \subseteq [time : Int, energy : Int, margin : Int] \cup {None}
    /\ MaxInvited \in Nat \ {0}

VARIABLES
    world,          \* the map, the agents' poses, the clock and the missions of the pass
    pending,        \* missions still to be planned in this pass
    candidates,     \* agents still to be planned for, <<>> between two missions
    scored,         \* <<cost, agent>> for the mission in hand, in order
    offers,         \* mission -> agents invited to bid and their plan costs
    awards,         \* <<mission, bids, winner>> of the elections decided
    stage           \* "missions", "agents", "offered", "aborted"

plannerVars == <<world, pending, candidates, scored, offers, awards, stage>>
vars == <<searchVars, plannerVars>>

Fleet == CHOOSE s \in [1 .. Cardinality(Agent) -> Agent] : \A i, j \in DOMAIN s : s[i] = s[j] => i = j

Init ==
    /\ NoSearch
    /\ world \in [map : Maps, pose : Places, unlocked : BOOLEAN, given : Passes]
    /\ pending = world.given
    /\ candidates = <<>> /\ scored = <<>> /\ awards = {} /\ stage = "missions"
    /\ offers = [m \in {} |-> None]

-----------------------------------------------------------------------------
(* assign_and_plan                                                         *)

\* _resolve_goal: no goal for a patrol, a locked mission, or a target out of sight.
Resolved(m) == m.type = "GOTO" \/ (m.type = "TIME_GATED" /\ world.unlocked)

\* A target in sight is looked up as a dict and is none: the whole pass is lost.
Raises(m) == m.type = "TRACK_KNOWN"

\* Variant: a mission without a goal ends the pass, instead of being passed over.
NextMissionBreaking ==
    /\ stage = "missions" /\ pending # <<>>
    /\ IF Raises(Head(pending))
       THEN stage' = "aborted" /\ offers' = [m \in {} |-> None] /\ UNCHANGED <<pending, candidates>>
       ELSE IF Resolved(Head(pending))
       THEN stage' = "agents" /\ candidates' = Fleet /\ UNCHANGED <<pending, offers>>
       ELSE pending' = <<>> /\ UNCHANGED <<stage, candidates, offers>>
    /\ UNCHANGED <<searchVars, world, scored, awards>>

NextMission ==
    /\ stage = "missions" /\ pending # <<>>
    /\ IF Raises(Head(pending))
       THEN stage' = "aborted" /\ offers' = [m \in {} |-> None] /\ UNCHANGED <<pending, candidates>>
       ELSE IF Resolved(Head(pending))
       THEN stage' = "agents" /\ candidates' = Fleet /\ UNCHANGED <<pending, offers>>
       ELSE pending' = Tail(pending) /\ UNCHANGED <<stage, candidates, offers>>
    /\ UNCHANGED <<searchVars, world, scored, awards>>

Query(a, m) == Bind(Walls \cup world.map.blocked, world.map.covered, m.weights,
                    world.pose[a], m.goal, Radius[a])

PlanFor ==
    /\ stage = "agents" /\ candidates # <<>> /\ outcome = "idle"
    /\ Search(Query(Head(candidates), Head(pending)))
    /\ UNCHANGED plannerVars

\* The result of one search is scored and the search forgotten.
Score ==
    /\ outcome \notin {"idle", "searching"}
    /\ scored' = IF Feasible THEN Append(scored, <<g[query.goal], Head(candidates)>>) ELSE scored
    /\ candidates' = Tail(candidates)
    /\ query' = None /\ frontier' = {} /\ closed' = {} /\ outcome' = "idle"
    /\ g' = [c \in Cells |-> Unseen] /\ parent' = [c \in Cells |-> None]
    /\ UNCHANGED <<world, pending, offers, awards, stage>>

\* The first k of the scores, sorted by cost and stably.
Invited(s) ==
    {i \in DOMAIN s :
        Cardinality({j \in DOMAIN s : s[j][1] < s[i][1] \/ (s[j][1] = s[i][1] /\ j < i)}) < MaxInvited}

Offer ==
    /\ stage = "agents" /\ candidates = <<>>
    /\ stage' = "missions"
    /\ pending' = Tail(pending)
    /\ scored' = <<>>
    /\ offers' = IF scored = <<>> THEN offers
                 ELSE [m \in DOMAIN offers \cup {Head(pending)} |->
                        IF m = Head(pending)
                        THEN [a \in {scored[i][2] : i \in Invited(scored)} |->
                                (CHOOSE p \in {scored[i] : i \in DOMAIN scored} : p[2] = a)[1]]
                        ELSE offers[m]]
    /\ UNCHANGED <<searchVars, world, candidates, awards>>

PassOver ==
    /\ stage = "missions" /\ pending = <<>>
    /\ stage' = "offered"
    /\ UNCHANGED <<searchVars, world, pending, candidates, scored, offers, awards>>

-----------------------------------------------------------------------------
(* get_winner                                                              *)

Floor(m) == IF m.threshold = None THEN SafetyReserve ELSE m.threshold

Eligible(m, bids) ==
    {a \in DOMAIN bids :
        /\ bids[a] # None
        /\ bids[a].margin > Floor(m)
        /\ m.budget = None \/ bids[a].energy <= m.budget}

Lowest(values) == CHOOSE x \in values : \A y \in values : x <= y
Highest(values) == CHOOSE x \in values : \A y \in values : x >= y

\* What _norm divides by: of equal values each is rated 0.
Spread(values) == IF Highest(values) = Lowest(values) THEN 1 ELSE Highest(values) - Lowest(values)

\* One unit of a weight in the costs of the plans.
CostUnit == 100000

\* Variant: a fast bid counts for no more than a slow one.
RatingWithoutTime(m, bids, a) ==
    LET ok == Eligible(m, bids)
        times == {bids[b].time : b \in ok}
        energies == {bids[b].energy : b \in ok}
    IN  m.weights.energy * CostUnit * (bids[a].energy - Lowest(energies)) * Spread(times)
          + offers[m][a] * Spread(times) * Spread(energies)

\* The sum of the three terms over a common denominator: nothing is rounded.
Rating(m, bids, a) ==
    LET ok == Eligible(m, bids)
        times == {bids[b].time : b \in ok}
        energies == {bids[b].energy : b \in ok}
    IN  m.weights.time * CostUnit * (bids[a].time - Lowest(times)) * Spread(energies)
          + m.weights.energy * CostUnit * (bids[a].energy - Lowest(energies)) * Spread(times)
          + offers[m][a] * Spread(times) * Spread(energies)

\* min over the bids: the first one of equals, in the order they arrived.
Award ==
    /\ stage = "offered"
    /\ \E m \in DOMAIN offers :
          /\ \A r \in awards : r.mission # m
          /\ \E bids \in [DOMAIN offers[m] -> BidValues] :
             \E winner \in IF Eligible(m, bids) = {} THEN {None}
                           ELSE {a \in Eligible(m, bids) :
                                    \A b \in Eligible(m, bids) : Rating(m, bids, a) <= Rating(m, bids, b)} :
                awards' = awards \cup {[mission |-> m, bids |-> bids, winner |-> winner]}
    /\ UNCHANGED <<searchVars, world, pending, candidates, scored, offers, stage>>

Searching == (Expand \/ Exhausted) /\ UNCHANGED plannerVars

Next == NextMission \/ PlanFor \/ Searching \/ Score \/ Offer \/ PassOver \/ Award

Spec == Init /\ [][Next]_vars

-----------------------------------------------------------------------------
(* Properties                                                              *)

\* The cheapest way of an agent to the goal of a mission.
CostFor(a, m) == CheapestCosts(Query(a, m))[m.goal]

\* Agents a mission can be planned for: somebody in the goal's own cell is not one.
Able(m) == {a \in Agent : /\ Objection(Query(a, m)) = "none"
                          /\ world.pose[a] # m.goal /\ CostFor(a, m) # Unseen}

\* Missions are offered to the agents that reach the goal at the least cost, and when
\* the pass is over every mission of it with a goal that somebody can reach is out to
\* bids, whatever the missions planned before it came to.
TheCheapestAreInvited == stage = "offered" /\ awards = {} =>
    /\ \A m \in DOMAIN offers :
          /\ DOMAIN offers[m] \subseteq Able(m)
          /\ Epsilon = 1 => \A a \in DOMAIN offers[m], b \in Able(m) \ DOMAIN offers[m] :
                                CostFor(a, m) <= CostFor(b, m)
    /\ \A i \in DOMAIN world.given : LET m == world.given[i] IN
          Resolved(m) /\ Able(m) # {} => m \in DOMAIN offers /\ DOMAIN offers[m] # {}

\* Bids are weighed against the mission's own limits: the winner satisfies them, no
\* other bid that does is as good in time, energy and plan and better in one that the
\* mission's posture weighs, and there is a winner if anybody satisfies them.
AwardsAreFair == \A r \in awards :
    LET m == r.mission
        Meets(a) == /\ r.bids[a] # None
                    /\ r.bids[a].margin > (IF m.threshold = None THEN SafetyReserve ELSE m.threshold)
                    /\ m.budget = None \/ r.bids[a].energy <= m.budget
        AsGood(b, a) == /\ r.bids[b].time <= r.bids[a].time
                        /\ r.bids[b].energy <= r.bids[a].energy
                        /\ offers[m][b] <= offers[m][a]
        Better(b, a) == \/ r.bids[b].time < r.bids[a].time /\ m.weights.time > 0
                        \/ r.bids[b].energy < r.bids[a].energy /\ m.weights.energy > 0
                        \/ offers[m][b] < offers[m][a]
    IN  IF r.winner = None THEN \A a \in DOMAIN r.bids : ~Meets(a)
        ELSE /\ Meets(r.winner)
             /\ \A b \in DOMAIN r.bids : Meets(b) => ~(AsGood(b, r.winner) /\ Better(b, r.winner))
=============================================================================
