-------------------------------- MODULE AStar --------------------------------
(***************************************************************************)
(* a_star_custom.py: one search over the grid map.  `query` is what        *)
(* planning() binds before its loop (the snapshot of the layers, the two   *)
(* cells, the weights and the radius); Expand is one turn of the loop.     *)
(***************************************************************************)
EXTENDS GridMap

CONSTANTS
    None,
    Epsilon         \* heuristic inflation, 1 for the optimal plan

ASSUME SearchAssumption == Epsilon \in Nat \ {0}

VARIABLES
    query,      \* [occupied, clearance, perLength, perCell, least, start, goal, radius]
    frontier,   \* open_heap: <<f, h, cell>>
    g,          \* g_cost, Unseen for a cell that is not in the dict
    parent,     \* parent, None for the start and for unseen cells
    closed,     \* cells whose cost is settled
    outcome     \* "idle", "searching", "found", or why the plan failed

searchVars == <<query, frontier, g, parent, closed, outcome>>

Unseen == -1

Reasons == {"start_out_of_bounds", "start_occupied", "start_too_tight",
            "goal_out_of_bounds", "goal_occupied", "goal_too_tight",
            "disconnected", "unreachable"}

NoSearch ==
    /\ query = None
    /\ frontier = {} /\ closed = {} /\ outcome = "idle"
    /\ g = [c \in Cells |-> Unseen] /\ parent = [c \in Cells |-> None]

-----------------------------------------------------------------------------
(* Moves                                                                   *)

\* What planning() binds before the loop; `least` is the inflated heuristic's rate.
Bind(occupied, covered, w, start, goal, radius) ==
    [occupied |-> occupied,
     clearance |-> [c \in Cells |-> Clearance(occupied, c)],
     perLength |-> [c \in Cells |-> CostPerLength(covered, w, c)],
     perCell |-> [c \in Cells |-> CostPerCell(occupied, w, c)],
     least |-> Epsilon * LeastCostPerLength(covered, w),
     start |-> start, goal |-> goal, radius |-> radius]

Fits(q, c) == c \in Cells \ q.occupied /\ q.clearance[c] >= q.radius

Neighbours(c) == {d \in Cells : SquareOfDistance(c, d) \in {1, 2}}

CutsCorner(q, c, d) ==
    SquareOfDistance(c, d) = 2 /\ {<<d[1], c[2]>>, <<c[1], d[2]>>} \cap q.occupied # {}

MayEnter(q, c, d) == d \in Neighbours(c) /\ Fits(q, d) /\ ~CutsCorner(q, c, d)

\* A diagonal step is charged its length rounded up, the heuristic rounds down.
StepLength(c, d) == IF SquareOfDistance(c, d) = 1 THEN 1000 ELSE 1415

MoveCost(q, c, d) == q.perLength[d] * StepLength(c, d) + q.perCell[d]

Heuristic(q, c) == q.least * Length[SquareOfDistance(c, q.goal)]

-----------------------------------------------------------------------------
(* The search                                                              *)

\* _validate: the two cells one after the other, then the region test.
Objection(q) ==
    IF q.start \notin Cells THEN "start_out_of_bounds"
    ELSE IF q.start \in q.occupied THEN "start_occupied"
    ELSE IF ~Fits(q, q.start) THEN "start_too_tight"
    ELSE IF q.goal \notin Cells THEN "goal_out_of_bounds"
    ELSE IF q.goal \in q.occupied THEN "goal_occupied"
    ELSE IF ~Fits(q, q.goal) THEN "goal_too_tight"
    ELSE IF ~Reachable(q.occupied, q.start, q.goal) THEN "disconnected"
    ELSE "none"

Search(q) ==
    /\ query' = q
    /\ closed' = {}
    /\ parent' = [c \in Cells |-> None]
    /\ IF Objection(q) # "none"
       THEN /\ outcome' = Objection(q)
            /\ frontier' = {} /\ g' = [c \in Cells |-> Unseen]
       ELSE /\ outcome' = "searching"
            /\ frontier' = {<<Heuristic(q, q.start), Heuristic(q, q.start), q.start>>}
            /\ g' = [c \in Cells |-> IF c = q.start THEN 0 ELSE Unseen]

\* The order of the heap: f, then h, then the cell's number.
Before(m, n) ==
    \/ m[1] < n[1]
    \/ m[1] = n[1] /\ m[2] < n[2]
    \/ m[1] = n[1] /\ m[2] = n[2] /\ m[3][1] * NY + m[3][2] < n[3][1] * NY + n[3][2]

Improves(c, d) == g[d] = Unseen \/ g[c] + MoveCost(query, c, d) < g[d]

\* Variant: corners are cut.
RelaxedCutting(c) ==
    {d \in Neighbours(c) \ closed : Fits(query, d) /\ Improves(c, d)}

\* The neighbours of c a cheaper way is now known to.
Relaxed(c) == {d \in Cells \ (closed \cup {c}) : MayEnter(query, c, d) /\ Improves(c, d)}

Expand ==
    /\ outcome = "searching"
    /\ \E node \in frontier :
          LET c == node[3]
          IN  /\ \A other \in frontier \ {node} : Before(node, other)
              /\ IF c \in closed
                 THEN /\ frontier' = frontier \ {node}
                      /\ UNCHANGED <<g, parent, closed, outcome>>
                 ELSE /\ closed' = closed \cup {c}
                      /\ IF c = query.goal
                         THEN /\ outcome' = "found"
                              /\ frontier' = frontier \ {node}
                              /\ UNCHANGED <<g, parent>>
                         ELSE /\ g' = [d \in Cells |-> IF d \in Relaxed(c)
                                         THEN g[c] + MoveCost(query, c, d) ELSE g[d]]
                              /\ parent' = [d \in Cells |-> IF d \in Relaxed(c) THEN c ELSE parent[d]]
                              /\ frontier' = (frontier \ {node}) \cup
                                    {<<g'[d] + Heuristic(query, d), Heuristic(query, d), d>> :
                                        d \in Relaxed(c)}
                              /\ UNCHANGED outcome
    /\ UNCHANGED query

Exhausted ==
    /\ outcome = "searching" /\ frontier = {}
    /\ outcome' = "unreachable"
    /\ UNCHANGED <<query, frontier, g, parent, closed>>

\* PlanResult.feasible: found, and the path has at least two waypoints.
Feasible == outcome = "found" /\ query.start # query.goal

-----------------------------------------------------------------------------
(* Properties                                                              *)

\* One round of relaxation: each cell keeps its cost or takes that of the cheapest
\* way over a neighbour.
Relaxation(q) == [costs \in [Cells -> Nat \cup {Unseen}] |->
    LET Over(d) == {b \in Cells : costs[b] # Unseen /\ MayEnter(q, b, d)}
        Ways(d) == {costs[b] + MoveCost(q, b, d) : b \in Over(d)} \cup ({costs[d]} \ {Unseen})
    IN  [d \in Cells |-> IF Ways(d) = {} THEN Unseen
                         ELSE CHOOSE w \in Ways(d) : \A v \in Ways(d) : w <= v]]

\* The cost of the cheapest way from the start to each cell, Unseen if there is none.
CheapestCosts(q) == Limit([Cells -> Nat \cup {Unseen}], Relaxation(q),
                          [c \in Cells |-> IF c = q.start THEN 0 ELSE Unseen])

\* "1.0 is optimal; >1 is bounded suboptimal (cost <= eps * optimal)" (__init__): the
\* cost of a plan, which ranks the candidates of a mission, is that of the cheapest
\* path there is, up to the inflation (Epsilon).  A closed cell is never opened again, so this
\* stands and falls with a heuristic that never overrates the rest of the way.
\* "Reject hopeless queries before expanding anything" (_validate) and the open set
\* exhausted: a plan is only refused if the robot cannot get there.
SearchIsRight ==
    /\ outcome = "found" => g[query.goal] <= Epsilon * CheapestCosts(query)[query.goal]
    /\ outcome \in Reasons \ {"start_occupied", "start_too_tight"} /\ query.goal \in Cells =>
          CheapestCosts(query)[query.goal] = Unseen

\* Walking the parents back from any cell of the search, every step is one the
\* robot can make: it stays clear of obstacles by its radius, cuts no corner, and
\* its costs add up.
WaysAreClear == \A d \in Cells : parent[d] # None =>
    /\ d \notin query.occupied /\ query.clearance[d] >= query.radius
    /\ d \in Neighbours(parent[d]) /\ ~CutsCorner(query, parent[d], d)
    /\ g[d] = g[parent[d]] + MoveCost(query, parent[d], d)
=============================================================================
