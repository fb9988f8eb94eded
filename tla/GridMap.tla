------------------------------- MODULE GridMap -------------------------------
(***************************************************************************)
(* grid_map.py and world_handler.py: the occupancy grid, the layers derived*)
(* from it and the costs the planner charges.                              *)
(*                                                                         *)
(* Lengths are in thousandths of a cell, so that straight and diagonal     *)
(* distances and the robot-fits test keep their order; costs are integers  *)
(* in the same scale, the resolution being a factor of the weights.        *)
(***************************************************************************)
EXTENDS Integers, FiniteSets

CONSTANTS
    NX, NY,         \* the cells of the world
    RiskRadius      \* RISK_RADIUS, the reach of the proximity penalty

ASSUME GridAssumption == NX \in Nat /\ NY \in Nat /\ RiskRadius \in Nat \ {0}

Cells == (0 .. NX - 1) \X (0 .. NY - 1)

\* The boundary walls set_static_obstacles stamps.
Walls == {c \in Cells : c[1] \in {0, NX - 1} \/ c[2] \in {0, NY - 1}}
Interior == Cells \ Walls

SquareOfDistance(c, d) == (c[1] - d[1]) * (c[1] - d[1]) + (c[2] - d[2]) * (c[2] - d[2])

\* The length whose square is n cells, rounded down.
Length == [n \in 0 .. NX * NX + NY * NY |->
    CHOOSE r \in 0 .. 1000 * (NX + NY) : r * r <= n * 1000000 /\ n * 1000000 < (r + 1) * (r + 1)]

-----------------------------------------------------------------------------
(* Derived layers                                                          *)

\* distance_field: from a cell to the nearest blocked one.
Clearance(occupied, c) ==
    Length[CHOOSE n \in {SquareOfDistance(c, o) : o \in occupied} :
              \A o \in occupied : n <= SquareOfDistance(c, o)]

\* risk: 1000 at an obstacle, 0 beyond the radius.
Risk(occupied, c) ==
    LET d == Clearance(occupied, c)
    IN  IF d >= RiskRadius THEN 0 ELSE ((RiskRadius - d) * 1000) \div RiskRadius

\* What repeating `step` comes to from x, once it changes nothing any more.
Limit(S, step, x) ==
    LET From[y \in S] == LET next == step[y] IN IF next = y THEN y ELSE From[next]
    IN  From[x]

\* Growing a part of free space by one layer of direct neighbours.
Grown(occupied) == [part \in SUBSET Cells |->
    part \cup {d \in Cells \ occupied : \E e \in part : SquareOfDistance(d, e) = 1}]

\* regions: the component of free space, over the four direct neighbours.
Region(occupied, c) == Limit(SUBSET Cells, Grown(occupied), {c} \ occupied)

Reachable(occupied, c, d) == d \in Region(occupied, c)

-----------------------------------------------------------------------------
(* Costs: w = [distance, uncertainty, risk], the weights of a posture      *)

UncertaintyCovered == 2         \* UNCERTAINTY_COVERED, in hundredths
UncertaintyUncovered == 200     \* UNCERTAINTY_UNCOVERED

CostPerLength(covered, w, c) ==
    100 * w.distance
        + w.uncertainty * (IF c \in covered THEN UncertaintyCovered ELSE UncertaintyUncovered)

\* cost_layers: entering c over a step of length n is charged
\* CostPerLength * n + CostPerCell.
CostPerCell(occupied, w, c) == 100 * w.risk * Risk(occupied, c)

\* Variant: one covered cell is taken for a world without uncertainty.
LeastOfAnywhere(covered, w) == 100 * w.distance + w.uncertainty * UncertaintyUncovered

\* min_cost_per_meter: the covered value counts only if some cell is covered.
LeastCostPerLength(covered, w) ==
    100 * w.distance
        + w.uncertainty * (IF covered # {} THEN UncertaintyCovered ELSE UncertaintyUncovered)
=============================================================================
