------------------------ MODULE MissionPlannerProofs ------------------------
(***************************************************************************)
(* The planner, on every map, for every fleet and every weights: the way a *)
(* search finds is one the robot can drive and the cheapest there is, what *)
(* is refused cannot be done, the agents invited are the cheapest, and no  *)
(* bid that is better in everything loses.                                 *)
(***************************************************************************)
EXTENDS MissionPlanner, TLAPS, WellFoundedInduction, FiniteSetTheorems

-----------------------------------------------------------------------------
(* Ways                                                                    *)

\* A way through the search tree: each cell was entered by a legal move from a
\* settled one, so its predecessor's cost does not change any more.
WaysInv ==
    /\ parent \in [Cells -> Cells \cup {None}]
    /\ \A d \in Cells : parent[d] # None => parent[d] \in closed
    /\ closed \subseteq Cells
    /\ \A node \in frontier : node[3] \in Cells
    /\ WaysAreClear

\* One turn of the search loop, as far as the ways are concerned.
Settled(c) ==
    /\ closed' = closed \cup {c}
    /\ g' = [d \in Cells |-> IF d \in Relaxed(c) THEN g[c] + MoveCost(query, c, d) ELSE g[d]]
    /\ parent' = [d \in Cells |-> IF d \in Relaxed(c) THEN c ELSE parent[d]]

\* What Expand does: nothing to the ways, or one more cell is settled.
LEMMA ExpandSettles ==
    ASSUME WaysInv, Expand
    PROVE  /\ query' = query
           /\ \A node \in frontier' : node[3] \in Cells
           /\ \/ closed \subseteq closed' /\ closed' \subseteq Cells /\ UNCHANGED <<g, parent>>
              \/ \E c \in Cells \ closed : Settled(c)
<1>1. PICK node \in frontier : Expand!2!(node)
  BY DEF Expand
<1>. DEFINE c == node[3]
<1>2. c \in Cells
  BY DEF WaysInv
<1>3. Relaxed(c) \subseteq Cells
  BY DEF Relaxed
<1>4. \A n \in frontier' : n \in frontier \/ n[3] \in Relaxed(c)
  BY <1>1
<1>5. \A n \in frontier' : n[3] \in Cells
  BY <1>3, <1>4 DEF WaysInv
<1>6. \/ closed \subseteq closed' /\ closed' \subseteq Cells /\ UNCHANGED <<g, parent>>
      \/ c \notin closed /\ Settled(c)
  BY <1>1, <1>2 DEF WaysInv, Settled
<1> QED
  BY <1>2, <1>5, <1>6 DEF Expand

\* Settling one more cell leaves the ways of the others as they were.
LEMMA SettledKeepsWays ==
    ASSUME WaysInv, NEW c \in Cells \ closed, Settled(c), query' = query
    PROVE  /\ parent' \in [Cells -> Cells \cup {None}]
           /\ \A d \in Cells : parent'[d] # None => parent'[d] \in closed'
           /\ WaysAreClear'
<1>1. parent' \in [Cells -> Cells \cup {None}]
  BY DEF WaysInv, Settled
<1>2. ASSUME NEW d \in Relaxed(c)
      PROVE  /\ d \in Cells /\ d \notin closed /\ d # c
             /\ d \in Neighbours(c) /\ d \notin query.occupied
             /\ query.clearance[d] >= query.radius /\ ~CutsCorner(query, c, d)
  BY <1>2 DEF Relaxed, MayEnter, Fits
<1>3. c \notin Relaxed(c) /\ \A e \in closed : e \notin Relaxed(c)
  BY <1>2
<1>4. g'[c] = g[c] /\ \A e \in closed : g'[e] = g[e]
  BY <1>3 DEF Settled, WaysInv
<1>5. ASSUME NEW d \in Cells, parent'[d] # None
      PROVE  /\ parent'[d] \in closed'
             /\ d \notin query.occupied /\ query.clearance[d] >= query.radius
             /\ d \in Neighbours(parent'[d]) /\ ~CutsCorner(query, parent'[d], d)
             /\ g'[d] = g'[parent'[d]] + MoveCost(query, parent'[d], d)
  <2>1. CASE d \in Relaxed(c)
    <3>1. parent'[d] = c /\ g'[d] = g[c] + MoveCost(query, c, d)
      BY <2>1, <1>5 DEF Settled
    <3> QED
      BY <1>2, <1>4, <2>1, <3>1 DEF Settled
  <2>2. CASE d \notin Relaxed(c)
    <3>1. parent'[d] = parent[d] /\ g'[d] = g[d]
      BY <2>2, <1>5 DEF Settled
    <3>2. parent[d] \in closed
      BY <1>5, <3>1 DEF WaysInv
    <3> QED
      BY <1>4, <1>5, <3>1, <3>2 DEF Settled, WaysInv, WaysAreClear
  <2> QED
    BY <2>1, <2>2
<1> QED
  BY <1>1, <1>5 DEF WaysAreClear

\* Every step of the planner keeps the ways.
LEMMA NextKeepsWays ==
    ASSUME WaysInv, [Next]_vars
    PROVE  WaysInv'
<1>1. CASE Expand
  <2>1. CASE closed \subseteq closed' /\ closed' \subseteq Cells /\ UNCHANGED <<g, parent>>
    BY <1>1, <2>1, ExpandSettles DEF WaysInv, WaysAreClear
  <2>2. CASE \E c \in Cells \ closed : Settled(c)
    <3>1. PICK c \in Cells \ closed : Settled(c)
      BY <2>2
    <3>2. closed' \subseteq Cells
      BY <3>1 DEF Settled, WaysInv
    <3> QED
      BY <1>1, <3>1, <3>2, ExpandSettles, SettledKeepsWays DEF WaysInv
  <2> QED
    BY <1>1, <2>1, <2>2, ExpandSettles
<1>2. CASE Exhausted
  BY <1>2 DEF Exhausted, WaysInv, WaysAreClear
<1>3. CASE PlanFor
  <2>1. PICK q : Search(q) /\ query' = q
    BY <1>3 DEF PlanFor, Search
  <2>2. parent' = [d \in Cells |-> None] /\ closed' = {}
    BY <2>1 DEF Search
  <2>3. \A node \in frontier' : node[3] \in Cells
    <3>1. CASE Objection(q) # "none"
      BY <2>1, <3>1 DEF Search
    <3>2. CASE Objection(q) = "none"
      <4>1. q.start \in Cells
        BY <3>2 DEF Objection
      <4> QED
        BY <2>1, <3>2, <4>1 DEF Search
    <3> QED
      BY <3>1, <3>2
  <2> QED
    BY <2>2, <2>3 DEF WaysInv, WaysAreClear
<1>4. CASE Score
  BY <1>4 DEF Score, WaysInv, WaysAreClear
<1>5. CASE UNCHANGED searchVars
  BY <1>5 DEF searchVars, WaysInv, WaysAreClear
<1> QED
  BY <1>1, <1>2, <1>3, <1>4, <1>5
     DEF Next, vars, Searching, NextMission, Offer, PassOver, Award

\* A plan's way stays clear of every obstacle by the robot's radius, cuts no corner
\* and costs what its moves cost, whatever the map, the robot, the weights and the
\* missions planned before it.
THEOREM WaysAreClearHolds == Spec => []WaysAreClear
<1>1. Init => WaysInv
  BY DEF Init, NoSearch, WaysInv, WaysAreClear
<1>2. WaysInv /\ [Next]_vars => WaysInv'
  BY NextKeepsWays
<1>3. WaysInv => WaysAreClear
  BY DEF WaysInv
<1> QED
  BY <1>1, <1>2, <1>3, PTL DEF Spec

-----------------------------------------------------------------------------
(* What repeating a step comes to                                          *)

\* Induction without an operator parameter: among finite sets one has none of the others
\* within it (the strict subset order is well-founded).
LEMMA FiniteMinimal ==
    ASSUME NEW F, F # {}, \A U \in F : IsFiniteSet(U)
    PROVE  \E U \in F : \A V \in F : V \subseteq U => V = U
<1>. DEFINE S == UNION F
            R == StrictSubsetOrdering(S)
<1>1. F \subseteq FiniteSubsetsOf(S)
  BY DEF FiniteSubsetsOf
<1>2. \E x \in F : \A y \in F : <<y, x>> \notin R
  <2>1. IsWellFoundedOn(R, FiniteSubsetsOf(S))
    BY FS_StrictSubsetOrderingWellFounded
  <2>. HIDE DEF R, S
  <2>. QED
    BY <2>1, <1>1, WFMin
<1>. QED
  BY <1>2 DEF StrictSubsetOrdering

\* In particular a set of numbers has a least one.
LEMMA LeastNatural ==
    ASSUME NEW T \in SUBSET Nat, T # {}
    PROVE  \E n \in T : \A m \in T : n <= m
<1>. DEFINE Upto(n) == 0 .. n
            F == {Upto(n) : n \in T}
<1>1. \A n \in T : IsFiniteSet(Upto(n))
  BY FS_Interval
<1>2. \A m, n \in T : m < n => Upto(m) \subseteq Upto(n) /\ n \notin Upto(m) /\ n \in Upto(n)
  OBVIOUS
<1>. HIDE DEF Upto
<1>3. F # {} /\ \A U \in F : IsFiniteSet(U)
  BY <1>1
<1>4. \E U \in F : \A V \in F : V \subseteq U => V = U
  <2>. HIDE DEF F
  <2>. QED
    BY <1>3, FiniteMinimal
<1>5. PICK n \in T : \A m \in T : Upto(m) \subseteq Upto(n) => Upto(m) = Upto(n)
  BY <1>4
<1>6. \A m \in T : ~(m < n)
  BY <1>5, <1>2
<1>. QED
  BY <1>6

\* What repeating step comes past from x: the least set with x that step does not leave.
Orbit(S, step, x) ==
    {y \in S : \A T \in SUBSET S : x \in T /\ (\A z \in T : step[z] \in T) => y \in T}

\* The recursion Limit is defined by.
Repeats(S, step, from) ==
    from = [y \in S |-> LET next == step[y] IN IF next = y THEN y ELSE from[next]]

\* An orbit is its first member and the orbit of the next.
LEMMA OrbitUnfolds ==
    ASSUME NEW S, NEW step \in [S -> S], NEW x \in S
    PROVE  /\ x \in Orbit(S, step, x)
           /\ \A y \in Orbit(S, step, x) : step[y] \in Orbit(S, step, x)
           /\ Orbit(S, step, x) = {x} \cup Orbit(S, step, step[x])
           /\ step[x] = x => Orbit(S, step, x) = {x}
<1>1. x \in Orbit(S, step, x)
  BY DEF Orbit
<1>2. \A y \in Orbit(S, step, x) : step[y] \in Orbit(S, step, x)
  BY DEF Orbit
<1>3. Orbit(S, step, step[x]) \subseteq Orbit(S, step, x)
  BY DEF Orbit
<1>4. step[x] \in Orbit(S, step, step[x]) /\ \A y \in Orbit(S, step, step[x]) : step[y] \in Orbit(S, step, step[x])
  BY DEF Orbit
<1>5. Orbit(S, step, x) \subseteq {x} \cup Orbit(S, step, step[x])
  <2>. DEFINE T == {x} \cup Orbit(S, step, step[x])
  <2>1. T \in SUBSET S /\ x \in T
    BY DEF Orbit
  <2>2. \A z \in T : step[z] \in T
    BY <1>4
  <2>. QED
    BY <2>1, <2>2 DEF Orbit
<1>6. ASSUME step[x] = x PROVE Orbit(S, step, x) \subseteq {x}
  <2>1. {x} \in SUBSET S /\ x \in {x} /\ \A z \in {x} : step[z] \in {x}
    BY <1>6
  <2>. QED
    BY <2>1 DEF Orbit
<1>. QED
  BY <1>1, <1>2, <1>3, <1>5, <1>6

\* The recursion has a solution, on a start whose orbit never ends as well.
LEMMA SomethingRepeats ==
    ASSUME NEW S, NEW step \in [S -> S]
    PROVE  \E from : Repeats(S, step, from)
<1>. DEFINE Ends(y) == {p \in Orbit(S, step, y) : step[p] = p}
            End(y) == CHOOSE p : p \in Ends(y)
            from == [y \in S |-> End(y)]
<1>1. ASSUME NEW y \in S PROVE from[y] = IF step[y] = y THEN y ELSE from[step[y]]
  <2>1. CASE step[y] = y
    <3>1. Ends(y) = {y}
      BY <2>1, OrbitUnfolds
    <3>. QED
      BY <2>1, <3>1
  <2>2. CASE step[y] # y
    <3>1. Ends(y) = Ends(step[y])
      BY <2>2, OrbitUnfolds
    <3>. QED
      BY <2>2, <3>1
  <2>. QED
    BY <2>1, <2>2
<1>2. from = [y \in S |-> from[y]]
  <2>. HIDE DEF End
  <2>. QED
    OBVIOUS
<1>. HIDE DEF from
<1>3. from = [y \in S |-> IF step[y] = y THEN y ELSE from[step[y]]]
  BY <1>1, <1>2
<1>. QED
  BY <1>3, Zenon DEF Repeats

\* Limit is the fixpoint the orbit comes to, if it comes to one.
LEMMA LimitIsTheEnd ==
    ASSUME NEW S, NEW step \in [S -> S], NEW x \in S,
           NEW p \in Orbit(S, step, x), step[p] = p
    PROVE  Limit(S, step, x) = p
<1>. DEFINE from == CHOOSE f : Repeats(S, step, f)
<1>1. Repeats(S, step, from)
  BY SomethingRepeats, Zenon
<1>2. Limit(S, step, x) = from[x]
  BY Zenon DEF Limit, Repeats
<1>3. \A y \in S : from[y] = IF step[y] = y THEN y ELSE from[step[y]]
  <2>. HIDE DEF from
  <2>. QED
    BY <1>1 DEF Repeats
<1>. HIDE DEF from
<1>4. from[p] = from[x]
  <2>. DEFINE T == {z \in S : from[z] = from[x]}
  <2>1. x \in T /\ T \in SUBSET S /\ \A z \in T : step[z] \in T
    BY <1>3
  <2>. QED
    BY <2>1 DEF Orbit
<1>. QED
  BY <1>2, <1>3, <1>4 DEF Orbit

-----------------------------------------------------------------------------
(* Lengths                                                                 *)

\* Roots keep the order of squares.
LEMMA SquareGrows ==
    ASSUME NEW a \in Int, NEW b \in Int, 0 <= b, b * b <= a * a, 0 <= a
    PROVE  b <= a
<1>1. SUFFICES ASSUME a < b PROVE FALSE
  OBVIOUS
<1>2. a * a <= a * b /\ a * b < b * b
  BY <1>1
<1>. QED
  BY <1>2

\* No square is negative.
LEMMA Squares ==
    ASSUME NEW a \in Int
    PROVE  0 <= a * a
OBVIOUS

\* Every number has a root, rounded down.
LEMMA RootExists ==
    ASSUME NEW n \in Nat
    PROVE  \E r \in Nat : r * r <= n /\ n < (r + 1) * (r + 1)
<1>. DEFINE T == {k \in Nat : n < (k + 1) * (k + 1)}
<1>1. n \in T
  OBVIOUS
<1>2. PICK r \in T : \A m \in T : r <= m
  BY <1>1, LeastNatural
<1>3. CASE r = 0
  BY <1>2, <1>3
<1>4. CASE r # 0
  <2>1. r - 1 \in Nat /\ r - 1 \notin T
    BY <1>2, <1>4
  <2>2. ~(n < ((r - 1) + 1) * ((r - 1) + 1))
    BY <2>1
  <2>3. r * r <= n
    BY <2>2
  <2>. QED
    BY <2>3
<1>. QED
  BY <1>3, <1>4

\* The table of lengths holds the roots it is meant to hold: they are in its range.
LEMMA LengthIsRoot ==
    ASSUME NEW n \in 0 .. NX * NX + NY * NY
    PROVE  /\ Length[n] \in Nat
           /\ Length[n] * Length[n] <= n * 1000000
           /\ n * 1000000 < (Length[n] + 1) * (Length[n] + 1)
<1>. DEFINE Root(r) == r * r <= n * 1000000 /\ n * 1000000 < (r + 1) * (r + 1)
            bound == 1000 * (NX + NY)
<1>0. NX \in Nat /\ NY \in Nat /\ NX * NX + NY * NY \in Nat /\ n \in Nat
  BY GridAssumption
<1>1. PICK r \in Nat : Root(r)
  <2>1. n * 1000000 \in Nat
    BY <1>0
  <2>. QED
    BY <2>1, RootExists
<1>2. r <= bound
  <2>1. bound \in Nat /\ bound * bound = 1000000 * (NX * NX + NY * NY) + 2000000 * (NX * NY)
    BY <1>0
  <2>2. NX * NY \in Nat
    BY <1>0
  <2>3. n * 1000000 <= bound * bound
    BY <1>0, <2>1, <2>2, SMT
  <2>4. r * r <= bound * bound /\ r * r \in Int /\ bound * bound \in Int
    BY <1>0, <1>1, <2>1, <2>3
  <2>. HIDE DEF bound
  <2>. QED
    BY <2>1, <2>4, SquareGrows
<1>3. r \in 0 .. bound
  BY <1>0, <1>2
<1>4. Length[n] = CHOOSE r2 \in 0 .. bound : Root(r2)
  BY DEF Length
<1>5. Length[n] \in 0 .. bound /\ Root(Length[n])
  <2>. HIDE DEF bound, Root
  <2>. QED
    BY <1>1, <1>3, <1>4
<1>. QED
  BY <1>0, <1>5

\* The triangle inequality, by components: the root of the sum of the squares.
LEMMA Triangle ==
    ASSUME NEW M \in Nat, NEW a \in Int, NEW b \in Int, NEW u \in Int, NEW v \in Int,
           NEW r1 \in Nat, NEW r2 \in Nat, NEW L \in Nat,
           r1 * r1 <= ((a + u) * (a + u) + (b + v) * (b + v)) * M,
           (a * a + b * b) * M < (r2 + 1) * (r2 + 1),
           (u * u + v * v) * M <= L * L
    PROVE  r1 <= r2 + L
<1>. DEFINE n == a * a + b * b
            k == u * u + v * v
            p == a * u + b * v
            R == r2 + 1
<1>0. n \in Nat /\ k \in Nat /\ p \in Int /\ R \in Nat /\ R > 0
  BY Squares
<1>1. SUFFICES ASSUME R + L <= r1 PROVE FALSE
  OBVIOUS
<1>2. (a + u) * (a + u) + (b + v) * (b + v) = n + 2 * p + k
  OBVIOUS
<1>3. p * p <= n * k
  <2>1. n * k = p * p + (a * v - b * u) * (a * v - b * u)
    OBVIOUS
  <2>2. a * v - b * u \in Int
    OBVIOUS
  <2>3. 0 <= (a * v - b * u) * (a * v - b * u)
    BY <2>2, Squares
  <2>. QED
    BY <2>1, <2>3
<1>. HIDE DEF p, k, n, R
<1>4. (R + L) * (R + L) <= r1 * r1
  BY <1>0, <1>1
<1>5. (R + L) * (R + L) = R * R + 2 * (R * L) + L * L
  BY <1>0
<1>6. n * M < R * R /\ k * M <= L * L
  BY DEF n, k, R
<1>7. r1 * r1 <= (n + 2 * p + k) * M
  BY <1>2
<1>8. R * L < M * p
  <2>1. R * R \in Int /\ R * L \in Nat /\ L * L \in Int /\ r1 * r1 \in Int
    BY <1>0
  <2>. QED
    BY <1>0, <1>4, <1>5, <1>6, <1>7, <2>1
<1>9. (R * L) * (R * L) < (M * p) * (M * p)
  <2>1. R * L \in Nat /\ M * p \in Int
    BY <1>0
  <2>. DEFINE x == R * L
              y == M * p
  <2>2. x \in Nat /\ y \in Int /\ x < y
    BY <1>8, <2>1
  <2>. HIDE DEF x, y
  <2>3. x * x <= x * y /\ x * y < y * y
    BY <2>2
  <2>4. x * x < y * y
    BY <2>2, <2>3
  <2>. QED
    BY <2>4 DEF x, y
<1>10. (M * p) * (M * p) <= (n * M) * (k * M)
  BY <1>0, <1>3
<1>11. (n * M) * (k * M) <= (R * R) * (L * L)
  <2>. DEFINE A == n * M
              B == k * M
              C == R * R
              D == L * L
  <2>1. A \in Nat /\ B \in Nat /\ C \in Nat /\ D \in Nat /\ A <= C /\ B <= D
    BY <1>0, <1>6
  <2>. HIDE DEF A, B, C, D
  <2>2. A * B <= C * B /\ C * B <= C * D
    BY <2>1
  <2>3. A * B <= C * D
    BY <2>1, <2>2
  <2>. QED
    BY <2>3 DEF A, B, C, D
<1>12. (R * R) * (L * L) = (R * L) * (R * L)
  BY <1>0
<1>. QED
  BY <1>0, <1>9, <1>10, <1>11, <1>12

\* Every distance within the world is in the table.
LEMMA DistanceInRange ==
    ASSUME NEW c \in Cells, NEW d \in Cells
    PROVE  SquareOfDistance(c, d) \in 0 .. NX * NX + NY * NY
<1>1. /\ c[1] \in 0 .. NX - 1 /\ d[1] \in 0 .. NX - 1
      /\ c[2] \in 0 .. NY - 1 /\ d[2] \in 0 .. NY - 1 /\ NX \in Nat /\ NY \in Nat
  BY GridAssumption DEF Cells
<1>2. ASSUME NEW N \in Nat, NEW x \in 0 .. N - 1, NEW y \in 0 .. N - 1
      PROVE  (x - y) * (x - y) \in 0 .. N * N
  <2>1. PICK z \in 0 .. N : (x - y) * (x - y) = z * z
    <3>1. CASE x >= y
      <4>1. x - y \in 0 .. N
        BY <3>1
      <4>. QED
        BY <4>1
    <3>2. CASE x < y
      <4>1. y - x \in 0 .. N /\ (x - y) * (x - y) = (y - x) * (y - x)
        BY <3>2
      <4>. QED
        BY <4>1
    <3>. QED
      BY <3>1, <3>2
  <2>2. 0 <= z * z /\ z * z <= z * N /\ z * N <= N * N
    OBVIOUS
  <2>. QED
    BY <2>1, <2>2
<1>3. (c[1] - d[1]) * (c[1] - d[1]) \in 0 .. NX * NX
  BY <1>1, <1>2
<1>4. (c[2] - d[2]) * (c[2] - d[2]) \in 0 .. NY * NY
  BY <1>1, <1>2
<1>. QED
  BY <1>1, <1>3, <1>4 DEF SquareOfDistance

\* A move brings a cell nearer by its length at most, rounding included: the step is
\* rounded up and the distances down.
LEMMA StepShortens ==
    ASSUME NEW c \in Cells, NEW d \in Cells, NEW o \in Cells, d \in Neighbours(c)
    PROVE  Length[SquareOfDistance(c, o)] <= StepLength(c, d) + Length[SquareOfDistance(d, o)]
<1>. DEFINE a == d[1] - o[1]
            b == d[2] - o[2]
            u == c[1] - d[1]
            v == c[2] - d[2]
            r1 == Length[SquareOfDistance(c, o)]
            r2 == Length[SquareOfDistance(d, o)]
            L == StepLength(c, d)
            M == 1000000
<1>1. a \in Int /\ b \in Int /\ u \in Int /\ v \in Int
  BY GridAssumption DEF Cells
<1>2. /\ SquareOfDistance(c, o) = (a + u) * (a + u) + (b + v) * (b + v)
      /\ SquareOfDistance(d, o) = a * a + b * b
      /\ SquareOfDistance(c, d) = u * u + v * v
  <2>1. c[1] - o[1] = a + u /\ c[2] - o[2] = b + v
    BY GridAssumption DEF Cells
  <2>. QED
    BY <2>1, Zenon DEF SquareOfDistance
<1>3. SquareOfDistance(c, d) \in {1, 2}
  BY DEF Neighbours
<1>4. L \in Nat /\ (u * u + v * v) * 1000000 <= L * L
  BY <1>2, <1>3, SMT DEF StepLength
<1>5. /\ r1 \in Nat /\ r1 * r1 <= SquareOfDistance(c, o) * 1000000
      /\ r2 \in Nat /\ SquareOfDistance(d, o) * 1000000 < (r2 + 1) * (r2 + 1)
  BY DistanceInRange, LengthIsRoot, SMT
<1>6. /\ r1 * r1 <= ((a + u) * (a + u) + (b + v) * (b + v)) * M
      /\ (a * a + b * b) * M < (r2 + 1) * (r2 + 1)
      /\ (u * u + v * v) * M <= L * L
      /\ M \in Nat
  BY <1>2, <1>4, <1>5, SMT
<1>. HIDE DEF a, b, u, v, r1, r2, L, M
<1>7. r1 \in Nat /\ r2 \in Nat /\ L \in Nat
  BY <1>4, <1>5
<1>8. r1 <= r2 + L
  BY <1>1, <1>6, <1>7, Triangle, Zenon
<1>9. r1 <= L + r2
  BY <1>8, <1>7
<1>. QED
  BY <1>9 DEF r1, r2, L

-----------------------------------------------------------------------------
(* Costs and the heuristic                                                 *)

\* What the search relies on: costs are numbers, and no cell is cheaper to cross than
\* the heuristic's rate, which is inflated by Epsilon.
Sound(q) ==
    /\ q.perLength \in [Cells -> Nat] /\ q.perCell \in [Cells -> Nat]
    /\ q.least \in Nat
    /\ \A c \in Cells : q.least <= Epsilon * q.perLength[c]

\* There is a nearest obstacle: the walls are always there.
LEMMA ClearanceIsNumber ==
    ASSUME NEW occupied \in SUBSET Cells, Walls \subseteq occupied, NEW c \in Cells
    PROVE  Clearance(occupied, c) \in Nat
<1>. DEFINE distances == {SquareOfDistance(c, o) : o \in occupied}
            range == 0 .. NX * NX + NY * NY
            Nearest(n) == \A o \in occupied : n <= SquareOfDistance(c, o)
<1>1. occupied # {}
  <2>1. <<0, c[2]>> \in Walls
    BY GridAssumption DEF Walls, Cells
  <2>. QED
    BY <2>1
<1>2. distances \subseteq range /\ range \subseteq Nat
  <2>1. range \subseteq Nat
    BY GridAssumption
  <2>2. distances \subseteq range
    BY DistanceInRange
  <2>. QED
    BY <2>1, <2>2
<1>3. distances # {}
  BY <1>1
<1>4. \E n \in distances : Nearest(n)
  <2>. HIDE DEF range
  <2>1. \E n \in distances : \A m \in distances : n <= m
    <3>. HIDE DEF distances
    <3>. QED
      BY <1>2, <1>3, LeastNatural
  <2>. QED
    BY <2>1
<1>5. (CHOOSE n \in distances : Nearest(n)) \in distances
  <2>. HIDE DEF distances, Nearest
  <2>. QED
    BY <1>4
<1>. HIDE DEF range
<1>6. (CHOOSE n \in distances : Nearest(n)) \in range
  BY <1>2, <1>5
<1>. QED
  BY <1>6, LengthIsRoot, SMT DEF Clearance, range

\* No risk is negative.
LEMMA RiskIsNumber ==
    ASSUME NEW occupied \in SUBSET Cells, Walls \subseteq occupied, NEW c \in Cells
    PROVE  Risk(occupied, c) \in Nat
<1>. DEFINE d == Clearance(occupied, c)
<1>1. d \in Nat
  BY ClearanceIsNumber
<1>. HIDE DEF d
<1>2. ASSUME d < RiskRadius PROVE ((RiskRadius - d) * 1000) \div RiskRadius \in Nat
  <2>. DEFINE n == (RiskRadius - d) * 1000
  <2>1. n \in Nat /\ RiskRadius \in Nat /\ RiskRadius > 0
    BY <1>1, <1>2, GridAssumption
  <2>. HIDE DEF n
  <2>2. n \div RiskRadius \in Nat
    BY <2>1, SMT
  <2>. QED
    BY <2>2 DEF n
<1>3. (IF d >= RiskRadius THEN 0 ELSE ((RiskRadius - d) * 1000) \div RiskRadius) \in Nat
  BY <1>1, <1>2, GridAssumption
<1>. QED
  BY <1>3 DEF Risk, d

\* What planning() binds is sound: no cell is cheaper per length than the least.
LEMMA BindIsSound ==
    ASSUME NEW occupied \in SUBSET Cells, Walls \subseteq occupied,
           NEW covered \in SUBSET Cells, NEW w,
           w.distance \in Nat, w.uncertainty \in Nat, w.risk \in Nat,
           NEW start, NEW goal, NEW radius
    PROVE  Sound(Bind(occupied, covered, w, start, goal, radius))
<1>. DEFINE q == Bind(occupied, covered, w, start, goal, radius)
<1>1. \A c \in Cells : CostPerLength(covered, w, c) \in Nat
  <2>1. \A n \in Nat : 100 * w.distance + w.uncertainty * n \in Nat
    OBVIOUS
  <2>. QED
    BY <2>1 DEF CostPerLength, UncertaintyCovered, UncertaintyUncovered
<1>2. \A c \in Cells : CostPerCell(occupied, w, c) \in Nat
  <2>1. \A n \in Nat : 100 * w.risk * n \in Nat
    OBVIOUS
  <2>. QED
    BY <2>1, RiskIsNumber DEF CostPerCell
<1>3. LeastCostPerLength(covered, w) \in Nat
  <2>1. \A n \in Nat : 100 * w.distance + w.uncertainty * n \in Nat
    OBVIOUS
  <2>. QED
    BY <2>1 DEF LeastCostPerLength, UncertaintyCovered, UncertaintyUncovered
<1>4. \A c \in Cells : LeastCostPerLength(covered, w) <= CostPerLength(covered, w, c)
  BY SMT DEF CostPerLength, LeastCostPerLength, UncertaintyCovered, UncertaintyUncovered
<1>5. \A m, n \in Nat : m <= n => Epsilon * m \in Nat /\ Epsilon * m <= Epsilon * n
  BY SearchAssumption
<1>6. /\ q.perLength = [c \in Cells |-> CostPerLength(covered, w, c)]
      /\ q.perCell = [c \in Cells |-> CostPerCell(occupied, w, c)]
      /\ q.least = Epsilon * LeastCostPerLength(covered, w)
  BY DEF Bind
<1>. HIDE DEF q
<1>7. q.perLength \in [Cells -> Nat] /\ q.perCell \in [Cells -> Nat]
  BY <1>1, <1>2, <1>6
<1>8. q.least \in Nat
  BY <1>3, <1>5, <1>6
<1>9. ASSUME NEW c \in Cells PROVE q.least <= Epsilon * q.perLength[c]
  <2>1. q.perLength[c] = CostPerLength(covered, w, c)
    BY <1>6
  <2>. QED
    BY <1>1, <1>3, <1>4, <1>5, <1>6, <2>1
<1>10. Sound(q)
  BY <1>7, <1>8, <1>9 DEF Sound
<1>. QED
  BY <1>10 DEF q

\* No move has a negative cost.
LEMMA MoveIsNumber ==
    ASSUME NEW q, Sound(q), NEW c, NEW d \in Cells
    PROVE  MoveCost(q, c, d) \in Nat
<1>1. q.perLength[d] \in Nat /\ q.perCell[d] \in Nat
  BY DEF Sound
<1>2. StepLength(c, d) \in Nat
  BY DEF StepLength
<1>3. \A x, y, z \in Nat : x * y + z \in Nat
  OBVIOUS
<1>. QED
  BY <1>1, <1>2, <1>3 DEF MoveCost

\* No estimate is negative.
LEMMA HeuristicIsNumber ==
    ASSUME NEW q, Sound(q), q.goal \in Cells, NEW c \in Cells
    PROVE  Heuristic(q, c) \in Nat
<1>1. q.least \in Nat /\ Length[SquareOfDistance(c, q.goal)] \in Nat
  BY DistanceInRange, LengthIsRoot DEF Sound
<1>2. \A x, y \in Nat : x * y \in Nat
  OBVIOUS
<1>. QED
  BY <1>1, <1>2 DEF Heuristic

\* The heuristic never overrates a move: what it gives up on the way from c to d is at
\* most what the move costs, times the inflation.
LEMMA HeuristicIsConsistent ==
    ASSUME NEW q, Sound(q), q.goal \in Cells, NEW c \in Cells, NEW d \in Cells, d \in Neighbours(c)
    PROVE  Heuristic(q, c) <= Epsilon * MoveCost(q, c, d) + Heuristic(q, d)
<1>. DEFINE l1 == Length[SquareOfDistance(c, q.goal)]
            l2 == Length[SquareOfDistance(d, q.goal)]
            step == StepLength(c, d)
            rate == q.least
            per == q.perLength[d]
            cell == q.perCell[d]
<1>1. l1 \in Nat /\ l2 \in Nat /\ l1 <= step + l2
  BY DistanceInRange, LengthIsRoot, StepShortens
<1>2. step \in Nat
  BY DEF StepLength
<1>3. rate \in Nat /\ per \in Nat /\ cell \in Nat /\ rate <= Epsilon * per
  BY DEF Sound
<1>. HIDE DEF l1, l2, step, rate, per, cell
<1>4. Epsilon \in Nat
  BY SearchAssumption
<1>5. rate * l1 <= rate * (step + l2)
  BY <1>1, <1>2, <1>3
<1>6. rate * (step + l2) = rate * step + rate * l2
  BY <1>1, <1>2, <1>3
<1>7. rate * step <= (Epsilon * per) * step
  <2>1. Epsilon * per \in Nat
    BY <1>3, <1>4
  <2>. DEFINE x == Epsilon * per
  <2>. HIDE DEF x
  <2>2. x \in Nat /\ rate <= x => rate * step <= x * step
    BY <1>2, <1>3
  <2>. QED
    BY <1>3, <2>1, <2>2 DEF x
<1>8. Epsilon * (per * step + cell) = (Epsilon * per) * step + Epsilon * cell
  BY <1>2, <1>3, <1>4
<1>9. Epsilon * cell \in Nat
  BY <1>3, <1>4
<1>10. rate * l1 \in Int /\ rate * step \in Int /\ rate * l2 \in Int /\ (Epsilon * per) * step \in Int
  BY <1>1, <1>2, <1>3, <1>4
<1>11. rate * l1 <= Epsilon * (per * step + cell) + rate * l2
  BY <1>5, <1>6, <1>7, <1>8, <1>9, <1>10
<1>. QED
  BY <1>11 DEF Heuristic, MoveCost, l1, l2, step, rate, per, cell

-----------------------------------------------------------------------------
(* The cheapest ways                                                       *)

\* Finitely many arguments, finitely many values.
LEMMA ImageIsFinite ==
    ASSUME NEW S, IsFiniteSet(S), NEW f
    PROVE  IsFiniteSet({f[x] : x \in S})
<1>. DEFINE T == {f[x] : x \in S}
            h == [x \in S |-> f[x]]
<1>1. h \in Surjection(S, T)
  BY DEF Surjection
<1>. QED
  BY <1>1, FS_Surjection

\* The world is finite.
LEMMA CellsAreFinite == IsFiniteSet(Cells)
<1>1. IsFiniteSet(0 .. NX - 1) /\ IsFiniteSet(0 .. NY - 1)
  BY FS_Interval, GridAssumption
<1>. QED
  BY <1>1, FS_Product DEF Cells

\* Costs of the cells, as the relaxation keeps them.
Labels == [Cells -> Nat \cup {Unseen}]

\* What the ways from the start to c cost: the least family of sets closed under moves.
ClosedUnderMoves(q, T) ==
    /\ q.start \in Cells => 0 \in T[q.start]
    /\ \A b, d \in Cells : \A w \in T[b] : MayEnter(q, b, d) => w + MoveCost(q, b, d) \in T[d]

WayCosts(q, c) == {w \in Nat : \A T \in [Cells -> SUBSET Nat] : ClosedUnderMoves(q, T) => w \in T[c]}

\* The start costs nothing, and a way goes on with a move.
LEMMA WayCostsAreClosed ==
    ASSUME NEW q, Sound(q)
    PROVE  /\ q.start \in Cells => 0 \in WayCosts(q, q.start)
           /\ \A b, d \in Cells : \A w \in WayCosts(q, b) :
                  MayEnter(q, b, d) => w + MoveCost(q, b, d) \in WayCosts(q, d)
<1>1. q.start \in Cells => 0 \in WayCosts(q, q.start)
  BY DEF WayCosts, ClosedUnderMoves
<1>2. ASSUME NEW b \in Cells, NEW d \in Cells, NEW w \in WayCosts(q, b), MayEnter(q, b, d)
      PROVE  w + MoveCost(q, b, d) \in WayCosts(q, d)
  <2>1. w \in Nat /\ MoveCost(q, b, d) \in Nat
    BY MoveIsNumber DEF WayCosts
  <2>2. w + MoveCost(q, b, d) \in Nat
    BY <2>1
  <2>3. ASSUME NEW T \in [Cells -> SUBSET Nat], ClosedUnderMoves(q, T)
        PROVE  w + MoveCost(q, b, d) \in T[d]
    <3>1. w \in T[b]
      BY <2>3 DEF WayCosts
    <3>. QED
      BY <1>2, <2>3, <3>1 DEF ClosedUnderMoves
  <2>. QED
    BY <2>2, <2>3 DEF WayCosts
<1>. QED
  BY <1>1, <1>2

\* What one round of relaxation does to each cell.
LEMMA Relaxes ==
    ASSUME NEW q, Sound(q), NEW costs \in Labels, NEW new, new = Relaxation(q)[costs]
    PROVE  /\ new \in Labels
           /\ \A d \in Cells :
                 /\ new[d] = Unseen => costs[d] = Unseen
                 /\ new[d] # Unseen =>
                       \/ new[d] = costs[d]
                       \/ \E b \in Cells : /\ costs[b] # Unseen /\ MayEnter(q, b, d)
                                           /\ new[d] = costs[b] + MoveCost(q, b, d)
                 /\ costs[d] # Unseen => new[d] <= costs[d]
                 /\ \A b \in Cells : costs[b] # Unseen /\ MayEnter(q, b, d) =>
                       new[d] # Unseen /\ new[d] <= costs[b] + MoveCost(q, b, d)
<1>. DEFINE Over(d) == {b \in Cells : costs[b] # Unseen /\ MayEnter(q, b, d)}
            Ways(d) == {costs[b] + MoveCost(q, b, d) : b \in Over(d)} \cup ({costs[d]} \ {Unseen})
            Least(d) == CHOOSE w \in Ways(d) : \A v \in Ways(d) : w <= v
<1>1. new = [d \in Cells |-> IF Ways(d) = {} THEN Unseen ELSE Least(d)]
  BY Zenon DEF Relaxation, Labels
<1>2. ASSUME NEW d \in Cells PROVE Ways(d) \in SUBSET Nat
  <2>1. \A b \in Cells : costs[b] # Unseen => costs[b] \in Nat
    BY DEF Labels, Unseen
  <2>2. \A b \in Cells : MoveCost(q, b, d) \in Nat
    BY MoveIsNumber
  <2>3. \A x, y \in Nat : x + y \in Nat
    OBVIOUS
  <2>. QED
    BY <2>1, <2>2, <2>3
<1>3. ASSUME NEW d \in Cells, Ways(d) # {}
      PROVE  Least(d) \in Ways(d) /\ \A v \in Ways(d) : Least(d) <= v
  <2>1. \E w \in Ways(d) : \A v \in Ways(d) : w <= v
    <3>. HIDE DEF Ways
    <3>. QED
      BY <1>2, <1>3, LeastNatural
  <2>. HIDE DEF Ways
  <2>. QED
    BY <2>1
<1>4. Unseen \notin Nat
  BY DEF Unseen
<1>5. ASSUME NEW d \in Cells
      PROVE  /\ new[d] \in Nat \cup {Unseen}
             /\ new[d] = Unseen <=> Ways(d) = {}
             /\ new[d] # Unseen => new[d] \in Ways(d)
             /\ \A v \in Ways(d) : new[d] <= v
  <2>. HIDE DEF Ways, Least
  <2>. QED
    BY <1>1, <1>2, <1>3, <1>4
<1>6. new \in Labels
  <2>. HIDE DEF Ways, Least
  <2>. QED
    BY <1>1, <1>5 DEF Labels
<1>. HIDE DEF Least
<1>7. ASSUME NEW d \in Cells
      PROVE  /\ new[d] = Unseen => costs[d] = Unseen
             /\ new[d] # Unseen =>
                       \/ new[d] = costs[d]
                       \/ \E b \in Cells : /\ costs[b] # Unseen /\ MayEnter(q, b, d)
                                           /\ new[d] = costs[b] + MoveCost(q, b, d)
             /\ costs[d] # Unseen => new[d] <= costs[d]
             /\ \A b \in Cells : costs[b] # Unseen /\ MayEnter(q, b, d) =>
                       new[d] # Unseen /\ new[d] <= costs[b] + MoveCost(q, b, d)
  <2>1. costs[d] # Unseen => costs[d] \in Ways(d)
    OBVIOUS
  <2>2. ASSUME NEW b \in Cells, costs[b] # Unseen, MayEnter(q, b, d)
        PROVE  costs[b] + MoveCost(q, b, d) \in Ways(d)
    BY <2>2
  <2>3. ASSUME NEW w \in Ways(d)
        PROVE  \/ w = costs[d]
               \/ \E b \in Cells : /\ costs[b] # Unseen /\ MayEnter(q, b, d)
                                   /\ w = costs[b] + MoveCost(q, b, d)
    OBVIOUS
  <2>. HIDE DEF Ways
  <2>. QED
    BY <1>5, <2>1, <2>2, <2>3
<1>. QED
  BY <1>6, <1>7

\* Relaxation comes to an end: no cell is forgotten, no cost grows.
LEMMA RelaxationEnds ==
    ASSUME NEW q, Sound(q), NEW x \in Labels
    PROVE  /\ Relaxation(q) \in [Labels -> Labels]
           /\ \E p \in Orbit(Labels, Relaxation(q), x) : Relaxation(q)[p] = p
<1>. DEFINE step == Relaxation(q)
            O == Orbit(Labels, step, x)
            Open(y) == {c \in Cells : y[c] = Unseen}
            Part(y) == [c \in Cells |-> {c} \X (0 .. y[c] - 1)]
            Below(y) == UNION {Part(y)[c] : c \in Cells}
<1>1. step \in [Labels -> Labels]
  <2>1. step = [y \in Labels |-> step[y]]
    BY DEF Relaxation, Labels
  <2>2. \A y \in Labels : step[y] \in Labels
    BY Relaxes
  <2>. HIDE DEF step
  <2>. QED
    BY <2>1, <2>2
<1>2. O \subseteq Labels /\ x \in O /\ \A y \in O : step[y] \in O
  <2>1. O \subseteq Labels
    BY DEF Orbit
  <2>. HIDE DEF step
  <2>. QED
    BY <1>1, <2>1, OrbitUnfolds
<1>3. \A y \in O : \A d \in Cells :
          /\ y[d] \in Nat \cup {Unseen} /\ step[y][d] \in Nat \cup {Unseen}
          /\ step[y][d] = Unseen => y[d] = Unseen
          /\ y[d] # Unseen => step[y][d] <= y[d]
  BY <1>2, Relaxes DEF Labels
<1>4. \A y \in O : IsFiniteSet(Open(y))
  BY CellsAreFinite, FS_Subset
<1>5. ASSUME NEW y \in O PROVE IsFiniteSet(Below(y))
  <2>1. ASSUME NEW c \in Cells PROVE IsFiniteSet(Part(y)[c])
    <3>1. y[c] - 1 \in Int
      BY <1>3 DEF Unseen
    <3>2. IsFiniteSet(0 .. y[c] - 1) /\ IsFiniteSet({c})
      <4>1. \A n \in Int : IsFiniteSet(0 .. n)
        BY FS_Interval
      <4>2. IsFiniteSet({c})
        BY FS_Singleton
      <4>. QED
        BY <3>1, <4>1, <4>2
    <3>. QED
      BY <3>2, FS_Product
  <2>2. IsFiniteSet({Part(y)[c] : c \in Cells})
    <3>. HIDE DEF Part
    <3>. QED
      BY CellsAreFinite, ImageIsFinite
  <2>. HIDE DEF Part
  <2>. QED
    BY <2>1, <2>2, FS_UNION
<1>6. ASSUME NEW y \in O, NEW c \in Cells, NEW v
      PROVE  <<c, v>> \in Below(y) <=> v \in 0 .. y[c] - 1
  OBVIOUS
<1>. HIDE DEF step, O, Open, Below
<1>7. PICK y1 \in O : \A z \in O : Open(z) \subseteq Open(y1) => Open(z) = Open(y1)
  <2>. DEFINE F == {Open(y) : y \in O}
  <2>1. F # {} /\ \A U \in F : IsFiniteSet(U)
    BY <1>2, <1>4
  <2>2. \E U \in F : \A V \in F : V \subseteq U => V = U
    <3>. HIDE DEF F
    <3>. QED
      BY <2>1, FiniteMinimal
  <2>. QED
    BY <2>2
<1>8. PICK y2 \in O : /\ Open(y2) = Open(y1)
                      /\ \A z \in O : Open(z) = Open(y1) /\ Below(z) \subseteq Below(y2) => Below(z) = Below(y2)
  <2>. DEFINE P == {y \in O : Open(y) = Open(y1)}
              F == {Below(y) : y \in P}
  <2>1. F # {} /\ \A U \in F : IsFiniteSet(U)
    BY <1>5
  <2>2. \E U \in F : \A V \in F : V \subseteq U => V = U
    <3>. HIDE DEF F
    <3>. QED
      BY <2>1, FiniteMinimal
  <2>. QED
    BY <2>2
<1>. DEFINE z == step[y2]
<1>9. z \in O
  BY <1>2
<1>10. Open(z) = Open(y1)
  <2>1. Open(z) \subseteq Open(y2)
    BY <1>3 DEF Open
  <2>. QED
    BY <1>7, <1>8, <1>9, <2>1
<1>11. Below(z) = Below(y2)
  <2>1. \A c \in Cells : z[c] \in Nat \cup {Unseen} /\ y2[c] \in Nat \cup {Unseen}
                            /\ (z[c] = Unseen <=> y2[c] = Unseen) /\ (y2[c] # Unseen => z[c] <= y2[c])
    BY <1>3, <1>8, <1>10 DEF Open
  <2>2. \A c \in Cells : 0 .. z[c] - 1 \subseteq 0 .. y2[c] - 1
    BY <2>1 DEF Unseen
  <2>3. \A t \in Below(z) : \E c \in Cells : \E v \in 0 .. z[c] - 1 : t = <<c, v>>
    BY DEF Below
  <2>4. Below(z) \subseteq Below(y2)
    BY <1>6, <2>2, <2>3
  <2>. QED
    BY <1>8, <1>9, <1>10, <2>4
<1>12. \A c \in Cells : z[c] = y2[c]
  <2>1. SUFFICES ASSUME NEW c \in Cells, z[c] # y2[c] PROVE FALSE
    OBVIOUS
  <2>2. z[c] \in Nat \cup {Unseen} /\ y2[c] \in Nat \cup {Unseen}
           /\ (z[c] = Unseen <=> y2[c] = Unseen) /\ (y2[c] # Unseen => z[c] <= y2[c])
    BY <1>3, <1>8, <1>10 DEF Open
  <2>3. z[c] \in 0 .. y2[c] - 1 /\ z[c] \notin 0 .. z[c] - 1
    BY <2>1, <2>2 DEF Unseen
  <2>. QED
    BY <1>6, <1>9, <1>11, <2>3
<1>13. z = y2
  <2>1. z \in Labels /\ y2 \in Labels
    BY <1>2, <1>9
  <2>. HIDE DEF z
  <2>. QED
    BY <1>12, <2>1 DEF Labels
<1>. QED
  BY <1>1, <1>13 DEF step, O

\* CheapestCosts is what its name says.
LEMMA CheapestCostsAreTheLeast ==
    ASSUME NEW q, Sound(q)
    PROVE  /\ CheapestCosts(q) \in Labels
           /\ \A c \in Cells :
                 /\ CheapestCosts(q)[c] # Unseen => CheapestCosts(q)[c] \in WayCosts(q, c)
                 /\ \A w \in WayCosts(q, c) : CheapestCosts(q)[c] # Unseen /\ CheapestCosts(q)[c] <= w
<1>. DEFINE x == [c \in Cells |-> IF c = q.start THEN 0 ELSE Unseen]
            step == Relaxation(q)
<1>1. x \in Labels
  BY DEF Labels
<1>. HIDE DEF x
<1>2. step \in [Labels -> Labels] /\ \E p \in Orbit(Labels, step, x) : step[p] = p
  BY <1>1, RelaxationEnds
<1>3. PICK p \in Orbit(Labels, step, x) : step[p] = p
  BY <1>2
<1>. HIDE DEF step
<1>4. CheapestCosts(q) = p
  <2>1. Limit(Labels, step, x) = p
    BY <1>1, <1>2, <1>3, LimitIsTheEnd
  <2>. QED
    BY <2>1, Zenon DEF CheapestCosts, Labels, step, x
<1>5. /\ p \in Labels
      /\ \A c \in Cells : p[c] # Unseen => p[c] \in WayCosts(q, c)
      /\ q.start \in Cells => p[q.start] = 0
  <2>. DEFINE T == {y \in Labels : /\ \A c \in Cells : y[c] # Unseen => y[c] \in WayCosts(q, c)
                                   /\ q.start \in Cells => y[q.start] = 0}
  <2>1. x \in T
    <3>1. q.start \in Cells => x[q.start] = 0
      BY DEF x
    <3>2. \A c \in Cells : x[c] # Unseen => c = q.start /\ x[c] = 0
      BY DEF x
    <3>. QED
      BY <1>1, <3>1, <3>2, WayCostsAreClosed
  <2>2. ASSUME NEW y \in T PROVE step[y] \in T
    <3>1. step[y] \in Labels /\ y \in Labels
      BY <1>2
    <3>2. ASSUME NEW c \in Cells, step[y][c] # Unseen PROVE step[y][c] \in WayCosts(q, c)
      <4>1. \/ step[y][c] = y[c]
            \/ \E b \in Cells : y[b] # Unseen /\ MayEnter(q, b, c) /\ step[y][c] = y[b] + MoveCost(q, b, c)
        BY <3>1, <3>2, Relaxes DEF step
      <4>. QED
        BY <3>2, <4>1, WayCostsAreClosed
    <3>3. ASSUME q.start \in Cells PROVE step[y][q.start] = 0
      <4>1. y[q.start] = 0 /\ 0 # Unseen
        BY <3>3 DEF Unseen
      <4>2. step[y][q.start] # Unseen /\ step[y][q.start] <= 0
        BY <3>1, <3>3, <4>1, Relaxes DEF step
      <4>3. step[y][q.start] \in Nat
        BY <3>1, <3>3, <4>2 DEF Labels
      <4>. QED
        BY <4>2, <4>3
    <3>. QED
      BY <3>1, <3>2, <3>3
  <2>3. p \in T
    BY <1>3, <2>1, <2>2 DEF Orbit
  <2>. QED
    BY <2>3
<1>6. ASSUME NEW c \in Cells, NEW w \in WayCosts(q, c) PROVE p[c] # Unseen /\ p[c] <= w
  <2>. DEFINE Good(d, v) == p[d] # Unseen /\ p[d] <= v
              T == [d \in Cells |-> {v \in Nat : Good(d, v)}]
  <2>1. q.start \in Cells => 0 \in T[q.start]
    BY <1>5 DEF Unseen
  <2>2. ASSUME NEW b \in Cells, NEW d \in Cells, NEW v \in T[b], MayEnter(q, b, d)
        PROVE  v + MoveCost(q, b, d) \in T[d]
    <3>1. p[b] # Unseen /\ p[b] <= v /\ v \in Nat
      OBVIOUS
    <3>2. p[d] # Unseen /\ p[d] <= p[b] + MoveCost(q, b, d)
      BY <1>3, <1>5, <2>2, <3>1, Relaxes DEF step
    <3>3. MoveCost(q, b, d) \in Nat /\ p[b] \in Nat /\ p[d] \in Nat
      BY <1>5, <3>1, <3>2, MoveIsNumber DEF Labels
    <3>. QED
      BY <3>1, <3>2, <3>3
  <2>3. T \in [Cells -> SUBSET Nat]
    OBVIOUS
  <2>. HIDE DEF T
  <2>4. w \in T[c]
    BY <2>1, <2>2, <2>3 DEF WayCosts, ClosedUnderMoves
  <2>. QED
    BY <2>4 DEF T
<1>. QED
  BY <1>4, <1>5, <1>6

-----------------------------------------------------------------------------
(* The search                                                              *)

\* What a search that was taken up can be in.
Answers == {"searching", "found", "unreachable"}

\* The inductive invariant of the search: what is recorded is the cost of some way, the
\* open cells are in the heap, a settled cell has passed on its cost, and its own is that
\* of the cheapest way up to the inflation.
SearchInv ==
    /\ Sound(query) /\ Objection(query) = "none"
    /\ g \in Labels /\ closed \subseteq Cells
    /\ \A c \in Cells : g[c] # Unseen => g[c] \in WayCosts(query, c)
    /\ g[query.start] = 0
    /\ \A n \in frontier : /\ n[3] \in Cells /\ n[1] \in Int /\ g[n[3]] # Unseen
                           /\ n[3] \notin closed => g[n[3]] + Heuristic(query, n[3]) <= n[1]
    /\ \A c \in Cells \ closed : g[c] # Unseen =>
           <<g[c] + Heuristic(query, c), Heuristic(query, c), c>> \in frontier
    /\ \A c \in closed : g[c] # Unseen
    /\ \A c \in closed \ {query.goal} : \A d \in Cells : MayEnter(query, c, d) =>
           g[d] # Unseen /\ (d \notin closed => g[d] <= g[c] + MoveCost(query, c, d))
    /\ query.goal \in closed <=> outcome = "found"
    /\ \A c \in closed : \A w \in WayCosts(query, c) : g[c] <= Epsilon * w

\* A search is only taken up between two cells of the world.
LEMMA EndsAreCells ==
    ASSUME NEW q, Objection(q) = "none"
    PROVE  q.start \in Cells /\ q.goal \in Cells
BY DEF Objection

\* The first open cell on a way: whatever the way costs, it is already known how to get
\* that far for no more than the inflation allows.
LEMMA SomeOpenCellIsOnTheWay ==
    ASSUME SearchInv, outcome = "searching",
           NEW c \in Cells \ closed, NEW w \in WayCosts(query, c)
    PROVE  \E d \in Cells \ closed :
              /\ g[d] # Unseen
              /\ g[d] + Heuristic(query, d) <= Epsilon * w + Heuristic(query, c)
<1>. DEFINE Ahead(b, v) == \E d \in Cells \ closed :
                /\ g[d] # Unseen
                /\ g[d] + Heuristic(query, d) <= Epsilon * v + Heuristic(query, b)
            Claim(b, v) == v \in WayCosts(query, b) /\ (b \in closed \/ Ahead(b, v))
            T == [b \in Cells |-> {v \in Nat : Claim(b, v)}]
<1>0. Sound(query) /\ query.start \in Cells /\ query.goal \in Cells /\ Epsilon \in Nat /\ Epsilon >= 1
  BY EndsAreCells, SearchAssumption DEF SearchInv
<1>1. \A b \in Cells : Heuristic(query, b) \in Nat /\ (g[b] # Unseen => g[b] \in Nat)
  BY <1>0, HeuristicIsNumber DEF SearchInv, Labels
<1>2. 0 \in T[query.start]
  <2>1. query.start \notin closed => Ahead(query.start, 0)
    BY <1>0, <1>1 DEF SearchInv, Unseen
  <2>. QED
    BY <1>0, <2>1, WayCostsAreClosed
<1>3. ASSUME NEW a \in Cells, NEW b \in Cells, NEW v \in T[a], MayEnter(query, a, b)
      PROVE  v + MoveCost(query, a, b) \in T[b]
  <2>. DEFINE m == MoveCost(query, a, b)
  <2>1. v \in Nat /\ Claim(a, v) /\ m \in Nat
    BY <1>0, MoveIsNumber
  <2>2. v + m \in WayCosts(query, b)
    BY <1>0, <1>3, <2>1, WayCostsAreClosed
  <2>3. Epsilon * v \in Nat /\ Epsilon * m \in Nat /\ Epsilon * (v + m) = Epsilon * v + Epsilon * m /\ m <= Epsilon * m
    BY <1>0, <2>1
  <2>4. ASSUME b \notin closed, a \in closed PROVE Ahead(b, v + m)
    <3>1. a # query.goal
      BY <2>4 DEF SearchInv
    <3>2. g[b] # Unseen /\ g[b] <= g[a] + m
      BY <1>3, <2>4, <3>1 DEF SearchInv
    <3>3. g[a] <= Epsilon * v /\ g[a] # Unseen
      BY <2>1, <2>4 DEF SearchInv
    <3>. HIDE DEF m
    <3>4. g[b] + Heuristic(query, b) <= Epsilon * (v + m) + Heuristic(query, b)
      BY <1>1, <2>1, <2>3, <3>2, <3>3
    <3>. QED
      BY <2>4, <3>2, <3>4
  <2>5. ASSUME b \notin closed, a \notin closed PROVE Ahead(b, v + m)
    <3>1. PICK d \in Cells \ closed :
              g[d] # Unseen /\ g[d] + Heuristic(query, d) <= Epsilon * v + Heuristic(query, a)
      BY <2>1, <2>5
    <3>2. Heuristic(query, a) <= Epsilon * m + Heuristic(query, b)
      BY <1>0, <1>3, HeuristicIsConsistent DEF MayEnter
    <3>. HIDE DEF m
    <3>3. g[d] + Heuristic(query, d) <= Epsilon * (v + m) + Heuristic(query, b)
      BY <1>1, <2>1, <2>3, <3>1, <3>2
    <3>. QED
      BY <3>1, <3>3
  <2>. QED
    BY <2>1, <2>2, <2>4, <2>5
<1>4. T \in [Cells -> SUBSET Nat]
  OBVIOUS
<1>5. w \in T[c]
  <2>. HIDE DEF T
  <2>. QED
    BY <1>2, <1>3, <1>4 DEF WayCosts, ClosedUnderMoves
<1>. QED
  BY <1>5

\* The top of the heap has a cost no way beats by more than the inflation.
LEMMA PoppedIsSettled ==
    ASSUME SearchInv, outcome = "searching", NEW node \in frontier,
           \A other \in frontier \ {node} : Before(node, other),
           node[3] \notin closed, NEW w \in WayCosts(query, node[3])
    PROVE  g[node[3]] <= Epsilon * w
<1>. DEFINE c == node[3]
<1>0. Sound(query) /\ query.goal \in Cells /\ Epsilon \in Nat /\ c \in Cells /\ w \in Nat
  BY EndsAreCells, SearchAssumption DEF SearchInv, WayCosts
<1>1. \A b \in Cells : Heuristic(query, b) \in Nat /\ (g[b] # Unseen => g[b] \in Nat)
  BY <1>0, HeuristicIsNumber DEF SearchInv, Labels
<1>2. PICK d \in Cells \ closed :
          g[d] # Unseen /\ g[d] + Heuristic(query, d) <= Epsilon * w + Heuristic(query, c)
  BY <1>0, SomeOpenCellIsOnTheWay
<1>3. node[1] <= g[d] + Heuristic(query, d)
  <2>. DEFINE other == <<g[d] + Heuristic(query, d), Heuristic(query, d), d>>
  <2>1. other \in frontier
    BY <1>2 DEF SearchInv
  <2>2. node = other \/ node[1] <= other[1]
    BY <2>1 DEF Before, SearchInv
  <2>. QED
    BY <1>1, <1>2, <2>2
<1>4. g[c] # Unseen /\ g[c] + Heuristic(query, c) <= node[1] /\ node[1] \in Int
  BY DEF SearchInv
<1>5. Epsilon * w \in Nat
  BY <1>0
<1>. HIDE DEF c
<1>6. g[c] <= Epsilon * w
  BY <1>0, <1>1, <1>2, <1>3, <1>4, <1>5
<1>. QED
  BY <1>6 DEF c

\* One turn of the loop that settles c, which is not the goal.
Settles(node) ==
    LET c == node[3]
    IN  /\ closed' = closed \cup {c}
        /\ g' = [d \in Cells |-> IF d \in Relaxed(c) THEN g[c] + MoveCost(query, c, d) ELSE g[d]]
        /\ frontier' = (frontier \ {node}) \cup
               {<<g'[d] + Heuristic(query, d), Heuristic(query, d), d>> : d \in Relaxed(c)}

\* Settling a cell and relaxing its neighbours keeps the invariant.
LEMMA SettlingKeepsSearch ==
    ASSUME SearchInv, outcome = "searching", NEW node \in frontier,
           \A other \in frontier \ {node} : Before(node, other),
           node[3] \notin closed, node[3] # query.goal, Settles(node),
           query' = query, outcome' = outcome
    PROVE  SearchInv'
<1>. DEFINE c == node[3]
            R == Relaxed(c)
            H(d) == Heuristic(query, d)
            M(d) == MoveCost(query, c, d)
            Node(d) == <<g'[d] + H(d), H(d), d>>
<1>1. /\ Sound(query) /\ Objection(query) = "none" /\ query.start \in Cells /\ query.goal \in Cells
      /\ c \in Cells /\ g[c] # Unseen /\ g[c] \in Nat
  BY EndsAreCells DEF SearchInv, Labels
<1>2. \A d \in Cells : H(d) \in Nat /\ M(d) \in Nat /\ g[d] \in Nat \cup {Unseen}
  BY <1>1, HeuristicIsNumber, MoveIsNumber DEF SearchInv, Labels
<1>3. /\ R \subseteq Cells \ (closed \cup {c})
      /\ \A d \in R : MayEnter(query, c, d) /\ (g[d] # Unseen => g[c] + M(d) < g[d])
      /\ \A d \in Cells \ (closed \cup {c}) :
            MayEnter(query, c, d) /\ d \notin R => g[d] # Unseen /\ g[d] <= g[c] + M(d)
  <2>1. \A d \in Cells : ~(g[c] + M(d) < g[d]) /\ g[d] # Unseen => g[d] <= g[c] + M(d)
    BY <1>1, <1>2
  <2>. QED
    BY <2>1 DEF Relaxed, Improves
<1>4. /\ \A d \in R : g'[d] = g[c] + M(d) /\ g'[d] \in Nat
      /\ \A d \in Cells \ R : g'[d] = g[d]
      /\ \A d \in Cells : g[d] # Unseen => g'[d] # Unseen /\ g'[d] <= g[d]
      /\ g' \in Labels
  <2>1. \A d \in R : g'[d] = g[c] + M(d) /\ d \in Cells
    BY <1>3 DEF Settles
  <2>2. \A d \in R : g[c] + M(d) \in Nat
    BY <1>1, <1>2, <1>3
  <2>3. \A d \in Cells \ R : g'[d] = g[d]
    BY DEF Settles
  <2>4. ASSUME NEW d \in Cells, g[d] # Unseen PROVE g'[d] # Unseen /\ g'[d] <= g[d]
    <3>1. g[d] \in Nat
      BY <1>2, <2>4
    <3>2. CASE d \in R
      <4>. HIDE DEF R, M
      <4>. QED
        BY <1>3, <2>1, <2>2, <2>4, <3>1, <3>2 DEF Unseen
    <3>3. CASE d \notin R
      BY <2>3, <2>4, <3>1, <3>3
    <3>. QED
      BY <3>2, <3>3
  <2>5. g' = [d \in Cells |-> g'[d]]
    BY DEF Settles
  <2>6. \A d \in Cells : g'[d] \in Nat \cup {Unseen}
    BY <1>2, <2>1, <2>2, <2>3
  <2>7. g' \in Labels
    BY <2>5, <2>6 DEF Labels
  <2>. QED
    BY <2>1, <2>2, <2>3, <2>4, <2>7
<1>5. closed' = closed \cup {c} /\ closed' \subseteq Cells
  BY <1>1 DEF Settles, SearchInv
<1>6. ASSUME NEW d \in Cells, g'[d] # Unseen PROVE g'[d] \in WayCosts(query, d)
  <2>1. CASE d \in R
    <3>1. g[c] \in WayCosts(query, c) /\ MayEnter(query, c, d)
      BY <1>1, <1>3, <2>1 DEF SearchInv
    <3>. QED
      BY <1>1, <1>4, <2>1, <3>1, WayCostsAreClosed
  <2>2. CASE d \notin R
    BY <1>4, <1>6, <2>2 DEF SearchInv
  <2>. QED
    BY <2>1, <2>2
<1>7. g'[query.start] = 0
  <2>1. g[query.start] = 0 /\ 0 # Unseen
    BY DEF SearchInv, Unseen
  <2>2. g'[query.start] <= 0 /\ g'[query.start] # Unseen /\ g'[query.start] \in Nat \cup {Unseen}
    BY <1>1, <1>4, <2>1 DEF Labels
  <2>. QED
    BY <2>2
<1>8. \A n \in frontier' : \/ n \in frontier /\ n # node
                           \/ \E d \in R : n = Node(d)
  BY DEF Settles
<1>9. ASSUME NEW n \in frontier'
      PROVE  /\ n[3] \in Cells /\ n[1] \in Int /\ g'[n[3]] # Unseen
             /\ n[3] \notin closed' => g'[n[3]] + H(n[3]) <= n[1]
  <2>1. CASE n \in frontier
    <3>1. /\ n[3] \in Cells /\ n[1] \in Int /\ g[n[3]] # Unseen
          /\ n[3] \notin closed => g[n[3]] + H(n[3]) <= n[1]
      BY <2>1 DEF SearchInv
    <3>2. g'[n[3]] # Unseen /\ g'[n[3]] <= g[n[3]] /\ g[n[3]] \in Nat /\ g'[n[3]] \in Nat /\ H(n[3]) \in Nat
      BY <1>2, <1>4, <3>1 DEF Labels
    <3>. HIDE DEF H
    <3>. QED
      BY <1>5, <3>1, <3>2
  <2>2. ASSUME NEW d \in R, n = Node(d) PROVE <1>9!2
    <3>1. n[3] = d /\ n[1] = g'[d] + H(d)
      BY <2>2
    <3>2. d \in Cells /\ g'[d] \in Nat /\ H(d) \in Nat
      BY <1>2, <1>3, <1>4
    <3>. HIDE DEF H
    <3>3. n[1] \in Int /\ g'[d] + H(d) <= n[1] /\ g'[d] # Unseen
      BY <3>1, <3>2 DEF Unseen
    <3>. QED
      BY <3>1, <3>2, <3>3
  <2>. QED
    BY <1>8, <2>1, <2>2
<1>10. ASSUME NEW d \in Cells \ closed', g'[d] # Unseen PROVE Node(d) \in frontier'
  <2>1. CASE d \in R
    BY <2>1 DEF Settles
  <2>2. CASE d \notin R
    <3>1. g'[d] = g[d] /\ d \notin closed /\ d # c
      BY <1>4, <1>5, <2>2
    <3>2. Node(d) \in frontier
      BY <1>10, <3>1 DEF SearchInv
    <3>3. Node(d) # node
      BY <3>1
    <3>. QED
      BY <3>2, <3>3 DEF Settles
  <2>. QED
    BY <2>1, <2>2
<1>11. \A b \in closed' : g'[b] # Unseen
  BY <1>1, <1>4, <1>5 DEF SearchInv
<1>12. ASSUME NEW b \in closed' \ {query.goal}, NEW d \in Cells, MayEnter(query, b, d)
       PROVE  g'[d] # Unseen /\ (d \notin closed' => g'[d] <= g'[b] + MoveCost(query, b, d))
  <2>0. b \in Cells /\ b \notin R /\ g'[b] = g[b] /\ g[b] \in Nat /\ MoveCost(query, b, d) \in Nat
    BY <1>1, <1>2, <1>3, <1>4, <1>5, MoveIsNumber DEF SearchInv
  <2>1. CASE b = c
    <3>1. CASE d \in closed \/ d = c
      BY <1>4, <1>1, <1>5, <3>1 DEF SearchInv
    <3>2. CASE d \in R
      <4>1. g'[d] = g[c] + M(d) /\ g'[d] \in Nat
        BY <1>4, <3>2
      <4>. QED
        BY <2>0, <2>1, <4>1 DEF Unseen
    <3>3. CASE d \notin R /\ d \notin closed /\ d # c
      <4>1. g[d] # Unseen /\ g[d] <= g[c] + M(d) /\ g'[d] = g[d]
        BY <1>3, <1>4, <1>12, <2>1, <3>3
      <4>. QED
        BY <2>0, <2>1, <4>1
    <3>. QED
      BY <3>1, <3>2, <3>3
  <2>2. CASE b # c
    <3>1. b \in closed
      BY <1>5, <2>2
    <3>2. g[d] # Unseen /\ (d \notin closed => g[d] <= g[b] + MoveCost(query, b, d))
      BY <1>12, <3>1 DEF SearchInv
    <3>3. g'[d] # Unseen /\ g'[d] <= g[d] /\ g[d] \in Nat /\ g'[d] \in Nat
      BY <1>2, <1>4, <3>2 DEF Labels
    <3>. QED
      BY <1>5, <2>0, <3>2, <3>3
  <2>. QED
    BY <2>1, <2>2
<1>13. query.goal \in closed' <=> outcome' = "found"
  BY <1>5 DEF SearchInv
<1>14. ASSUME NEW b \in closed', NEW w \in WayCosts(query, b) PROVE g'[b] <= Epsilon * w
  <2>1. b \notin R /\ g'[b] = g[b]
    BY <1>1, <1>3, <1>4, <1>5 DEF SearchInv
  <2>2. CASE b = c
    BY <2>1, <2>2, PoppedIsSettled
  <2>3. CASE b # c
    BY <1>5, <2>1, <2>3 DEF SearchInv
  <2>. QED
    BY <2>2, <2>3
<1>15. query.goal \notin closed' /\ outcome' # "found"
  BY <1>5 DEF SearchInv
<1>. HIDE DEF c, R
<1>. QED
  BY <1>1, <1>4, <1>5, <1>6, <1>7, <1>9, <1>10, <1>11, <1>12, <1>13, <1>14 DEF SearchInv, H

\* One turn of the loop: a stale entry, the goal, or a cell that is settled.
LEMMA ExpandKeepsSearch ==
    ASSUME SearchInv, Expand
    PROVE  SearchInv' /\ outcome' \in {"searching", "found"}
<1>1. PICK node \in frontier : Expand!2!(node)
  BY DEF Expand
<1>. DEFINE c == node[3]
<1>2. /\ \A other \in frontier \ {node} : Before(node, other)
      /\ c \in Cells /\ query' = query /\ outcome = "searching"
  BY <1>1 DEF Expand, SearchInv
<1>3. CASE c \in closed
  <2>1. frontier' = frontier \ {node} /\ UNCHANGED <<g, parent, closed, outcome, query>>
    BY <1>1, <1>2, <1>3
  <2>2. \A d \in Cells \ closed : <<g[d] + Heuristic(query, d), Heuristic(query, d), d>> # node
    BY <1>3
  <2>3. SearchInv'
    BY <2>1, <2>2 DEF SearchInv
  <2>. QED
    BY <1>2, <2>1, <2>3
<1>4. CASE c \notin closed /\ c = query.goal
  <2>1. /\ closed' = closed \cup {c} /\ outcome' = "found" /\ frontier' = frontier \ {node}
        /\ UNCHANGED <<g, parent, query>>
    BY <1>1, <1>2, <1>4
  <2>2. \A d \in Cells \ closed' : <<g[d] + Heuristic(query, d), Heuristic(query, d), d>> # node
    BY <2>1
  <2>3. \A w \in WayCosts(query, c) : g[c] <= Epsilon * w
    BY <1>2, <1>4, PoppedIsSettled
  <2>4. g[c] # Unseen
    BY DEF SearchInv
  <2>5. SearchInv'
    BY <1>2, <1>4, <2>1, <2>2, <2>3, <2>4 DEF SearchInv
  <2>. QED
    BY <2>1, <2>5
<1>5. CASE c \notin closed /\ c # query.goal
  <2>1. Settles(node) /\ outcome' = outcome
    BY <1>1, <1>5, Zenon DEF Settles
  <2>. QED
    BY <1>2, <1>5, <2>1, SettlingKeepsSearch
<1>. QED
  BY <1>3, <1>4, <1>5

-----------------------------------------------------------------------------
(* Refusals                                                                *)

\* A set of cells no move leads out of has no way to the cells outside it.
LEMMA NoWayOut ==
    ASSUME NEW q, Sound(q), NEW S \in SUBSET Cells, q.start \in Cells => q.start \in S,
           \A b \in S : \A d \in Cells : MayEnter(q, b, d) => d \in S,
           q.goal \in Cells \ S
    PROVE  CheapestCosts(q)[q.goal] = Unseen
<1>. DEFINE T == [c \in Cells |-> IF c \in S THEN Nat ELSE {}]
<1>1. T \in [Cells -> SUBSET Nat] /\ T[q.goal] = {}
  OBVIOUS
<1>2. q.start \in Cells => 0 \in T[q.start]
  OBVIOUS
<1>3. ASSUME NEW b \in Cells, NEW d \in Cells, NEW w \in T[b], MayEnter(q, b, d)
      PROVE  w + MoveCost(q, b, d) \in T[d]
  <2>1. MoveCost(q, b, d) \in Nat /\ b \in S /\ w \in Nat
    BY <1>3, MoveIsNumber
  <2>2. d \in S
    BY <1>3, <2>1
  <2>3. w + MoveCost(q, b, d) \in Nat
    BY <2>1
  <2>. QED
    BY <2>2, <2>3
<1>. HIDE DEF T
<1>4. ClosedUnderMoves(q, T)
  BY <1>2, <1>3, Zenon DEF ClosedUnderMoves
<1>5. WayCosts(q, q.goal) = {}
  BY <1>1, <1>4, Zenon DEF WayCosts
<1>. QED
  BY <1>5, CheapestCostsAreTheLeast

\* A region is what it says: free cells, with their free neighbours.
LEMMA RegionIsClosed ==
    ASSUME NEW occupied, NEW c \in Cells \ occupied, NEW R, R = Region(occupied, c)
    PROVE  /\ R \in SUBSET Cells /\ c \in R
           /\ \A e \in R : \A d \in Cells \ occupied : SquareOfDistance(d, e) = 1 => d \in R
<1>. DEFINE S == SUBSET Cells
            step == Grown(occupied)
            x == {c} \ occupied
            O == Orbit(S, step, x)
            Rest(y) == Cells \ y
<1>1. \A y \in S : step[y] = y \cup {d \in Cells \ occupied : \E e \in y : SquareOfDistance(d, e) = 1}
  BY DEF Grown
<1>2. step \in [S -> S]
  <2>1. step = [y \in S |-> step[y]]
    BY DEF Grown
  <2>. HIDE DEF step
  <2>. QED
    BY <1>1, <2>1
<1>3. x \in S /\ c \in x
  OBVIOUS
<1>. HIDE DEF step, x
<1>4. x \in O /\ O \subseteq S /\ \A y \in O : step[y] \in O
  <2>1. O \subseteq S
    BY DEF Orbit
  <2>. QED
    BY <1>2, <1>3, <2>1, OrbitUnfolds
<1>5. \A y \in O : IsFiniteSet(Rest(y))
  BY CellsAreFinite, FS_Subset
<1>. HIDE DEF O, Rest
<1>6. PICK p \in O : \A y \in O : Rest(y) \subseteq Rest(p) => Rest(y) = Rest(p)
  <2>. DEFINE F == {Rest(y) : y \in O}
  <2>1. F # {} /\ \A U \in F : IsFiniteSet(U)
    BY <1>4, <1>5
  <2>2. \E U \in F : \A V \in F : V \subseteq U => V = U
    <3>. HIDE DEF F
    <3>. QED
      BY <2>1, FiniteMinimal
  <2>. QED
    BY <2>2
<1>7. step[p] = p
  <2>1. step[p] \in O /\ p \in S /\ step[p] \in S /\ p \subseteq step[p]
    BY <1>1, <1>4
  <2>. QED
    BY <1>6, <2>1 DEF Rest
<1>8. Region(occupied, c) = p
  <2>1. Limit(S, step, x) = p
    BY <1>2, <1>3, <1>7, LimitIsTheEnd DEF O
  <2>. QED
    BY <2>1, Zenon DEF Region, step, x
<1>9. x \subseteq p
  <2>. DEFINE T == {y \in S : x \subseteq y}
  <2>1. x \in T /\ T \in SUBSET S
    BY <1>3
  <2>2. \A y \in T : step[y] \in T
    BY <1>1, <1>2
  <2>3. p \in T
    BY <2>1, <2>2 DEF O, Orbit
  <2>. QED
    BY <2>3
<1>. QED
  BY <1>1, <1>3, <1>4, <1>7, <1>8, <1>9

\* A move stays in the region: a diagonal one goes past a corner that is not cut.
LEMMA MovesStayInRegion ==
    ASSUME NEW q, q.start \in Cells \ q.occupied,
           NEW b \in Region(q.occupied, q.start), NEW d \in Cells, MayEnter(q, b, d)
    PROVE  d \in Region(q.occupied, q.start)
<1>. DEFINE R == Region(q.occupied, q.start)
<1>1. /\ R \in SUBSET Cells
      /\ \A e \in R : \A f \in Cells \ q.occupied : SquareOfDistance(f, e) = 1 => f \in R
  BY RegionIsClosed
<1>. HIDE DEF R
<1>2. /\ b \in R /\ b \in Cells /\ d \in Cells \ q.occupied /\ SquareOfDistance(b, d) \in {1, 2}
      /\ ~CutsCorner(q, b, d)
  BY <1>1 DEF MayEnter, Fits, Neighbours, R
<1>3. PICK b1 \in 0 .. NX - 1, b2 \in 0 .. NY - 1, d1 \in 0 .. NX - 1, d2 \in 0 .. NY - 1 :
          b = <<b1, b2>> /\ d = <<d1, d2>>
  BY <1>2 DEF Cells
<1>4. b1 \in Int /\ b2 \in Int /\ d1 \in Int /\ d2 \in Int
  BY GridAssumption
<1>5. SquareOfDistance(b, d) = (b1 - d1) * (b1 - d1) + (b2 - d2) * (b2 - d2)
  BY <1>3 DEF SquareOfDistance
<1>6. SquareOfDistance(d, b) = SquareOfDistance(b, d)
  <2>1. \A x, y \in Int : (x - y) * (x - y) = (y - x) * (y - x)
    OBVIOUS
  <2>2. SquareOfDistance(d, b) = (d1 - b1) * (d1 - b1) + (d2 - b2) * (d2 - b2)
    BY <1>3 DEF SquareOfDistance
  <2>. QED
    BY <1>4, <1>5, <2>1, <2>2
<1>7. CASE SquareOfDistance(b, d) = 1
  BY <1>1, <1>2, <1>6, <1>7 DEF R
<1>8. CASE SquareOfDistance(b, d) = 2
  <2>. DEFINE e == <<d1, b2>>
  <2>1. e \in Cells \ q.occupied
    BY <1>2, <1>3, <1>8 DEF CutsCorner, Cells
  <2>2. \A x, y \in Int : x * x + y * y = 2 => x * x = 1 /\ y * y = 1
    <3>1. \A x \in Int : x * x = 0 \/ x * x = 1 \/ x * x >= 4
      <4>1. \A x \in Int : x >= 2 => x * x >= 4
        OBVIOUS
      <4>2. \A x \in Int : x <= -2 => x * x >= 4
        OBVIOUS
      <4>3. \A x \in Int : x \in {-1, 0, 1} \/ x >= 2 \/ x <= -2
        OBVIOUS
      <4>. QED
        BY <4>1, <4>2, <4>3
    <3>. QED
      BY <3>1
  <2>3. (b1 - d1) * (b1 - d1) = 1 /\ (b2 - d2) * (b2 - d2) = 1
    <3>. DEFINE x == b1 - d1
                y == b2 - d2
    <3>1. x \in Int /\ y \in Int /\ x * x + y * y = 2
      BY <1>4, <1>5, <1>8
    <3>. HIDE DEF x, y
    <3>2. x * x = 1 /\ y * y = 1
      BY <2>2, <3>1
    <3>. QED
      BY <3>2 DEF x, y
  <2>4. SquareOfDistance(e, b) = (d1 - b1) * (d1 - b1) + (b2 - b2) * (b2 - b2)
    BY <1>3 DEF SquareOfDistance
  <2>5. SquareOfDistance(d, e) = (d1 - d1) * (d1 - d1) + (d2 - b2) * (d2 - b2)
    BY <1>3 DEF SquareOfDistance
  <2>6. \A x, y \in Int : (x - y) * (x - y) = (y - x) * (y - x) /\ x - x = 0
    OBVIOUS
  <2>7. SquareOfDistance(e, b) = 1 /\ SquareOfDistance(d, e) = 1
    <3>1. (d1 - b1) * (d1 - b1) = 1 /\ (d2 - b2) * (d2 - b2) = 1
      BY <1>4, <2>3, <2>6
    <3>2. b2 - b2 = 0 /\ d1 - d1 = 0
      BY <1>4
    <3>. QED
      BY <2>4, <2>5, <3>1, <3>2
  <2>8. e \in R
    BY <1>1, <1>2, <2>1, <2>7
  <2>. QED
    BY <1>1, <1>2, <2>7, <2>8 DEF R
<1>. QED
  BY <1>2, <1>7, <1>8

\* What a search may have come to, and what is known of it.
SearchRuns ==
    /\ outcome \in {"idle", "searching", "found"} \cup Reasons
    /\ outcome # "idle" => Sound(query)
    /\ outcome \in Answers => SearchInv
    /\ outcome = "unreachable" => frontier = {}
    /\ outcome \in Reasons \ {"unreachable"} => outcome = Objection(query)

\* The validation never claims that the search was exhausted.
LEMMA ObjectionsAreReasons ==
    ASSUME NEW q
    PROVE  Objection(q) \in (Reasons \ {"unreachable"}) \cup {"none"}
BY DEF Objection, Reasons

\* The invariant holds when the search begins, or the refusal is the objection raised.
LEMMA SearchStarts ==
    ASSUME NEW q, Sound(q), Search(q)
    PROVE  SearchRuns'
<1>1. CASE Objection(q) # "none"
  <2>1. outcome' = Objection(q) /\ query' = q
    BY <1>1 DEF Search
  <2>2. outcome' \in Reasons \ {"unreachable"}
    BY <1>1, <2>1, ObjectionsAreReasons
  <2>3. outcome' # "idle" /\ outcome' \notin Answers /\ outcome' \in Reasons
    BY <2>2 DEF Reasons, Answers
  <2>. QED
    BY <2>1, <2>2, <2>3 DEF SearchRuns
<1>2. CASE Objection(q) = "none"
  <2>1. /\ outcome' = "searching" /\ query' = q /\ closed' = {}
        /\ g' = [c \in Cells |-> IF c = q.start THEN 0 ELSE Unseen]
        /\ frontier' = {<<Heuristic(q, q.start), Heuristic(q, q.start), q.start>>}
    BY <1>2 DEF Search
  <2>2. q.start \in Cells /\ q.goal \in Cells
    BY <1>2, EndsAreCells
  <2>3. Heuristic(q, q.start) \in Nat
    BY <2>2, HeuristicIsNumber
  <2>4. g' \in Labels /\ g'[q.start] = 0 /\ \A c \in Cells : g'[c] # Unseen => c = q.start
    BY <2>1, <2>2 DEF Labels
  <2>5. 0 \in WayCosts(q, q.start)
    BY <2>2, WayCostsAreClosed
  <2>. DEFINE h == Heuristic(q, q.start)
  <2>. HIDE DEF h
  <2>6. \A n \in frontier' : /\ n[3] \in Cells /\ n[1] \in Int /\ g'[n[3]] # Unseen
                             /\ n[3] \notin closed' => g'[n[3]] + Heuristic(q, n[3]) <= n[1]
    <3>1. SUFFICES ASSUME NEW n \in frontier'
                   PROVE  /\ n[3] \in Cells /\ n[1] \in Int /\ g'[n[3]] # Unseen
                          /\ g'[n[3]] + Heuristic(q, n[3]) <= n[1]
      OBVIOUS
    <3>2. n[1] = h /\ n[3] = q.start
      BY <2>1 DEF h
    <3>3. h \in Nat /\ 0 # Unseen
      BY <2>3 DEF h, Unseen
    <3>4. Heuristic(q, n[3]) = h
      BY <3>2 DEF h
    <3>. QED
      BY <2>2, <2>4, <3>2, <3>3, <3>4
  <2>7. \A c \in Cells \ closed' : g'[c] # Unseen =>
           <<g'[c] + Heuristic(q, c), Heuristic(q, c), c>> \in frontier'
    <3>1. 0 + h = h
      BY <2>3 DEF h
    <3>2. <<0 + h, h, q.start>> \in frontier'
      BY <2>1, <3>1 DEF h
    <3>. QED
      BY <2>4, <3>2 DEF h
  <2>8. SearchInv'
    BY <1>2, <2>1, <2>2, <2>4, <2>5, <2>6, <2>7 DEF SearchInv
  <2>9. outcome' \notin Reasons
    BY <2>1 DEF Reasons
  <2>. QED
    BY <2>1, <2>8, <2>9 DEF SearchRuns
<1>. QED
  BY <1>1, <1>2

\* "Reject hopeless queries before expanding anything": what is refused cannot be done.
LEMMA RefusedIsHopeless ==
    ASSUME SearchRuns, outcome \in Reasons \ {"start_occupied", "start_too_tight"}, query.goal \in Cells
    PROVE  CheapestCosts(query)[query.goal] = Unseen
<1>. DEFINE q == query
<1>0. Sound(q) /\ q.goal \in Cells
  BY DEF SearchRuns, Reasons
<1>1. CASE outcome = "start_out_of_bounds"
  <2>1. q.start \notin Cells
    BY <1>1 DEF SearchRuns, Objection, Reasons
  <2>. QED
    BY <1>0, <2>1, NoWayOut
<1>2. CASE outcome = "goal_out_of_bounds"
  <2>1. q.goal \notin Cells
    BY <1>2 DEF SearchRuns, Objection, Reasons
  <2>. QED
    BY <1>0, <2>1
<1>3. CASE outcome \in {"goal_occupied", "goal_too_tight"}
  <2>1. Fits(q, q.start) /\ ~Fits(q, q.goal)
    BY <1>3 DEF SearchRuns, Objection, Reasons, Fits
  <2>. DEFINE S == Cells \ {q.goal}
  <2>2. q.start \in Cells => q.start \in S
    BY <2>1
  <2>3. \A b \in S : \A d \in Cells : MayEnter(q, b, d) => d \in S
    BY <2>1 DEF MayEnter
  <2>. QED
    BY <1>0, <2>2, <2>3, NoWayOut
<1>4. CASE outcome = "disconnected"
  <2>. DEFINE R == Region(q.occupied, q.start)
  <2>1. q.start \in Cells \ q.occupied /\ q.goal \notin R
    BY <1>4 DEF SearchRuns, Objection, Reasons, Reachable
  <2>2. R \in SUBSET Cells /\ q.start \in R
    BY <2>1, RegionIsClosed
  <2>3. \A b \in R : \A d \in Cells : MayEnter(q, b, d) => d \in R
    BY <2>1, MovesStayInRegion
  <2>. HIDE DEF R
  <2>. QED
    BY <1>0, <2>1, <2>2, <2>3, NoWayOut
<1>5. CASE outcome = "unreachable"
  <2>1. SearchInv /\ frontier = {}
    BY <1>5 DEF SearchRuns, Answers
  <2>2. q.goal \notin closed /\ closed \in SUBSET Cells
    BY <1>5, <2>1 DEF SearchInv
  <2>3. \A c \in Cells : g[c] # Unseen => c \in closed
    BY <2>1 DEF SearchInv
  <2>4. q.start \in Cells => q.start \in closed
    BY <2>1, <2>3 DEF SearchInv, Unseen
  <2>5. \A b \in closed : \A d \in Cells : MayEnter(q, b, d) => d \in closed
    BY <2>1, <2>2, <2>3 DEF SearchInv
  <2>. QED
    BY <1>0, <2>2, <2>4, <2>5, NoWayOut
<1>. QED
  BY <1>1, <1>2, <1>3, <1>4, <1>5 DEF Reasons

\* What is found costs what the cheapest way does, up to the inflation.
LEMMA FoundIsCheapest ==
    ASSUME SearchRuns, outcome = "found"
    PROVE  /\ query.goal \in Cells /\ Objection(query) = "none"
           /\ g[query.goal] \in Nat
           /\ CheapestCosts(query)[query.goal] \in Nat
           /\ CheapestCosts(query)[query.goal] <= g[query.goal]
           /\ g[query.goal] <= Epsilon * CheapestCosts(query)[query.goal]
<1>1. SearchInv /\ Sound(query) /\ query.goal \in closed
  BY DEF SearchRuns, Answers, SearchInv
<1>2. query.goal \in Cells /\ g[query.goal] # Unseen /\ g[query.goal] \in WayCosts(query, query.goal)
  BY <1>1 DEF SearchInv
<1>3. /\ CheapestCosts(query)[query.goal] # Unseen
      /\ CheapestCosts(query)[query.goal] <= g[query.goal]
      /\ CheapestCosts(query)[query.goal] \in WayCosts(query, query.goal)
  BY <1>1, <1>2, CheapestCostsAreTheLeast
<1>4. g[query.goal] <= Epsilon * CheapestCosts(query)[query.goal]
  BY <1>1, <1>3 DEF SearchInv
<1>. QED
  BY <1>1, <1>2, <1>3, <1>4 DEF SearchInv, WayCosts

\* The property follows.
LEMMA SearchIsRightFrom == SearchRuns => SearchIsRight
BY FoundIsCheapest, RefusedIsHopeless, Zenon DEF SearchIsRight

-----------------------------------------------------------------------------
(* The pass over the missions                                              *)

\* The searches of a pass are sound.
LEMMA QueryIsSound ==
    ASSUME world.map \in Maps, NEW a, NEW m \in Missions
    PROVE  /\ Sound(Query(a, m))
           /\ Query(a, m).start = world.pose[a] /\ Query(a, m).goal = m.goal
<1>1. world.map \in [blocked : SUBSET Cells, covered : SUBSET Cells]
  BY PlannerAssumption
<1>2. Walls \cup world.map.blocked \in SUBSET Cells /\ world.map.covered \in SUBSET Cells
  BY <1>1 DEF Walls
<1>3. m.weights.distance \in Nat /\ m.weights.uncertainty \in Nat /\ m.weights.risk \in Nat
  BY DEF Missions, Weights
<1>4. Sound(Query(a, m))
  BY <1>2, <1>3, BindIsSound DEF Query
<1>. QED
  BY <1>4 DEF Query, Bind

\* What a search that is over says of the agent it was made for.
LEMMA SearchTells ==
    ASSUME SearchRuns, outcome \notin {"idle", "searching"},
           NEW a \in Agent, NEW m, query = Query(a, m)
    PROVE  /\ Feasible <=> a \in Able(m)
           /\ Feasible => /\ g[query.goal] \in Nat
                          /\ Epsilon = 1 => g[query.goal] = CostFor(a, m)
<1>1. query.start = world.pose[a] /\ query.goal = m.goal
  BY DEF Query, Bind
<1>2. CostFor(a, m) = CheapestCosts(query)[query.goal] /\ Objection(Query(a, m)) = Objection(query)
  BY <1>1 DEF CostFor
<1>3. CASE Feasible
  <2>1. outcome = "found" /\ world.pose[a] # m.goal
    BY <1>1, <1>3 DEF Feasible
  <2>2. /\ Objection(query) = "none" /\ g[query.goal] \in Nat /\ CostFor(a, m) \in Nat
        /\ CostFor(a, m) <= g[query.goal] /\ g[query.goal] <= Epsilon * CostFor(a, m)
    BY <1>2, <2>1, FoundIsCheapest
  <2>3. a \in Able(m)
    BY <1>2, <2>1, <2>2 DEF Able, Unseen
  <2>4. Epsilon = 1 => g[query.goal] = CostFor(a, m)
    BY <2>2
  <2>. QED
    BY <1>3, <2>2, <2>3, <2>4
<1>4. CASE ~Feasible
  <2>1. CASE outcome = "found"
    <3>1. world.pose[a] = m.goal
      BY <1>1, <1>4, <2>1 DEF Feasible
    <3>. QED
      BY <1>4, <3>1 DEF Able
  <2>2. CASE outcome = "unreachable"
    <3>1. query.goal \in Cells
      BY <2>2, EndsAreCells DEF SearchRuns, Answers, SearchInv
    <3>2. CostFor(a, m) = Unseen
      BY <1>2, <2>2, <3>1, RefusedIsHopeless DEF Reasons
    <3>. QED
      BY <1>4, <3>2 DEF Able
  <2>3. CASE outcome \in Reasons \ {"unreachable"}
    <3>1. Objection(query) # "none"
      BY <2>3 DEF SearchRuns, Reasons
    <3>. QED
      BY <1>2, <1>4, <3>1 DEF Able
  <2>. QED
    BY <2>1, <2>2, <2>3 DEF SearchRuns
<1>. QED
  BY <1>3, <1>4

\* The fleet is planned for one agent after the other, each once.
LEMMA FleetIsEverybody ==
    /\ Fleet \in Seq(Agent)
    /\ \A i, j \in DOMAIN Fleet : Fleet[i] = Fleet[j] => i = j
    /\ \A a \in Agent : \E i \in DOMAIN Fleet : Fleet[i] = a
<1>. DEFINE n == Cardinality(Agent)
            OneToOne(s) == \A i, j \in DOMAIN s : s[i] = s[j] => i = j
<1>1. n \in Nat /\ ExistsBijection(1 .. n, Agent) /\ IsFiniteSet(Agent)
  BY PlannerAssumption, FS_CardinalityType
<1>2. \E s \in [1 .. n -> Agent] : OneToOne(s)
  BY <1>1 DEF ExistsBijection, Bijection, Injection, IsInjective
<1>3. Fleet = CHOOSE s \in [1 .. n -> Agent] : OneToOne(s)
  BY Zenon DEF Fleet
<1>4. Fleet \in [1 .. n -> Agent] /\ OneToOne(Fleet)
  <2>. HIDE DEF OneToOne, n
  <2>. QED
    BY <1>2, <1>3
<1>5. Fleet \in Injection(1 .. n, Agent)
  BY <1>4 DEF Injection, IsInjective
<1>6. Cardinality(1 .. n) = Cardinality(Agent)
  BY <1>1, FS_Interval
<1>7. Fleet \in Surjection(1 .. n, Agent)
  BY <1>1, <1>5, <1>6, FS_Injection
<1>. QED
  BY <1>1, <1>4, <1>7 DEF Surjection

\* Where the pass stands: a search runs for the first candidate and the first mission.
PassInv ==
    /\ world.map \in Maps
    /\ pending \in Seq(Missions) /\ candidates \in Seq(Agent) /\ scored \in Seq(Nat \X Agent)
    /\ stage = "agents" => pending # <<>>
    /\ stage = "offered" => pending = <<>>
    /\ stage # "agents" => candidates = <<>> /\ scored = <<>>
    /\ outcome # "idle" => /\ stage = "agents" /\ candidates # <<>>
                           /\ query = Query(Head(candidates), Head(pending))

\* Each agent is still to be planned for, or scored if it is able: once.
ScoresInv ==
    /\ \A i, j \in DOMAIN candidates : candidates[i] = candidates[j] => i = j
    /\ \A i, j \in DOMAIN scored : scored[i][2] = scored[j][2] => i = j
    /\ \A i \in DOMAIN scored, j \in DOMAIN candidates : scored[i][2] # candidates[j]
    /\ \A m \in {Head(pending)} :
          /\ \A i \in DOMAIN scored : /\ scored[i][2] \in Able(m)
                                      /\ Epsilon = 1 => scored[i][1] = CostFor(scored[i][2], m)
          /\ stage = "agents" => \A a \in Able(m) : \/ \E j \in DOMAIN candidates : candidates[j] = a
                                                   \/ \E i \in DOMAIN scored : scored[i][2] = a

\* An offer is made to the cheapest of those able to do the mission.
RightlyOffered(m, costs) ==
    /\ m \in Missions /\ costs \in [DOMAIN costs -> Nat] /\ DOMAIN costs \subseteq Able(m)
    /\ Epsilon = 1 => \A a \in DOMAIN costs, b \in Able(m) \ DOMAIN costs : CostFor(a, m) <= CostFor(b, m)

OffersInv == \A m \in DOMAIN offers : RightlyOffered(m, offers[m])

\* Why a mission of the pass need not be planned any more.
Done(m) == ~Resolved(m) \/ Able(m) = {} \/ (m \in DOMAIN offers /\ DOMAIN offers[m] # {})

\* Unless the pass is lost, each of its missions is still to be planned, or done.
GivenInv == stage # "aborted" =>
    \A i \in DOMAIN world.given : \/ \E j \in DOMAIN pending : pending[j] = world.given[i]
                                 \/ Done(world.given[i])

\* The lowest of the scores: everybody at least as cheap as an invited agent is invited.
LEMMA CheapestAreInvited ==
    ASSUME NEW s \in Seq(Nat \X Agent), NEW i \in Invited(s), NEW j \in DOMAIN s, s[j][1] < s[i][1]
    PROVE  j \in Invited(s)
<1>. DEFINE Ahead(k) == {l \in DOMAIN s : s[l][1] < s[k][1] \/ (s[l][1] = s[k][1] /\ l < k)}
<1>1. i \in DOMAIN s /\ Cardinality(Ahead(i)) < MaxInvited
  BY DEF Invited
<1>2. DOMAIN s = 1 .. Len(s) /\ Len(s) \in Nat
  OBVIOUS
<1>3. \A l \in DOMAIN s : s[l][1] \in Nat
  BY <1>2
<1>4. IsFiniteSet(Ahead(i)) /\ Ahead(j) \subseteq Ahead(i)
  <2>1. IsFiniteSet(DOMAIN s)
    BY <1>2, FS_Interval
  <2>2. IsFiniteSet(Ahead(i))
    <3>1. Ahead(i) \subseteq DOMAIN s
      OBVIOUS
    <3>. HIDE DEF Ahead
    <3>. QED
      BY <2>1, <3>1, FS_Subset
  <2>3. Ahead(j) \subseteq Ahead(i)
    BY <1>1, <1>3
  <2>. QED
    BY <2>2, <2>3
<1>5. Cardinality(Ahead(j)) < MaxInvited
  <2>. HIDE DEF Ahead
  <2>1. /\ Cardinality(Ahead(j)) \in Nat /\ Cardinality(Ahead(i)) \in Nat
        /\ Cardinality(Ahead(j)) <= Cardinality(Ahead(i))
    BY <1>4, FS_Subset, FS_CardinalityType
  <2>. QED
    BY <1>1, <2>1, PlannerAssumption
<1>. QED
  BY <1>5 DEF Invited

\* Of the scores one is lowest, and somebody is invited.
LEMMA SomebodyIsInvited ==
    ASSUME NEW s \in Seq(Nat \X Agent), s # <<>>
    PROVE  Invited(s) # {}
<1>. DEFINE Ahead(k) == {l \in DOMAIN s : s[l][1] < s[k][1] \/ (s[l][1] = s[k][1] /\ l < k)}
            F == {Ahead(k) : k \in DOMAIN s}
<1>1. DOMAIN s = 1 .. Len(s) /\ Len(s) \in Nat /\ Len(s) # 0
  OBVIOUS
<1>2. \A l \in DOMAIN s : s[l][1] \in Nat /\ l \in Nat
  BY <1>1
<1>3. \A k \in DOMAIN s : IsFiniteSet(Ahead(k))
  <2>1. IsFiniteSet(DOMAIN s)
    BY <1>1, FS_Interval
  <2>2. \A k \in DOMAIN s : Ahead(k) \subseteq DOMAIN s
    OBVIOUS
  <2>. HIDE DEF Ahead
  <2>. QED
    BY <2>1, <2>2, FS_Subset
<1>4. \A k, l \in DOMAIN s : l \in Ahead(k) => Ahead(l) \subseteq Ahead(k) /\ l \notin Ahead(l)
  BY <1>2
<1>5. F # {} /\ \A U \in F : IsFiniteSet(U)
  <2>1. 1 \in DOMAIN s
    BY <1>1
  <2>. HIDE DEF Ahead
  <2>. QED
    BY <1>3, <2>1
<1>6. PICK U \in F : \A V \in F : V \subseteq U => V = U
  <2>. HIDE DEF F
  <2>. QED
    BY <1>5, FiniteMinimal
<1>7. PICK k \in DOMAIN s : U = Ahead(k)
  OBVIOUS
<1>8. Ahead(k) \subseteq DOMAIN s
  OBVIOUS
<1>9. Ahead(k) = {}
  <2>1. SUFFICES ASSUME NEW l \in Ahead(k) PROVE FALSE
    OBVIOUS
  <2>2. l \in DOMAIN s /\ Ahead(l) \in F
    BY <1>8, <2>1
  <2>. HIDE DEF Ahead, F
  <2>. QED
    BY <1>4, <1>6, <1>7, <2>1, <2>2
<1>10. Cardinality(Ahead(k)) < MaxInvited
  <2>. HIDE DEF Ahead
  <2>. QED
    BY <1>9, FS_EmptySet, PlannerAssumption
<1>. QED
  BY <1>10 DEF Invited

\* What is offered when everybody has been planned for.
LEMMA OfferIsRight ==
    ASSUME PassInv, ScoresInv, OffersInv, Offer
    PROVE  /\ DOMAIN offers' \subseteq DOMAIN offers \cup {Head(pending)}
           /\ \A m \in DOMAIN offers' : RightlyOffered(m, offers'[m])
<1>. DEFINE m == Head(pending)
            costs == [a \in {scored[i][2] : i \in Invited(scored)} |->
                         (CHOOSE p \in {scored[i] : i \in DOMAIN scored} : p[2] = a)[1]]
<1>1. CASE scored = <<>>
  BY <1>1 DEF Offer, OffersInv
<1>2. CASE scored # <<>>
  <2>1. offers' = [n \in DOMAIN offers \cup {m} |-> IF n = m THEN costs ELSE offers[n]]
    BY <1>2 DEF Offer
  <2>2. /\ m \in Missions /\ candidates = <<>> /\ scored \in Seq(Nat \X Agent)
        /\ stage = "agents"
    BY DEF Offer, PassInv
  <2>3. DOMAIN scored = 1 .. Len(scored) /\ Invited(scored) \subseteq DOMAIN scored
        /\ \A i \in DOMAIN scored : scored[i] \in Nat \X Agent
    BY <2>2 DEF Invited
  <2>4. DOMAIN costs = {scored[i][2] : i \in Invited(scored)}
    OBVIOUS
  <2>5. costs \in [DOMAIN costs -> Nat]
    <3>1. ASSUME NEW a \in DOMAIN costs PROVE costs[a] \in Nat
      <4>. DEFINE All == {scored[i] : i \in DOMAIN scored}
      <4>1. \E p \in All : p[2] = a
        BY <2>3, <2>4, <3>1
      <4>2. All \subseteq Nat \X Agent
        BY <2>3
      <4>. HIDE DEF All
      <4>3. (CHOOSE p \in All : p[2] = a) \in All
        BY <4>1
      <4>4. (CHOOSE p \in All : p[2] = a)[1] \in Nat
        BY <4>2, <4>3
      <4>5. costs[a] = (CHOOSE p \in All : p[2] = a)[1]
        BY <2>4, <3>1 DEF All
      <4>. QED
        BY <4>4, <4>5
    <3>2. costs = [a \in DOMAIN costs |-> costs[a]]
      OBVIOUS
    <3>. HIDE DEF costs
    <3>. QED
      BY <3>1, <3>2
  <2>. HIDE DEF costs, m
  <2>6. DOMAIN costs \subseteq Able(m)
    BY <2>3, <2>4 DEF ScoresInv, m
  <2>7. ASSUME Epsilon = 1, NEW a \in DOMAIN costs, NEW b \in Able(m) \ DOMAIN costs
        PROVE  CostFor(a, m) <= CostFor(b, m)
    <3>1. PICK i \in Invited(scored) : scored[i][2] = a
      BY <2>4
    <3>2. PICK j \in DOMAIN scored : scored[j][2] = b
      <4>1. DOMAIN candidates = {}
        BY <2>2
      <4>. QED
        BY <2>2, <4>1 DEF ScoresInv, m
    <3>3. j \notin Invited(scored)
      BY <2>4, <2>7, <3>2
    <3>4. ~(scored[j][1] < scored[i][1])
      BY <2>2, <3>2, <3>3, CheapestAreInvited
    <3>5. scored[i][1] = CostFor(a, m) /\ scored[j][1] = CostFor(b, m)
      BY <2>3, <2>7, <3>1, <3>2 DEF ScoresInv, m
    <3>6. scored[i][1] \in Nat /\ scored[j][1] \in Nat
      BY <2>3
    <3>. QED
      BY <3>4, <3>5, <3>6
  <2>8. RightlyOffered(m, costs)
    BY <2>2, <2>5, <2>6, <2>7, Zenon DEF RightlyOffered
  <2>9. ASSUME NEW n \in DOMAIN offers' PROVE RightlyOffered(n, offers'[n])
    BY <2>1, <2>8, <2>9 DEF OffersInv
  <2>. QED
    BY <2>1, <2>9 DEF m
<1>. QED
  BY <1>1, <1>2

\* What a decided election went by: the bids of those invited, and the offers.
Decided(r) ==
    /\ r.mission \in DOMAIN offers
    /\ r.bids \in [DOMAIN offers[r.mission] -> BidValues]
    /\ LET m == r.mission
           ok == Eligible(m, r.bids)
       IN  r.winner \in IF ok = {} THEN {None}
                        ELSE {a \in ok : \A b \in ok : Rating(m, r.bids, a) <= Rating(m, r.bids, b)}

\* Elections are decided after the pass, so no offer changes under them.
AwardsInv == /\ awards # {} => stage = "offered"
             /\ \A r \in awards : Decided(r)

\* The inductive invariant of the planner.
PlannerInv == PassInv /\ SearchRuns /\ ScoresInv /\ OffersInv /\ GivenInv /\ AwardsInv

\* What a step that leaves the search alone leaves alone.
LEMMA SearchLeftAlone ==
    ASSUME SearchRuns, UNCHANGED searchVars
    PROVE  SearchRuns'
BY DEF SearchRuns, SearchInv, searchVars

\* The world does not change during a pass, nor who is able to do what.
LEMMA AbilityLasts ==
    ASSUME UNCHANGED world
    PROVE  /\ \A m : Able(m)' = Able(m)
           /\ \A a, m : CostFor(a, m)' = CostFor(a, m) /\ Query(a, m)' = Query(a, m)
           /\ \A m, costs : RightlyOffered(m, costs)' <=> RightlyOffered(m, costs)
<1>1. \A a, m : CostFor(a, m)' = CostFor(a, m) /\ Query(a, m)' = Query(a, m)
  BY DEF CostFor, Query
<1>2. \A m : Able(m)' = Able(m)
  BY DEF Able, CostFor, Query
<1>3. \A m, costs : RightlyOffered(m, costs)' <=> RightlyOffered(m, costs)
  BY <1>1, <1>2 DEF RightlyOffered
<1>. QED
  BY <1>1, <1>2, <1>3

\* An agent is scored if it is able, and no agent twice.
LEMMA ScoreKeepsScores ==
    ASSUME PassInv, SearchRuns, ScoresInv, Score
    PROVE  PassInv' /\ ScoresInv'
<1>. DEFINE a == Head(candidates)
            m == Head(pending)
<1>1. /\ stage = "agents" /\ candidates # <<>> /\ candidates \in Seq(Agent) /\ query = Query(a, m)
      /\ outcome \notin {"idle", "searching"}
  BY DEF Score, PassInv
<1>2. /\ candidates' = Tail(candidates) /\ outcome' = "idle"
      /\ UNCHANGED <<world, pending, offers, awards, stage>>
      /\ scored' = IF Feasible THEN Append(scored, <<g[query.goal], a>>) ELSE scored
  BY DEF Score
<1>3. /\ a \in Agent /\ Tail(candidates) \in Seq(Agent) /\ a = candidates[1]
      /\ 1 \in DOMAIN candidates
      /\ \A j \in DOMAIN Tail(candidates) : /\ j \in Nat /\ j + 1 \in DOMAIN candidates
                                            /\ Tail(candidates)[j] = candidates[j + 1]
      /\ \A j \in DOMAIN candidates : j = 1 \/ \E k \in DOMAIN Tail(candidates) : j = k + 1
  <2>1. DOMAIN candidates = 1 .. Len(candidates) /\ Len(candidates) \in Nat /\ Len(candidates) >= 1
    BY <1>1
  <2>2. \A j \in 1 .. Len(candidates) - 1 : Tail(candidates)[j] = candidates[j + 1]
    BY <1>1, <2>1
  <2>3. DOMAIN Tail(candidates) = 1 .. Len(candidates) - 1
    BY <1>1, <2>1
  <2>4. a \in Agent /\ Tail(candidates) \in Seq(Agent) /\ a = candidates[1]
    BY <1>1, <2>1
  <2>5. \A j \in 1 .. Len(candidates) - 1 : j \in Nat /\ j + 1 \in 1 .. Len(candidates)
    BY <2>1
  <2>6. \A j \in 1 .. Len(candidates) : j = 1 \/ (j - 1 \in 1 .. Len(candidates) - 1 /\ j = (j - 1) + 1)
    BY <2>1
  <2>7. \A j \in DOMAIN candidates : j = 1 \/ \E k \in DOMAIN Tail(candidates) : j = k + 1
    BY <2>1, <2>3, <2>6
  <2>8. \A j \in DOMAIN Tail(candidates) : /\ j \in Nat /\ j + 1 \in DOMAIN candidates
                                           /\ Tail(candidates)[j] = candidates[j + 1]
    BY <2>1, <2>2, <2>3, <2>5
  <2>. QED
    BY <2>1, <2>4, <2>7, <2>8
<1>4. /\ Feasible <=> a \in Able(m)
      /\ Feasible => g[query.goal] \in Nat /\ (Epsilon = 1 => g[query.goal] = CostFor(a, m))
  BY <1>1, <1>3, SearchTells
<1>. DEFINE n == Len(scored) + 1
            new == <<g[query.goal], a>>
<1>5. /\ scored \in Seq(Nat \X Agent) /\ DOMAIN scored = 1 .. Len(scored) /\ Len(scored) \in Nat
      /\ n \notin DOMAIN scored
  BY DEF PassInv
<1>6. /\ Feasible => /\ scored' \in Seq(Nat \X Agent)
                     /\ DOMAIN scored' = DOMAIN scored \cup {n} /\ scored'[n] = new
      /\ ~Feasible => scored' = scored
      /\ \A i \in DOMAIN scored : scored'[i] = scored[i]
  <2>1. CASE Feasible
    <3>1. scored' = Append(scored, new) /\ new \in Nat \X Agent
      BY <1>2, <1>3, <1>4, <2>1
    <3>2. 1 .. n = (1 .. Len(scored)) \cup {n}
      BY <1>5
    <3>. HIDE DEF new
    <3>3. /\ Append(scored, new) \in Seq(Nat \X Agent) /\ DOMAIN Append(scored, new) = 1 .. n
          /\ Append(scored, new)[n] = new /\ \A i \in 1 .. Len(scored) : Append(scored, new)[i] = scored[i]
      BY <1>5, <3>1
    <3>. QED
      BY <1>5, <2>1, <3>1, <3>2, <3>3
  <2>2. CASE ~Feasible
    BY <1>2, <2>2
  <2>. QED
    BY <2>1, <2>2
<1>7. PassInv'
  BY <1>1, <1>2, <1>3, <1>5, <1>6 DEF PassInv
<1>8. new[1] = g[query.goal] /\ new[2] = a
  OBVIOUS
<1>9. \A i \in DOMAIN scored : scored[i][2] # a
  BY <1>3 DEF ScoresInv
<1>. HIDE DEF new, n, m
<1>10. \A i, j \in DOMAIN candidates' : candidates'[i] = candidates'[j] => i = j
  <2>1. SUFFICES ASSUME NEW i \in DOMAIN candidates', NEW j \in DOMAIN candidates', candidates'[i] = candidates'[j]
                 PROVE  i = j
    OBVIOUS
  <2>2. i + 1 = j + 1
    BY <1>2, <1>3, <2>1 DEF ScoresInv
  <2>. QED
    BY <1>2, <1>3, <2>2
<1>11. \A i, j \in DOMAIN scored' : scored'[i][2] = scored'[j][2] => i = j
  BY <1>6, <1>8, <1>9 DEF ScoresInv
<1>12. \A i \in DOMAIN scored', j \in DOMAIN candidates' : scored'[i][2] # candidates'[j]
  <2>1. \A j \in DOMAIN candidates' : candidates'[j] # a /\ \A i \in DOMAIN scored : scored[i][2] # candidates'[j]
    <3>1. \A j \in DOMAIN candidates' : j + 1 # 1
      BY <1>2, <1>3
    <3>. QED
      BY <1>2, <1>3, <3>1 DEF ScoresInv
  <2>. QED
    BY <1>6, <1>8, <2>1
<1>13. /\ \A k : Able(k)' = Able(k)
       /\ \A k, b : CostFor(b, k)' = CostFor(b, k)
  BY <1>2, AbilityLasts
<1>14. \A i \in DOMAIN scored' : /\ scored'[i][2] \in Able(m)
                                 /\ Epsilon = 1 => scored'[i][1] = CostFor(scored'[i][2], m)
  BY <1>4, <1>6, <1>8 DEF ScoresInv, m
<1>15. \A b \in Able(m) : \/ \E j \in DOMAIN candidates' : candidates'[j] = b
                          \/ \E i \in DOMAIN scored' : scored'[i][2] = b
  <2>1. SUFFICES ASSUME NEW b \in Able(m)
                 PROVE  \/ \E j \in DOMAIN candidates' : candidates'[j] = b
                        \/ \E i \in DOMAIN scored' : scored'[i][2] = b
    OBVIOUS
  <2>2. CASE \E i \in DOMAIN scored : scored[i][2] = b
    BY <1>6, <2>2
  <2>3. CASE b = a
    BY <1>4, <1>6, <1>8, <2>3
  <2>4. CASE b # a /\ \E j \in DOMAIN candidates : candidates[j] = b
    BY <1>2, <1>3, <2>4
  <2>. QED
    BY <1>1, <2>1, <2>2, <2>3, <2>4 DEF ScoresInv, m
<1>16. ScoresInv'
  <2>1. \A k \in {Head(pending')} : k = m
    BY <1>2 DEF m
  <2>. QED
    BY <1>10, <1>11, <1>12, <1>13, <1>14, <1>15, <2>1 DEF ScoresInv
<1>. QED
  BY <1>7, <1>16

\* Every step keeps the pass, the search, the scores and the offers.
LEMMA NextKeepsPass ==
    ASSUME PlannerInv, [Next]_vars
    PROVE  PassInv' /\ SearchRuns' /\ ScoresInv' /\ OffersInv'
<1>. USE DEF PlannerInv
<1>1. UNCHANGED world
  BY DEF Next, NextMission, PlanFor, Searching, Score, Offer, PassOver, Award, vars, plannerVars
<1>2. /\ \A m : Able(m)' = Able(m)
      /\ \A a, m : CostFor(a, m)' = CostFor(a, m) /\ Query(a, m)' = Query(a, m)
      /\ \A m, costs : RightlyOffered(m, costs)' <=> RightlyOffered(m, costs)
  BY <1>1, AbilityLasts
<1>3. ASSUME UNCHANGED offers PROVE OffersInv'
  BY <1>2, <1>3 DEF OffersInv
<1>4. ASSUME UNCHANGED <<pending, candidates, scored, stage>> PROVE ScoresInv'
  BY <1>2, <1>4 DEF ScoresInv
<1>5. ASSUME UNCHANGED <<pending, candidates, scored, stage, query, outcome>> PROVE PassInv'
  <2>1. Query(Head(candidates), Head(pending))' = Query(Head(candidates), Head(pending))
    BY <1>1, <1>5 DEF Query
  <2>. QED
    BY <1>1, <1>5, <2>1 DEF PassInv
<1>6. CASE NextMission
  <2>1. /\ UNCHANGED <<searchVars, world, scored, awards>> /\ stage = "missions" /\ pending # <<>>
        /\ scored = <<>> /\ candidates = <<>> /\ outcome = "idle" /\ outcome' = "idle"
    BY <1>6 DEF NextMission, PassInv, searchVars
  <2>2. SearchRuns'
    BY <2>1, SearchLeftAlone
  <2>3. CASE stage' = "aborted" /\ offers' = [m \in {} |-> None] /\ UNCHANGED <<pending, candidates>>
    <3>1. PassInv'
      BY <1>1, <2>1, <2>3 DEF PassInv
    <3>2. ScoresInv'
      BY <2>1, <2>3 DEF ScoresInv
    <3>3. OffersInv'
      BY <2>3 DEF OffersInv
    <3>. QED
      BY <2>2, <3>1, <3>2, <3>3
  <2>4. CASE stage' = "agents" /\ candidates' = Fleet /\ UNCHANGED <<pending, offers>>
    <3>1. PassInv'
      BY <1>1, <2>1, <2>4, FleetIsEverybody DEF PassInv
    <3>2. DOMAIN scored' = {}
      BY <2>1
    <3>3. \A m : Able(m) \subseteq Agent
      BY DEF Able
    <3>4. ScoresInv'
      BY <1>2, <2>4, <3>2, <3>3, FleetIsEverybody DEF ScoresInv
    <3>. QED
      BY <1>3, <2>2, <2>4, <3>1, <3>4
  <2>5. CASE pending' = Tail(pending) /\ UNCHANGED <<stage, candidates, offers>>
    <3>1. PassInv'
      BY <1>1, <2>1, <2>5 DEF PassInv
    <3>2. ScoresInv'
      BY <2>1, <2>5 DEF ScoresInv
    <3>. QED
      BY <1>3, <2>2, <2>5, <3>1, <3>2
  <2>. QED
    BY <1>6, <2>3, <2>4, <2>5 DEF NextMission
<1>7. CASE PlanFor
  <2>1. /\ stage = "agents" /\ candidates # <<>> /\ UNCHANGED plannerVars
        /\ Search(Query(Head(candidates), Head(pending)))
    BY <1>7 DEF PlanFor
  <2>2. query' = Query(Head(candidates), Head(pending))
    BY <2>1 DEF Search
  <2>3. Head(pending) \in Missions
    BY <2>1 DEF PassInv
  <2>4. Sound(Query(Head(candidates), Head(pending)))
    BY <2>3, QueryIsSound DEF PassInv
  <2>5. SearchRuns'
    <3>. DEFINE q == Query(Head(candidates), Head(pending))
    <3>1. Sound(q) /\ Search(q)
      BY <2>1, <2>4
    <3>. HIDE DEF q
    <3>. QED
      BY <3>1, SearchStarts
  <2>6. Query(Head(candidates), Head(pending))' = Query(Head(candidates), Head(pending))
    BY <2>1 DEF Query, plannerVars
  <2>7. PassInv'
    BY <2>1, <2>2, <2>6 DEF PassInv, plannerVars
  <2>. QED
    BY <1>3, <1>4, <2>1, <2>5, <2>7 DEF plannerVars
<1>8. CASE Searching
  <2>1. UNCHANGED plannerVars /\ outcome = "searching" /\ SearchInv /\ Sound(query)
    BY <1>8 DEF Searching, Expand, Exhausted, SearchRuns, Answers
  <2>2. query' = query /\ SearchRuns' /\ outcome' # "idle"
    <3>1. CASE Expand
      <4>1. SearchInv' /\ outcome' \in {"searching", "found"} /\ query' = query
        BY <2>1, <3>1, ExpandKeepsSearch DEF Expand
      <4>2. outcome' \notin Reasons
        BY <4>1 DEF Reasons
      <4>. QED
        BY <2>1, <4>1, <4>2 DEF SearchRuns
    <3>2. CASE Exhausted
      <4>1. /\ outcome' = "unreachable" /\ frontier' = {}
            /\ UNCHANGED <<query, g, closed, frontier>>
        BY <3>2 DEF Exhausted
      <4>2. SearchInv'
        BY <2>1, <4>1 DEF SearchInv
      <4>. QED
        BY <2>1, <4>1, <4>2 DEF SearchRuns, Reasons
    <3>. QED
      BY <1>8, <3>1, <3>2 DEF Searching
  <2>3. Query(Head(candidates), Head(pending))' = Query(Head(candidates), Head(pending))
    BY <2>1 DEF Query, plannerVars
  <2>4. PassInv'
    BY <2>1, <2>2, <2>3 DEF PassInv, plannerVars
  <2>. QED
    BY <1>3, <1>4, <2>1, <2>2, <2>4 DEF plannerVars
<1>9. CASE Score
  <2>1. outcome' = "idle" /\ UNCHANGED offers
    BY <1>9 DEF Score
  <2>2. SearchRuns'
    BY <2>1 DEF SearchRuns, Answers, Reasons
  <2>. QED
    BY <1>3, <1>9, <2>1, <2>2, ScoreKeepsScores
<1>10. CASE Offer
  <2>1. /\ stage' = "missions" /\ pending' = Tail(pending) /\ pending # <<>> /\ scored' = <<>>
        /\ candidates' = <<>> /\ UNCHANGED <<searchVars, world>> /\ outcome = "idle" /\ outcome' = "idle"
    BY <1>10 DEF Offer, PassInv, searchVars
  <2>2. PassInv'
    BY <1>1, <2>1 DEF PassInv
  <2>3. ScoresInv'
    BY <2>1 DEF ScoresInv
  <2>4. OffersInv'
    BY <1>2, <1>10, OfferIsRight DEF OffersInv
  <2>. QED
    BY <2>1, <2>2, <2>3, <2>4, SearchLeftAlone
<1>11. CASE PassOver
  <2>1. /\ stage = "missions" /\ stage' = "offered" /\ outcome = "idle" /\ scored = <<>> /\ candidates = <<>>
        /\ pending = <<>>
        /\ UNCHANGED <<searchVars, world, pending, candidates, scored, offers, awards>>
    BY <1>11 DEF PassOver, PassInv
  <2>2. PassInv'
    BY <1>1, <2>1 DEF PassInv, searchVars
  <2>3. ScoresInv'
    BY <2>1 DEF ScoresInv
  <2>. QED
    BY <1>3, <2>1, <2>2, <2>3, SearchLeftAlone
<1>12. CASE Award
  BY <1>3, <1>4, <1>5, <1>12, SearchLeftAlone DEF Award, searchVars
<1>13. CASE UNCHANGED vars
  BY <1>3, <1>4, <1>5, <1>13, SearchLeftAlone DEF vars, plannerVars, searchVars
<1>. QED
  BY <1>6, <1>7, <1>8, <1>9, <1>10, <1>11, <1>12, <1>13 DEF Next

\* What is done stays done while the world stays as it is and no offer is taken back.
LEMMA DoneLasts ==
    ASSUME UNCHANGED world, \A m \in DOMAIN offers : m \in DOMAIN offers' /\ offers'[m] = offers[m],
           NEW m, Done(m)
    PROVE  Done(m)'
<1>1. Able(m)' = Able(m) /\ Resolved(m)' = Resolved(m)
  BY AbilityLasts DEF Resolved
<1>. QED
  BY <1>1 DEF Done

\* A mission is taken off the list when it has no goal or when it is put out to bids.
LEMMA NextKeepsGiven ==
    ASSUME PlannerInv, [Next]_vars
    PROVE  GivenInv'
<1>. USE DEF PlannerInv
<1>0. PICK head : head = Head(pending)
  OBVIOUS
<1>1. UNCHANGED world
  BY DEF Next, NextMission, PlanFor, Searching, Score, Offer, PassOver, Award, vars, plannerVars
<1>2. pending # <<>> => \A j \in DOMAIN pending :
          pending[j] = head \/ \E i \in DOMAIN Tail(pending) : Tail(pending)[i] = pending[j]
  <2>1. SUFFICES ASSUME pending # <<>>, NEW j \in DOMAIN pending, j # 1
                 PROVE  \E i \in DOMAIN Tail(pending) : Tail(pending)[i] = pending[j]
    BY <1>0 DEF PassInv
  <2>2. pending \in Seq(Missions) /\ DOMAIN pending = 1 .. Len(pending) /\ Len(pending) \in Nat
    BY DEF PassInv
  <2>3. DOMAIN Tail(pending) = 1 .. Len(pending) - 1 /\ j - 1 \in 1 .. Len(pending) - 1
    BY <2>1, <2>2
  <2>4. Tail(pending)[j - 1] = pending[j]
    BY <2>1, <2>2, <2>3
  <2>. QED
    BY <2>3, <2>4
<1>3. CASE UNCHANGED <<pending, offers>> /\ (stage = "aborted" => stage' = "aborted")
  <2>1. \A m : Done(m) => Done(m)'
    BY <1>1, <1>3, DoneLasts
  <2>. QED
    BY <1>1, <1>3, <2>1 DEF GivenInv
<1>4. CASE NextMission /\ pending' # pending
  <2>1. /\ pending # <<>> /\ pending' = Tail(pending) /\ stage = "missions" /\ UNCHANGED offers
        /\ ~Resolved(head)
    BY <1>0, <1>4 DEF NextMission
  <2>2. \A m : Done(m) => Done(m)'
    BY <1>1, <2>1, DoneLasts
  <2>3. Done(head)'
    BY <2>1, <2>2 DEF Done
  <2>. QED
    BY <1>1, <1>2, <2>1, <2>2, <2>3 DEF GivenInv
<1>5. CASE Offer
  <2>1. /\ pending # <<>> /\ pending' = Tail(pending) /\ stage = "agents" /\ stage' = "missions"
        /\ candidates = <<>> /\ scored \in Seq(Nat \X Agent)
    BY <1>5 DEF Offer, PassInv
  <2>2. \A a \in Able(head) : \E i \in DOMAIN scored : scored[i][2] = a
    <3>1. DOMAIN candidates = {}
      BY <2>1
    <3>. QED
      BY <1>0, <2>1, <3>1 DEF ScoresInv
  <2>3. scored = <<>> => Able(head) = {} /\ UNCHANGED offers
    BY <1>5, <2>2 DEF Offer
  <2>4. scored # <<>> =>
            /\ head \in DOMAIN offers' /\ DOMAIN offers'[head] # {}
            /\ \A m \in DOMAIN offers : m # head => m \in DOMAIN offers' /\ offers'[m] = offers[m]
    <3>. DEFINE names == {scored[i][2] : i \in Invited(scored)}
                costs == [a \in names |-> (CHOOSE p \in {scored[i] : i \in DOMAIN scored} : p[2] = a)[1]]
    <3>1. SUFFICES ASSUME scored # <<>>
                   PROVE  /\ head \in DOMAIN offers' /\ DOMAIN offers'[head] # {}
                          /\ \A m \in DOMAIN offers : m # head => m \in DOMAIN offers' /\ offers'[m] = offers[m]
      OBVIOUS
    <3>2. offers' = [m \in DOMAIN offers \cup {head} |-> IF m = head THEN costs ELSE offers[m]]
      BY <1>0, <1>5, <3>1 DEF Offer
    <3>3. DOMAIN costs = names /\ names # {}
      BY <2>1, <3>1, SomebodyIsInvited
    <3>. HIDE DEF costs, names
    <3>. QED
      BY <3>2, <3>3
  <2>5. Able(head)' = Able(head)
    BY <1>1, AbilityLasts
  <2>6. Done(head)'
    <3>1. CASE scored = <<>>
      BY <2>3, <2>5, <3>1 DEF Done
    <3>2. CASE scored # <<>>
      BY <2>4, <3>2 DEF Done
    <3>. QED
      BY <3>1, <3>2
  <2>7. ASSUME NEW m, m # head, Done(m) PROVE Done(m)'
    <3>1. Able(m)' = Able(m) /\ Resolved(m)' = Resolved(m)
      BY <1>1, AbilityLasts DEF Resolved
    <3>2. m \in DOMAIN offers => m \in DOMAIN offers' /\ offers'[m] = offers[m]
      BY <2>3, <2>4, <2>7
    <3>. QED
      BY <2>7, <3>1, <3>2 DEF Done
  <2>8. ASSUME NEW m, Done(m) PROVE Done(m)'
    BY <2>6, <2>7, <2>8, Zenon
  <2>. QED
    BY <1>1, <1>2, <2>1, <2>6, <2>8 DEF GivenInv
<1>6. CASE NextMission /\ pending' = pending
  <2>1. stage = "missions" /\ (stage' = "aborted" \/ UNCHANGED offers)
    BY <1>6 DEF NextMission
  <2>2. CASE stage' = "aborted"
    BY <2>2 DEF GivenInv
  <2>3. CASE UNCHANGED offers
    BY <1>3, <1>6, <2>1, <2>3
  <2>. QED
    BY <2>1, <2>2, <2>3
<1>. QED
  BY <1>3, <1>4, <1>5, <1>6 DEF Next, PlanFor, Searching, Score, PassOver, Award, vars, plannerVars

\* Every step keeps the decisions.
LEMMA NextKeepsAwards ==
    ASSUME PlannerInv, [Next]_vars
    PROVE  AwardsInv'
<1>. USE DEF PlannerInv
<1>1. ASSUME UNCHANGED offers, NEW r PROVE Decided(r)' <=> Decided(r)
  BY <1>1 DEF Decided, Rating
<1>2. CASE Award
  <2>1. UNCHANGED offers /\ stage' = "offered"
    BY <1>2 DEF Award
  <2>2. ASSUME NEW r \in awards' PROVE Decided(r)
    <3>1. PICK m \in DOMAIN offers : Award!2!(m)
      BY <1>2 DEF Award
    <3>2. CASE r \in awards
      BY <3>2 DEF AwardsInv
    <3>3. CASE r \notin awards
      BY <3>1, <2>2, <3>3 DEF Decided
    <3>. QED
      BY <3>2, <3>3
  <2>. QED
    BY <1>1, <2>1, <2>2 DEF AwardsInv
<1>3. CASE UNCHANGED awards /\ UNCHANGED offers /\ (stage = "offered" => stage' = "offered")
  BY <1>1, <1>3 DEF AwardsInv
<1>4. CASE awards = {} /\ UNCHANGED awards
  BY <1>4 DEF AwardsInv
<1>5. CASE stage # "offered" /\ UNCHANGED awards
  BY <1>4, <1>5 DEF AwardsInv
<1>. QED
  BY <1>2, <1>3, <1>5
     DEF Next, NextMission, PlanFor, Searching, Score, Offer, PassOver, PassInv, vars, plannerVars

\* Every run of the planner keeps the invariant.
THEOREM PlannerInvHolds == Spec => []PlannerInv
<1>1. Init => PlannerInv
  <2>. SUFFICES ASSUME Init PROVE PlannerInv
    OBVIOUS
  <2>1. /\ outcome = "idle" /\ candidates = <<>> /\ scored = <<>> /\ awards = {} /\ stage = "missions"
        /\ DOMAIN offers = {} /\ pending \in Seq(Missions) /\ world.map \in Maps
    BY PlannerAssumption DEF Init, NoSearch
  <2>2. PassInv
    BY <2>1 DEF PassInv
  <2>3. SearchRuns
    BY <2>1 DEF SearchRuns, Answers, Reasons
  <2>4. ScoresInv
    BY <2>1 DEF ScoresInv
  <2>5. OffersInv /\ AwardsInv
    BY <2>1 DEF OffersInv, AwardsInv
  <2>6. GivenInv
    BY DEF Init, GivenInv
  <2>. QED
    BY <2>2, <2>3, <2>4, <2>5, <2>6 DEF PlannerInv
<1>2. PlannerInv /\ [Next]_vars => PlannerInv'
  BY NextKeepsPass, NextKeepsGiven, NextKeepsAwards DEF PlannerInv
<1>. QED
  BY <1>1, <1>2, PTL DEF Spec

\* A plan's cost is that of the cheapest way there is, up to the inflation, and a plan is
\* only refused if there is no way, whatever the map, the weights and the robots.
THEOREM SearchIsRightHolds == Spec => []SearchIsRight
<1>1. PlannerInv => SearchIsRight
  BY SearchIsRightFrom DEF PlannerInv
<1>. QED
  BY <1>1, PlannerInvHolds, PTL

\* Missions are offered to the agents that reach the goal at the least cost, and every
\* mission somebody can do is offered to somebody.
THEOREM TheCheapestAreInvitedHolds == Spec => []TheCheapestAreInvited
<1>1. ASSUME PlannerInv, stage = "offered"
      PROVE  TheCheapestAreInvited
  <2>1. pending = <<>>
    BY <1>1 DEF PlannerInv, PassInv
  <2>2. \A i \in DOMAIN world.given : Done(world.given[i])
    BY <1>1, <2>1 DEF PlannerInv, GivenInv
  <2>. QED
    BY <1>1, <2>2 DEF PlannerInv, OffersInv, RightlyOffered, TheCheapestAreInvited, Done
<1>2. PlannerInv => TheCheapestAreInvited
  BY <1>1 DEF TheCheapestAreInvited
<1>. QED
  BY <1>2, PlannerInvHolds, PTL

-----------------------------------------------------------------------------
(* get_winner                                                              *)

\* A finite set of numbers has a least and a greatest one.
LEMMA Extremes ==
    ASSUME NEW T \in SUBSET Int, IsFiniteSet(T), T # {}
    PROVE  (\E x \in T : \A y \in T : x <= y) /\ (\E x \in T : \A y \in T : x >= y)
<1>. DEFINE Above(x) == {y \in T : y > x}
            Below(x) == {y \in T : y < x}
<1>1. \A x \in T : IsFiniteSet(Above(x)) /\ IsFiniteSet(Below(x))
  BY FS_Subset
<1>2. \A x \in T : x \in Int
  OBVIOUS
<1>3. \A x, y, z \in Int : (y > x /\ z > y => z > x) /\ (y < x /\ z < y => z < x) /\ ~(x > x) /\ ~(x < x)
  OBVIOUS
<1>7. \A x, y \in T : y > x => Above(y) \subseteq Above(x) /\ y \in Above(x) /\ y \notin Above(y)
  BY <1>2, <1>3
<1>8. \A x, y \in T : y < x => Below(y) \subseteq Below(x) /\ y \in Below(x) /\ y \notin Below(y)
  BY <1>2, <1>3
<1>. HIDE DEF Above, Below
<1>4. PICK x \in T : \A y \in T : Below(y) \subseteq Below(x) => Below(y) = Below(x)
  <2>. DEFINE F == {Below(y) : y \in T}
  <2>1. F # {} /\ \A U \in F : IsFiniteSet(U)
    BY <1>1
  <2>2. \E U \in F : \A V \in F : V \subseteq U => V = U
    <3>. HIDE DEF F
    <3>. QED
      BY <2>1, FiniteMinimal
  <2>. QED
    BY <2>2
<1>5. PICK z \in T : \A y \in T : Above(y) \subseteq Above(z) => Above(y) = Above(z)
  <2>. DEFINE F == {Above(y) : y \in T}
  <2>1. F # {} /\ \A U \in F : IsFiniteSet(U)
    BY <1>1
  <2>2. \E U \in F : \A V \in F : V \subseteq U => V = U
    <3>. HIDE DEF F
    <3>. QED
      BY <2>1, FiniteMinimal
  <2>. QED
    BY <2>2
<1>6. \A y \in T : x <= y /\ z >= y
  BY <1>2, <1>4, <1>5, <1>7, <1>8
<1>. QED
  BY <1>6

\* What the bids are measured by: nobody is below the least, and the spread is positive.
LEMMA SpreadIsPositive ==
    ASSUME NEW T \in SUBSET Int, IsFiniteSet(T), T # {}
    PROVE  /\ Lowest(T) \in Int /\ \A x \in T : x - Lowest(T) \in Nat
           /\ Spread(T) \in Nat \ {0}
<1>. DEFINE Low(x) == \A y \in T : x <= y
            High(x) == \A y \in T : x >= y
<1>1. Lowest(T) = (CHOOSE x \in T : Low(x)) /\ Highest(T) = (CHOOSE x \in T : High(x))
  BY DEF Lowest, Highest
<1>2. (\E x \in T : Low(x)) /\ (\E x \in T : High(x))
  BY Extremes
<1>3. Lowest(T) \in T /\ Low(Lowest(T)) /\ Highest(T) \in T /\ High(Highest(T))
  <2>. HIDE DEF Low, High
  <2>. QED
    BY <1>1, <1>2
<1>4. Lowest(T) \in Int /\ Highest(T) \in Int /\ Lowest(T) <= Highest(T)
  BY <1>3
<1>5. ASSUME NEW x \in T PROVE x - Lowest(T) \in Nat
  <2>1. x \in Int /\ Lowest(T) <= x
    BY <1>3
  <2>. QED
    BY <1>4, <2>1
<1>. QED
  BY <1>4, <1>5 DEF Spread

\* A positive factor keeps the order, and what differs.
LEMMA FactorKeepsOrder ==
    ASSUME NEW k \in Nat, NEW x \in Nat, NEW y \in Nat, y <= x
    PROVE  /\ k * y \in Nat /\ k * x \in Nat /\ k * y <= k * x
           /\ k > 0 /\ y < x => k * y < k * x
<1>1. PICK d \in Nat : x = y + d
  <2>1. x - y \in Nat /\ x = y + (x - y)
    OBVIOUS
  <2>. QED
    BY <2>1
<1>2. k * x = k * y + k * d /\ k * y \in Nat /\ k * d \in Nat
  BY <1>1
<1>3. k > 0 /\ d > 0 => k * d > 0
  OBVIOUS
<1>. QED
  BY <1>1, <1>2, <1>3

\* Of two sums, term by term no greater, one is less if a term is.
LEMMA SumKeepsOrder ==
    ASSUME NEW s \in Nat, NEW t \in Nat, NEW u \in Nat, NEW x \in Nat, NEW y \in Nat, NEW z \in Nat,
           s <= x, t <= y, u <= z, s < x \/ t < y \/ u < z
    PROVE  s + t + u < x + y + z
OBVIOUS

\* A bid that is as good in all three and better in one that counts is rated better.
LEMMA BetterBidsRateBetter ==
    ASSUME NEW m \in Missions, NEW bids, IsFiniteSet(DOMAIN bids),
           \A a \in DOMAIN bids : offers[m][a] \in Nat,
           bids \in [DOMAIN bids -> BidValues],
           NEW a \in Eligible(m, bids), NEW b \in Eligible(m, bids),
           bids[b].time <= bids[a].time, bids[b].energy <= bids[a].energy,
           offers[m][b] <= offers[m][a],
           \/ bids[b].time < bids[a].time /\ m.weights.time > 0
           \/ bids[b].energy < bids[a].energy /\ m.weights.energy > 0
           \/ offers[m][b] < offers[m][a]
    PROVE  ~(Rating(m, bids, a) <= Rating(m, bids, b))
<1>. DEFINE ok == Eligible(m, bids)
            times == [c \in ok |-> bids[c].time]
            energies == [c \in ok |-> bids[c].energy]
            Times == {times[c] : c \in ok}
            Energies == {energies[c] : c \in ok}
<1>1. IsFiniteSet(ok) /\ ok \subseteq DOMAIN bids
  <2>1. ok \subseteq DOMAIN bids
    BY DEF Eligible
  <2>. QED
    BY <2>1, FS_Subset
<1>2. \A c \in ok : bids[c].time \in Int /\ bids[c].energy \in Int
  BY PlannerAssumption DEF Eligible
<1>3. Times \in SUBSET Int /\ Energies \in SUBSET Int
  BY <1>2
<1>4. IsFiniteSet(Times) /\ IsFiniteSet(Energies)
  <2>. HIDE DEF times, energies
  <2>. QED
    BY <1>1, ImageIsFinite
<1>5. /\ bids[a].time \in Times /\ bids[b].time \in Times
      /\ bids[a].energy \in Energies /\ bids[b].energy \in Energies
  OBVIOUS
<1>6. Times = {bids[c].time : c \in ok} /\ Energies = {bids[c].energy : c \in ok}
  OBVIOUS
<1>. HIDE DEF Times, Energies, times, energies
<1>7. PICK lt \in Int, le \in Int, st \in Nat \ {0}, se \in Nat \ {0} :
          /\ lt = Lowest(Times) /\ le = Lowest(Energies) /\ st = Spread(Times) /\ se = Spread(Energies)
          /\ \A x \in Times : x - lt \in Nat
          /\ \A x \in Energies : x - le \in Nat
  BY <1>3, <1>4, <1>5, SpreadIsPositive
<1>8. PICK ta \in Nat, tb \in Nat, ea \in Nat, eb \in Nat :
          /\ ta = bids[a].time - lt /\ tb = bids[b].time - lt
          /\ ea = bids[a].energy - le /\ eb = bids[b].energy - le
  BY <1>5, <1>7
<1>9. PICK wt \in Nat, we \in Nat, oa \in Nat, ob \in Nat :
          /\ wt = m.weights.time /\ we = m.weights.energy
          /\ oa = offers[m][a] /\ ob = offers[m][b]
  BY <1>1 DEF Missions, Weights
<1>10. /\ tb <= ta /\ eb <= ea /\ ob <= oa
       /\ (tb < ta /\ wt > 0) \/ (eb < ea /\ we > 0) \/ ob < oa
  BY <1>2, <1>7, <1>8, <1>9
<1>11. /\ Rating(m, bids, a) = wt * 100000 * ta * se + we * 100000 * ea * st + oa * st * se
       /\ Rating(m, bids, b) = wt * 100000 * tb * se + we * 100000 * eb * st + ob * st * se
  <2>1. \A c : Rating(m, bids, c) =
            m.weights.time * CostUnit * (bids[c].time - Lowest(Times)) * Spread(Energies)
              + m.weights.energy * CostUnit * (bids[c].energy - Lowest(Energies)) * Spread(Times)
              + offers[m][c] * Spread(Times) * Spread(Energies)
    BY <1>6, Zenon DEF Rating
  <2>. QED
    BY <1>7, <1>8, <1>9, <2>1 DEF CostUnit
<1>12. PICK kt \in Nat, ke \in Nat, ko \in Nat :
          /\ kt = wt * 100000 * se /\ ke = we * 100000 * st /\ ko = st * se
          /\ wt > 0 => kt > 0
          /\ we > 0 => ke > 0
          /\ ko > 0
  <2>1. \A x, y \in Nat : x * y \in Nat /\ (x > 0 /\ y > 0 => x * y > 0)
    OBVIOUS
  <2>2. st > 0 /\ se > 0 /\ wt * 100000 \in Nat /\ we * 100000 \in Nat
    OBVIOUS
  <2>3. (wt > 0 => wt * 100000 > 0) /\ (we > 0 => we * 100000 > 0)
    OBVIOUS
  <2>. QED
    BY <2>1, <2>2, <2>3
<1>13. /\ Rating(m, bids, a) = kt * ta + ke * ea + ko * oa
       /\ Rating(m, bids, b) = kt * tb + ke * eb + ko * ob
  <2>1. \A x, y, z \in Nat : x * 100000 * y * z = x * 100000 * z * y /\ x * y * z = y * z * x
    OBVIOUS
  <2>. QED
    BY <1>11, <1>12, <2>1
<1>14. /\ kt * tb \in Nat /\ kt * ta \in Nat /\ kt * tb <= kt * ta
       /\ kt > 0 /\ tb < ta => kt * tb < kt * ta
  BY <1>10, FactorKeepsOrder
<1>15. /\ ke * eb \in Nat /\ ke * ea \in Nat /\ ke * eb <= ke * ea
       /\ ke > 0 /\ eb < ea => ke * eb < ke * ea
  BY <1>10, FactorKeepsOrder
<1>16. /\ ko * ob \in Nat /\ ko * oa \in Nat /\ ko * ob <= ko * oa
       /\ ko > 0 /\ ob < oa => ko * ob < ko * oa
  BY <1>10, FactorKeepsOrder
<1>17. kt * tb < kt * ta \/ ke * eb < ke * ea \/ ko * ob < ko * oa
  BY <1>10, <1>12, <1>14, <1>15, <1>16
<1>18. kt * tb + ke * eb + ko * ob < kt * ta + ke * ea + ko * oa
  BY <1>14, <1>15, <1>16, <1>17, SumKeepsOrder
<1>19. kt * tb + ke * eb + ko * ob \in Nat /\ kt * ta + ke * ea + ko * oa \in Nat
  BY <1>14, <1>15, <1>16
<1>. QED
  BY <1>13, <1>18, <1>19

\* The winner of an election is not beaten by a bid that is as good in time, energy and
\* plan and better in one that counts.
THEOREM AwardsAreFairHolds == Spec => []AwardsAreFair
<1>1. ASSUME PlannerInv, NEW r \in awards
      PROVE  LET m == r.mission
                 Meets(a) == a \in Eligible(m, r.bids)
                 AsGood(b, a) == /\ r.bids[b].time <= r.bids[a].time
                                 /\ r.bids[b].energy <= r.bids[a].energy
                                 /\ offers[m][b] <= offers[m][a]
                 Better(b, a) == \/ r.bids[b].time < r.bids[a].time /\ m.weights.time > 0
                                 \/ r.bids[b].energy < r.bids[a].energy /\ m.weights.energy > 0
                                 \/ offers[m][b] < offers[m][a]
             IN  IF r.winner = None THEN \A a \in DOMAIN r.bids : ~Meets(a)
                 ELSE /\ Meets(r.winner)
                      /\ \A b \in DOMAIN r.bids : Meets(b) => ~(AsGood(b, r.winner) /\ Better(b, r.winner))
  <2>. DEFINE m == r.mission
              bids == r.bids
              ok == Eligible(m, bids)
              w == r.winner
  <2>1. /\ m \in DOMAIN offers /\ bids \in [DOMAIN offers[m] -> BidValues]
        /\ w \in IF ok = {} THEN {None}
                 ELSE {a \in ok : \A b \in ok : Rating(m, bids, a) <= Rating(m, bids, b)}
    BY <1>1 DEF PlannerInv, AwardsInv, Decided
  <2>2. /\ m \in Missions /\ offers[m] \in [DOMAIN offers[m] -> Nat] /\ DOMAIN offers[m] \subseteq Agent
    BY <1>1, <2>1 DEF PlannerInv, OffersInv, RightlyOffered, Able
  <2>3. DOMAIN bids = DOMAIN offers[m] /\ IsFiniteSet(DOMAIN bids) /\ bids \in [DOMAIN bids -> BidValues]
    BY <2>1, <2>2, PlannerAssumption, FS_Subset
  <2>4. ok \subseteq DOMAIN bids
    BY DEF Eligible
  <2>5. \A a \in DOMAIN bids : offers[m][a] \in Nat
    BY <2>2, <2>3
  <2>. HIDE DEF m, bids, w, ok
  <2>6. CASE w = None
    <3>1. None \notin ok
      BY <2>2, <2>3, <2>4, PlannerAssumption
    <3>2. ok = {}
      BY <2>1, <2>6, <3>1
    <3>. QED
      BY <2>6, <3>2 DEF m, bids, w, ok
  <2>7. CASE w # None
    <3>1. w \in ok /\ \A b \in ok : Rating(m, bids, w) <= Rating(m, bids, b)
      BY <2>1, <2>7
    <3>2. ASSUME NEW b \in ok, bids[b].time <= bids[w].time, bids[b].energy <= bids[w].energy,
                 offers[m][b] <= offers[m][w],
                 \/ bids[b].time < bids[w].time /\ m.weights.time > 0
                 \/ bids[b].energy < bids[w].energy /\ m.weights.energy > 0
                 \/ offers[m][b] < offers[m][w]
          PROVE  FALSE
      BY <2>2, <2>3, <2>5, <3>1, <3>2, BetterBidsRateBetter DEF ok
    <3>. QED
      BY <2>7, <3>1, <3>2 DEF m, bids, w, ok
  <2>. QED
    BY <2>6, <2>7
<1>2. PlannerInv => AwardsAreFair
  BY <1>1 DEF AwardsAreFair, Eligible, Floor
<1>. QED
  BY <1>2, PlannerInvHolds, PTL
=============================================================================
