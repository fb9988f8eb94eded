--------------------------- MODULE SensorFootprint ---------------------------
(***************************************************************************)
(* sensor_footprint.py: the convex hull of what an agent has detected, in  *)
(* its body frame, capped at a number of vertices.  Points are on a lattice*)
(* coarser than the margin, so that "within the margin of the border" is   *)
(* "on the border"; a hull is a sequence, counter-clockwise.               *)
(***************************************************************************)
EXTENDS Integers, Sequences, SequencesExt

CONSTANTS
    MaxVertices,    \* the cap of the hull
    MaxRange        \* a detection farther away is an outlier

ASSUME FootprintAssumption == MaxVertices \in Nat \ {0} /\ MaxRange \in Nat

BodyCentre == <<0, 0>>

Cross(o, a, b) == (a[1] - o[1]) * (b[2] - o[2]) - (a[2] - o[2]) * (b[1] - o[1])

Absolute(n) == IF n < 0 THEN -n ELSE n

-----------------------------------------------------------------------------
(* Andrew's monotone chain                                                 *)

LeftOf(p, q) == p[1] < q[1] \/ (p[1] = q[1] /\ p[2] < q[2])

\* The chain without the points p makes superfluous.
Popped(chain, p) ==
    LET Keep[n \in 0 .. Len(chain)] ==
            IF n >= 2 /\ Cross(chain[n - 1], chain[n], p) <= 0 THEN Keep[n - 1] ELSE n
    IN  SubSeq(chain, 1, Keep[Len(chain)])

Chain(points) == FoldLeft(LAMBDA chain, p : Append(Popped(chain, p), p), <<>>, points)

ConvexHull(points) ==
    LET sorted == SetToSortSeq(points, LeftOf)
    IN  IF Len(sorted) <= 2 THEN sorted
        ELSE Front(Chain(sorted)) \o Front(Chain(Reverse(sorted)))

-----------------------------------------------------------------------------
(* Growing                                                                 *)

Following(polygon, k) == polygon[(k % Len(polygon)) + 1]
Preceding(polygon, k) == polygon[IF k = 1 THEN Len(polygon) ELSE k - 1]

Between(p, a, b) ==
    /\ Cross(a, b, p) = 0
    /\ (p[1] - a[1]) * (p[1] - b[1]) <= 0 /\ (p[2] - a[2]) * (p[2] - b[2]) <= 0

\* outside_distance(hull, p) = 0.
Inside(hull, p) ==
    \/ Len(hull) = 1 /\ p = hull[1]
    \/ Len(hull) = 2 /\ Between(p, hull[1], hull[2])
    \/ Len(hull) >= 3 /\ \A k \in DOMAIN hull : Cross(hull[k], Following(hull, k), p) >= 0

\* What the hull loses with its vertex k.
Ear(hull, k) == Absolute(Cross(Preceding(hull, k), hull[k], Following(hull, k)))

\* Variant: one vertex too many is left.
CappedLate(hull) ==
    LET Least(h) == CHOOSE k \in DOMAIN h : \A j \in DOMAIN h :
                        Ear(h, k) < Ear(h, j) \/ (Ear(h, k) = Ear(h, j) /\ k <= j)
        Fewer[h \in Seq(Int \X Int)] ==
            IF Len(h) <= MaxVertices + 1 THEN h ELSE Fewer[RemoveAt(h, Least(h))]
    IN  Fewer[hull]

\* The cap drops the vertex that adds the least area, the first of equals.
Capped(hull) ==
    LET Least(h) == CHOOSE k \in DOMAIN h : \A j \in DOMAIN h :
                        Ear(h, k) < Ear(h, j) \/ (Ear(h, k) = Ear(h, j) /\ k <= j)
        Fewer[h \in Seq(Int \X Int)] ==
            IF Len(h) <= MaxVertices THEN h ELSE Fewer[RemoveAt(h, Least(h))]
    IN  Fewer[hull]

Ignored(hull, p) == p[1] * p[1] + p[2] * p[2] > MaxRange * MaxRange \/ Inside(hull, p)

Extended(hull, p) ==
    IF Ignored(hull, p) THEN hull ELSE Capped(ConvexHull(ToSet(hull) \cup {p}))

\* The detection in the body frame of an agent that has turned by quarters.
InBody(pose, at) ==
    LET dx == at[1] - pose.at[1]
        dy == at[2] - pose.at[2]
    IN  CASE pose.quarters = 0 -> <<dx, dy>>
          [] pose.quarters = 1 -> <<dy, -dx>>
          [] pose.quarters = 2 -> <<-dx, -dy>>
          [] pose.quarters = 3 -> <<-dy, dx>>

\* observe()
Observed(hull, pose, at) == Extended(hull, InBody(pose, at))
=============================================================================
