------------------------------ MODULE Perception ------------------------------
(***************************************************************************)
(* What the fleet sees: aggregate_twin._handle_obstacle, the obstacle      *)
(* registry, the marker table of the fleet registry, the footprints of the *)
(* agent entries, and the perceived layer of the grid map.                 *)
(*                                                                         *)
(* Positions are in quarters of a cell.  Pairs come and go as the link     *)
(* manager decides; clocks are a counter of receive times.                 *)
(***************************************************************************)
EXTENDS GridMap, SensorFootprint

CONSTANTS
    Agent, Instance, None,
    MarkerOf,       \* agent -> the id painted on it, its agent_id
    Sightings,      \* [id, at, marker, shape]: what may be reported
    Headings,       \* [at, quarters]: where an agent may stand
    Unknown,        \* the state of an entry before the first twin state
    MaxAge,         \* max_age of a report
    MaxTime,        \* bound on the clock; nothing is reported that could not grow too old
    MaxDetections   \* bound on the reports handled

ASSUME PerceptionAssumption ==
    /\ {MaxAge, MaxTime, MaxDetections} \subseteq Nat
    /\ None \notin Agent \cup Instance

\* agent_id_to_name has one name per id: the ids on the robots are different.
ASSUME MarkersAssumption ==
    /\ \A a, b \in Agent : MarkerOf[a] = MarkerOf[b] => a = b
    /\ \A a \in Agent : MarkerOf[a] # None
    /\ \A s \in Sightings : s.marker = None \/ \E a \in Agent : s.marker = MarkerOf[a]

VARIABLES
    instanceOf,     \* fleet: agent -> instance
    agentNamed,     \* agent_id_to_name: marker -> agent
    pose,           \* agent -> its state, as the last twin state told
    hull,           \* agent -> sensor_footprint
    reports,        \* obstacle registry: <<agent, id>> -> [sighting, received]
    perceived,      \* _dynamic: cells blocked by perception
    fixes,          \* external poses the last step sent: [to, about, observer]
    now,            \* the wall clock
    detections      \* counts what MaxDetections bounds, nothing reads it

vars == <<instanceOf, agentNamed, pose, hull, reports, perceived, fixes, now, detections>>

Markers == {MarkerOf[a] : a \in Agent}
Linked(a) == instanceOf[a] # None
AgentOf(i) == {a \in Agent : instanceOf[a] = i}

Init ==
    /\ instanceOf = [a \in Agent |-> None]
    /\ agentNamed = [m \in Markers |-> None]
    /\ pose = [a \in Agent |-> Unknown]
    /\ hull = [a \in Agent |-> <<BodyCentre>>]
    /\ reports = [r \in {} |-> None]
    /\ perceived = {} /\ fixes = {} /\ now = 0 /\ detections = 0

-----------------------------------------------------------------------------
(* Rasterisation                                                           *)

\* Twice the width of half a cell: a cell is four quarters wide.
Centre(c) == <<4 * c[1] + 2, 4 * c[2] + 2>>

\* Half a cell of padding around a disc.
InDisc(at, radius, c) == SquareOfDistance(Centre(c), at) <= (radius + 2) * (radius + 2)

WithinPolygon(polygon, p) ==
    \/ \A k \in DOMAIN polygon : Cross(polygon[k], Following(polygon, k), p) > 0
    \/ \A k \in DOMAIN polygon : Cross(polygon[k], Following(polygon, k), p) < 0

\* A cell or one of its neighbours has its centre within.
NearPolygon(polygon, c) ==
    \E d \in Cells : SquareOfDistance(c, d) <= 2 /\ WithinPolygon(polygon, Centre(d))

\* A report with neither a polygon nor a radius blocks no cell.
BlockedBy(s) == {c \in Cells :
    IF Len(s.shape.polygon) >= 3 THEN NearPolygon(s.shape.polygon, c)
    ELSE s.shape.radius > 0 /\ InDisc(s.at, s.shape.radius, c)}

\* <<s, c>>: the sighting blocks the cell.
Blocks == UNION {{<<s, c>> : c \in BlockedBy(s)} : s \in Sightings}

-----------------------------------------------------------------------------
(* Reports                                                                 *)

\* The agent a marker was seen on, if it is one of the fleet.
Targets(s) == IF s.marker = None THEN {} ELSE {agentNamed[s.marker]} \ {None}

\* send_agent_position: to the instance that runs the agent.
Relayed(a, observer) ==
    IF instanceOf[a] = None THEN {} ELSE {[to |-> instanceOf[a], about |-> a, observer |-> observer]}

Ingested(a, s) ==
    [r \in DOMAIN reports \cup {<<a, s.id>>} |->
        IF r = <<a, s.id>> THEN [sighting |-> s, received |-> now] ELSE reports[r]]

HandleObstacle(i, s) ==
    /\ detections < MaxDetections /\ detections' = detections + 1 /\ now + MaxAge < MaxTime
    /\ \E a \in AgentOf(i) :
          /\ hull' = [hull EXCEPT ![a] = Observed(hull[a], pose[a], s.at)]
          /\ fixes' = UNION {Relayed(t, a) : t \in Targets(s) \ {a}}
          /\ reports' = IF Targets(s) \subseteq {a} THEN Ingested(a, s) ELSE reports
    /\ UNCHANGED <<instanceOf, agentNamed, pose, perceived, now>>

\* Twin state of a linked agent tells where it stands.
HandleTwinState(a, p) ==
    /\ Linked(a) /\ p # pose[a]
    /\ pose' = [pose EXCEPT ![a] = p]
    /\ fixes' = {}
    /\ UNCHANGED <<detections, instanceOf, agentNamed, hull, reports, perceived, now>>

\* Variant: only the reports of the fleet's agents are looked through.
PrunedOfLinked ==
    LET kept == {r \in DOMAIN reports : ~Linked(r[1]) \/ now - reports[r].received <= MaxAge}
    IN  [r \in kept |-> reports[r]]

\* prune(): what is left of the reports at a time.
Pruned ==
    LET kept == {r \in DOMAIN reports : now - reports[r].received <= MaxAge}
    IN  [r \in kept |-> reports[r]]

CellsOfAll(rs) == {c \in Cells : \E r \in DOMAIN rs : <<rs[r].sighting, c>> \in Blocks}

\* Every perception_period steps: prune, then replace the perceived layer.
UpdatePerception ==
    /\ reports' = Pruned
    /\ perceived' = CellsOfAll(Pruned)
    /\ fixes' = {}
    /\ UNCHANGED <<detections, instanceOf, agentNamed, pose, hull, now>>

TimePasses ==
    /\ now < MaxTime /\ now' = now + 1
    /\ fixes' = {}
    /\ UNCHANGED <<detections, instanceOf, agentNamed, pose, hull, reports, perceived>>

-----------------------------------------------------------------------------
(* The fleet registry                                                      *)

\* register(): a new entry starts with the default state and footprint; a moved
\* agent keeps its entry.
Register(a, i) ==
    /\ AgentOf(i) = {} /\ instanceOf[a] # i
    /\ instanceOf' = [instanceOf EXCEPT ![a] = i]
    /\ agentNamed' = [agentNamed EXCEPT ![MarkerOf[a]] = a]
    /\ fixes' = {}
    /\ UNCHANGED <<pose, hull, reports, perceived, now, detections>>

\* Variant: the marker outlives the agent's entry.
RemoveEntry(a) ==
    /\ Linked(a)
    /\ instanceOf' = [instanceOf EXCEPT ![a] = None]
    /\ pose' = [pose EXCEPT ![a] = Unknown]
    /\ hull' = [hull EXCEPT ![a] = <<BodyCentre>>]
    /\ fixes' = {}
    /\ UNCHANGED <<agentNamed, reports, perceived, now, detections>>

\* remove(): state, footprint and marker go with the entry.  The reports of the
\* agent stay: drop_reporter has no caller.
RemoveAgent(a) ==
    /\ Linked(a)
    /\ instanceOf' = [instanceOf EXCEPT ![a] = None]
    /\ agentNamed' = [agentNamed EXCEPT ![MarkerOf[a]] = None]
    /\ pose' = [pose EXCEPT ![a] = Unknown]
    /\ hull' = [hull EXCEPT ![a] = <<BodyCentre>>]
    /\ fixes' = {}
    /\ UNCHANGED <<reports, perceived, now, detections>>

Next ==
    \/ \E i \in Instance, s \in Sightings : HandleObstacle(i, s)
    \/ \E a \in Agent, p \in Headings : HandleTwinState(a, p)
    \/ \E a \in Agent, i \in Instance : Register(a, i)
    \/ \E a \in Agent : RemoveAgent(a)
    \/ UpdatePerception
    \/ TimePasses

Spec == Init /\ [][Next]_vars

\* Time passes, and the timer's steps rebuild the layer before anything in them that is
\* known to raise; nobody has to link, to report or to answer.
FairSpec == Spec /\ WF_vars(UpdatePerception) /\ WF_vars(TimePasses)

-----------------------------------------------------------------------------
(* Properties                                                              *)

\* "A marker on another agent is not an obstacle but a position fix" (_handle_obstacle):
\* what enters the registry is no agent of the fleet but, at most, the reporter; a fix
\* goes to the instance that runs the agent it is about; and a detection is one or the
\* other: the marker of a robot that has left the fleet is an obstacle again.
RobotsAreNotObstacles == [][
    /\ \A r \in DOMAIN reports' :
          \/ r \in DOMAIN reports /\ reports'[r] = reports[r]
          \/ \A b \in Agent \ {r[1]} : Linked(b) => reports'[r].sighting.marker # MarkerOf[b]
    /\ \A f \in fixes' : instanceOf[f.about] = f.to /\ Linked(f.observer)
    /\ detections' # detections /\ fixes' = {} =>
          \E r \in DOMAIN reports' : Linked(r[1]) /\ reports'[r].received = now]_vars

\* "Drop stale reports, or a moving obstacle smears across the map forever" (prune): once
\* nobody reports anything any more (MaxDetections sees to that), every cell perception
\* blocks is free again in the end, whoever reported it and has left the fleet since.
MapForgets == perceived # {} ~> perceived = {}

\* A convex polygon, counter-clockwise, with no superfluous vertex: outside_distance
\* measures from nothing else.
IsConvex(h) == \A j, k \in DOMAIN h :
    /\ Cross(h[k], Following(h, k), h[j]) >= 0
    /\ j # k /\ h[j] # Following(h, k) => Cross(h[k], Following(h, k), h[j]) > 0

\* The hull keeps what it covered and covers what the agent reports now.
Grows(a) ==
    /\ \A k \in DOMAIN hull[a] : Inside(hull'[a], hull[a][k])
    /\ detections' # detections =>
        \A r \in DOMAIN reports' : r[1] = a /\ (r \notin DOMAIN reports \/ reports'[r] # reports[r]) =>
            LET p == InBody(pose[a], reports'[r].sighting.at)
            IN  p[1] * p[1] + p[2] * p[2] > MaxRange * MaxRange \/ Inside(hull'[a], p)

\* "every detection an agent reports is taken as proof that its sensors reach that
\* point": a footprint never loses a point it covered, nor leaves out the new one,
\* unless the cap was reached or the point is an outlier; at the cap it gives up one
\* vertex at most and makes up none, and it always stays a convex polygon.
FootprintsGrow == [][\A a \in Agent :
    /\ Len(hull'[a]) <= MaxVertices
    /\ Len(hull'[a]) >= 3 => IsConvex(hull'[a])
    /\ Linked(a) /\ Linked(a)' =>
          /\ \A k \in DOMAIN hull'[a] :
                \/ \E j \in DOMAIN hull[a] : hull'[a][k] = hull[a][j]
                \/ \E s \in Sightings : hull'[a][k] = InBody(pose[a], s.at)
          /\ \A j, k \in DOMAIN hull[a] :
                j = k \/ Inside(hull'[a], hull[a][j]) \/ Inside(hull'[a], hull[a][k])
          /\ Len(hull[a]) < MaxVertices => Grows(a)]_vars
=============================================================================
