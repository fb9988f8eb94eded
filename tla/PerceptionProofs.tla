--------------------------- MODULE PerceptionProofs ---------------------------
(***************************************************************************)
(* What the fleet reports as obstacles, and what the map makes of it, for  *)
(* any fleet, any reports and any way of pairing and releasing agents.     *)
(***************************************************************************)
EXTENDS Perception, TLAPS

\* agent_id_to_name has the markers of the fleet, and of nobody else: only then is a
\* marker that is looked up the marker of the robot it stands on.
MarkersAreTheFleet ==
    /\ instanceOf \in [Agent -> Instance \cup {None}]
    /\ agentNamed \in [Markers -> Agent \cup {None}]
    /\ \A a \in Agent : Linked(a) => agentNamed[MarkerOf[a]] = a
    /\ \A m \in Markers : agentNamed[m] # None =>
          Linked(agentNamed[m]) /\ MarkerOf[agentNamed[m]] = m

\* The registry starts empty.
LEMMA InitMarkers == Init => MarkersAreTheFleet
BY DEF Init, MarkersAreTheFleet, Linked

\* register() and remove() write the two dicts together.
LEMMA NextMarkers == MarkersAreTheFleet /\ [Next]_vars => MarkersAreTheFleet'
<1> SUFFICES ASSUME MarkersAreTheFleet, [Next]_vars PROVE MarkersAreTheFleet'
  OBVIOUS
<1>1. ASSUME UNCHANGED <<instanceOf, agentNamed>> PROVE MarkersAreTheFleet'
  BY <1>1 DEF MarkersAreTheFleet, Linked
<1>2. ASSUME NEW a \in Agent, NEW i \in Instance, Register(a, i) PROVE MarkersAreTheFleet'
  <2>1. MarkerOf[a] \in Markers /\ i # None
    BY PerceptionAssumption DEF Markers
  <2>2. /\ instanceOf' = [instanceOf EXCEPT ![a] = i]
        /\ agentNamed' = [agentNamed EXCEPT ![MarkerOf[a]] = a]
    BY <1>2 DEF Register
  <2>3. \A b \in Agent : Linked(b)' <=> Linked(b) \/ b = a
    BY <2>1, <2>2 DEF MarkersAreTheFleet, Linked
  <2>4. \A m \in Markers : agentNamed'[m] = IF m = MarkerOf[a] THEN a ELSE agentNamed[m]
    BY <2>2 DEF MarkersAreTheFleet
  <2>5. \A b \in Agent : MarkerOf[b] \in Markers
    BY DEF Markers
  <2> QED
    BY <2>1, <2>2, <2>3, <2>4, <2>5, MarkersAssumption, PerceptionAssumption
       DEF MarkersAreTheFleet
<1>3. ASSUME NEW a \in Agent, RemoveAgent(a) PROVE MarkersAreTheFleet'
  <2>1. /\ instanceOf' = [instanceOf EXCEPT ![a] = None]
        /\ agentNamed' = [agentNamed EXCEPT ![MarkerOf[a]] = None]
    BY <1>3 DEF RemoveAgent
  <2>2. \A b \in Agent : Linked(b)' <=> Linked(b) /\ b # a
    BY <2>1 DEF MarkersAreTheFleet, Linked
  <2>3. \A m \in Markers : agentNamed'[m] = IF m = MarkerOf[a] THEN None ELSE agentNamed[m]
    BY <2>1 DEF MarkersAreTheFleet
  <2>4. \A b \in Agent : MarkerOf[b] \in Markers
    BY DEF Markers
  <2> QED
    BY <2>1, <2>2, <2>3, <2>4, MarkersAssumption DEF MarkersAreTheFleet
<1>4. ASSUME NEW i \in Instance, NEW s \in Sightings, HandleObstacle(i, s) PROVE MarkersAreTheFleet'
  BY <1>1, <1>4 DEF HandleObstacle
<1>5. ASSUME NEW a \in Agent, NEW p \in Headings, HandleTwinState(a, p) PROVE MarkersAreTheFleet'
  BY <1>1, <1>5 DEF HandleTwinState
<1>6. CASE UpdatePerception \/ TimePasses \/ UNCHANGED vars
  BY <1>1, <1>6 DEF UpdatePerception, TimePasses, vars
<1> QED
  BY <1>2, <1>3, <1>4, <1>5, <1>6 DEF Next

\* A report of a marker is a fix if a robot of the fleet other than the reporter bears it,
\* and an entry of the registry otherwise.
LEMMA ObstacleOrFix ==
    ASSUME MarkersAreTheFleet, NEW i \in Instance, NEW s \in Sightings,
           NEW a \in AgentOf(i),
           fixes' = UNION {Relayed(t, a) : t \in Targets(s) \ {a}},
           reports' = IF Targets(s) \subseteq {a} THEN Ingested(a, s) ELSE reports
    PROVE  /\ \A r \in DOMAIN reports' :
                 \/ r \in DOMAIN reports /\ reports'[r] = reports[r]
                 \/ \A b \in Agent \ {r[1]} : Linked(b) => reports'[r].sighting.marker # MarkerOf[b]
           /\ \A f \in fixes' : instanceOf[f.about] = f.to /\ Linked(f.observer)
           /\ fixes' = {} => \E r \in DOMAIN reports' : Linked(r[1]) /\ reports'[r].received = now
<1>1. a \in Agent /\ Linked(a)
  BY PerceptionAssumption DEF AgentOf, Linked
<1>2. \A t \in Targets(s) : t \in Agent /\ Linked(t) /\ s.marker = MarkerOf[t]
  BY MarkersAssumption DEF Targets, MarkersAreTheFleet, Markers
<1>3. \A b \in Agent : Linked(b) /\ s.marker = MarkerOf[b] => b \in Targets(s)
  <2> SUFFICES ASSUME NEW b \in Agent, Linked(b), s.marker = MarkerOf[b] PROVE b \in Targets(s)
    OBVIOUS
  <2>1. agentNamed[MarkerOf[b]] = b /\ b # None
    BY PerceptionAssumption DEF MarkersAreTheFleet
  <2>2. MarkerOf[b] # None
    BY MarkersAssumption
  <2> QED
    BY <2>1, <2>2 DEF Targets
<1>4. CASE Targets(s) \subseteq {a}
  <2> DEFINE key == <<a, s.id>>
  <2>1. /\ DOMAIN reports' = DOMAIN reports \cup {key}
        /\ reports'[key] = [sighting |-> s, received |-> now]
        /\ \A r \in DOMAIN reports \ {key} : reports'[r] = reports[r]
    BY <1>4 DEF Ingested
  <2>2. key[1] = a
    OBVIOUS
  <2>3. fixes' = {}
    BY <1>4
  <2>4. \A b \in Agent \ {a} : Linked(b) => s.marker # MarkerOf[b]
    BY <1>3, <1>4
  <2> HIDE DEF key
  <2> QED
    BY <1>1, <2>1, <2>2, <2>3, <2>4
<1>5. CASE ~(Targets(s) \subseteq {a})
  <2>1. reports' = reports
    BY <1>5
  <2>2. \A f \in fixes' : instanceOf[f.about] = f.to /\ Linked(f.observer)
    BY <1>1 DEF Relayed
  <2>3. PICK t \in Targets(s) : t # a
    BY <1>5
  <2>4. Relayed(t, a) # {}
    BY <1>2 DEF Relayed, Linked
  <2>5. fixes' # {}
    BY <2>3, <2>4
  <2> QED
    BY <2>1, <2>2, <2>5
<1> QED
  BY <1>4, <1>5

\* No robot of the fleet but the reporter ever enters the registry, every position fix
\* goes to the instance that runs the robot it is about, and no detection is lost between
\* the two.
THEOREM RobotsAreNotObstaclesHolds == Spec => RobotsAreNotObstacles
<1> DEFINE Kept == \A r \in DOMAIN reports' :
               \/ r \in DOMAIN reports /\ reports'[r] = reports[r]
               \/ \A b \in Agent \ {r[1]} : Linked(b) => reports'[r].sighting.marker # MarkerOf[b]
           Sent == \A f \in fixes' : instanceOf[f.about] = f.to /\ Linked(f.observer)
           Either == detections' # detections /\ fixes' = {} =>
               \E r \in DOMAIN reports' : Linked(r[1]) /\ reports'[r].received = now
<1>1. MarkersAreTheFleet /\ [Next]_vars => [Kept /\ Sent /\ Either]_vars
  <2> SUFFICES ASSUME MarkersAreTheFleet, Next PROVE Kept /\ Sent /\ Either
    OBVIOUS
  <2>1. ASSUME NEW i \in Instance, NEW s \in Sightings, HandleObstacle(i, s)
        PROVE  Kept /\ Sent /\ Either
    <3>1. PICK a \in AgentOf(i) :
            /\ fixes' = UNION {Relayed(t, a) : t \in Targets(s) \ {a}}
            /\ reports' = IF Targets(s) \subseteq {a} THEN Ingested(a, s) ELSE reports
      BY <2>1 DEF HandleObstacle
    <3> QED
      BY <3>1, ObstacleOrFix
  <2>2. ASSUME reports' = reports \/ reports' = Pruned, fixes' = {}, detections' = detections
        PROVE  Kept /\ Sent /\ Either
    <3>1. \A r \in DOMAIN reports' : r \in DOMAIN reports /\ reports'[r] = reports[r]
      BY <2>2 DEF Pruned
    <3> QED
      BY <2>2, <3>1
  <2>3. CASE \E a \in Agent, p \in Headings : HandleTwinState(a, p)
    BY <2>2, <2>3 DEF HandleTwinState
  <2>4. CASE \E a \in Agent : RemoveAgent(a) \/ \E i \in Instance : Register(a, i)
    BY <2>2, <2>4 DEF RemoveAgent, Register
  <2>5. CASE UpdatePerception \/ TimePasses
    BY <2>2, <2>5 DEF UpdatePerception, TimePasses
  <2> QED
    BY <2>1, <2>3, <2>4, <2>5 DEF Next
<1> QED
  BY <1>1, InitMarkers, NextMarkers, PTL DEF Spec, RobotsAreNotObstacles
=============================================================================
