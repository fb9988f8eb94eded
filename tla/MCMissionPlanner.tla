--------------------------- MODULE MCMissionPlanner ---------------------------
EXTENDS MissionPlanner, TLC

CONSTANTS a1, a2, a3

\* Two narrow robots and a wide one: 0.25 m and 0.45 m in cells of 0.4 m.
SomeRadii == a1 :> 600 @@ a2 :> 1100 @@ a3 :> 600

\* Up to two obstacles in the middle, the camera over nothing or along one side: a
\* detour under the camera may be cheaper than the straight way.
Middle == {c \in Interior : c[1] \in {2, 3}}
SomeMaps == [blocked : {{c, d} : c \in Middle, d \in Middle} \cup {{}},
             covered : {{}, {c \in Interior : c[2] = NY - 2}}]

\* Two of the fleet equally far from a goal, and one of them in the goal of a mission.
SomePlaces == {a1 :> <<1, 2>> @@ a2 :> <<2, 3>> @@ a3 :> <<5, 2>>,
               a1 :> <<1, 4>> @@ a2 :> <<4, 3>> @@ a3 :> <<3, 2>>}

Balanced == [distance |-> 1, uncertainty |-> 5, risk |-> 1, time |-> 20, energy |-> 20]

Mission(type, goal, threshold, budget) ==
    [type |-> type, goal |-> goal, weights |-> Balanced, threshold |-> threshold, budget |-> budget]

Waypoint == Mission("GOTO", <<5, 2>>, 0, None)
Gated == Mission("TIME_GATED", <<3, 2>>, None, 2)
Patrol == Mission("PATROL", <<1, 1>>, None, None)

Tracked == Mission("TRACK_KNOWN", <<1, 1>>, None, None)

SomePasses == {<<Patrol, Waypoint, Gated>>, <<Gated, Tracked>>}

SomeBids == {None, [time |-> 1, energy |-> 3, margin |-> 12], [time |-> 1, energy |-> 2, margin |-> 12],
             [time |-> 2, energy |-> 2, margin |-> 12], [time |-> 2, energy |-> 1, margin |-> 5]}
=============================================================================
