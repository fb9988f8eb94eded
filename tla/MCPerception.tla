----------------------------- MODULE MCPerception -----------------------------
EXTENDS Perception, TLC

CONSTANTS a1, a2, i1, i2

SomeMarkers == a1 :> 1 @@ a2 :> 2

Sighting(id, at, marker, radius, polygon) ==
    [id |-> id, at |-> at, marker |-> marker, shape |-> [radius |-> radius, polygon |-> polygon]]

\* A ball, a crate and the second robot.
SomeSightings ==
    {Sighting("ball", <<8, 4>>, None, 3, <<>>),
     Sighting("crate", <<0, 16>>, None, 0, <<<<0, 13>>, <<3, 13>>, <<3, 19>>, <<0, 19>>>>),
     Sighting("robot", <<4, 12>>, 2, 2, <<>>)}

SomeHeadings == {[at |-> <<8, 8>>, quarters |-> 1]}
Origin == [at |-> <<0, 0>>, quarters |-> 0]
=============================================================================
