---------------------------- MODULE MCDiscovery ----------------------------
EXTENDS Discovery

MCField == {"battery", "state_sensors"}
MCFieldType == [battery |-> "object", state_sensors |-> "list"]

Object(keys, atom) == [type |-> "object", of |-> [k \in keys |-> atom]]
List(atom) == [type |-> "list", of |-> [it |-> atom]]
Text(atom) == [type |-> "string", of |-> [it |-> atom]]
Says(battery, sensors) == [battery |-> battery, state_sensors |-> sensors, kind |-> Missing]

\* The atom tells contents apart, so that two layers may or may not say the same.
MCContent == {
    Says(Object({"capacity", "scale"}, "full"), List("pose")),
    Says(Object({"capacity"}, "worn"), Missing),
    Says(Object({"scale"}, "old"), List("imu")),
    Says(Missing, Null),
    Says(Null, List("pose"))}

MCReport == {[r EXCEPT !.kind = Text("ugv")] : r \in {
    Says(Null, Null),
    Says(Object({"scale"}, "own"), Null),
    Says(Object({"name", "scale"}, "own"), List("odom"))}}

MCCustom == {Null, Text(""), Text("typed"), Object({"name"}, "typed"), List("typed")}
=============================================================================
