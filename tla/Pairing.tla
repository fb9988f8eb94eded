------------------------------- MODULE Pairing -------------------------------
(***************************************************************************)
(* What the link manager promises the rest of the aggregate about the      *)
(* fleet: agents and instances are paired one to one, a pair forms out of  *)
(* two free sides and dissolves as a whole, so nobody ever moves straight  *)
(* from one partner to another.                                            *)
(***************************************************************************)
CONSTANTS Agent, Instance

VARIABLE pairs

Init == pairs = {}

Link(a, i) ==
    /\ \A p \in pairs : p[1] # a /\ p[2] # i
    /\ pairs' = pairs \cup {<<a, i>>}

Unlink(p) == pairs' = pairs \ {p}

Next == \/ \E a \in Agent, i \in Instance : Link(a, i)
        \/ \E p \in pairs : Unlink(p)

Spec == Init /\ [][Next]_pairs
=============================================================================
