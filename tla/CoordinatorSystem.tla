-------------------------- MODULE CoordinatorSystem --------------------------
(***************************************************************************)
(* One HandshakeCoordinator with its hooks left empty, talking to          *)
(* responders: the harness of test_handshake_coordinator.py, where pooled, *)
(* directed and auctioned subjects are mixed.                              *)
(***************************************************************************)
EXTENDS Responders

CONSTANT Modes      \* how the owner starts conversations

ASSUME ModesAssumption == Modes \subseteq {"pooled", "directed", "election"}

vars == <<coordVars, responderVars>>

Init == CoordInit /\ RespondersInit

Request(s) == /\ \/ "pooled" \in Modes /\ RequestPooled(s)
                 \/ "directed" \in Modes /\ \E i \in Instance : RequestDirected(s, i)
              /\ UNCHANGED responderVars

StartElection(s) == /\ "election" \in Modes
                    /\ \E hints \in SUBSET Instance : Elect(s, hints)
                    /\ UNCHANGED responderVars

CancelSubject(s) == InFlight(s) /\ Cancel(s) /\ UNCHANGED responderVars

Route(i) ==
    /\ Take(i)
    /\ \E x \in RouteEffects(Head(uplink[i])) : Perform(Head(uplink[i]).id, x)

Tick(s) == /\ InFlight(s)
           /\ \E x \in TickEffects(s) : Perform(s, x)
           /\ UNCHANGED responderVars

Cool == \E s \in Subject, i \in Instance : CooldownOver(s, i) /\ UNCHANGED responderVars

Next ==
    \/ \E s \in Subject : Request(s) \/ StartElection(s) \/ CancelSubject(s) \/ Tick(s)
    \/ \E i \in Instance : Route(i)
    \/ Cool
    \/ Environment

Spec == Init /\ [][Next]_vars

-----------------------------------------------------------------------------
(* State properties                                                        *)

TypeOK == CoordTypeOK /\ RespondersTypeOK

\* The fuzz invariant "one subject per receiver, aggregate side": awarded,
\* linked or being released, an instance belongs to one subject at a time.
OneSubjectPerReceiver == \A s, t \in Subject :
    handshakes[s].receiver # None /\ handshakes[s].receiver = handshakes[t].receiver => s = t

\* The two sides agree: an instance the aggregate counts as linked holds the
\* subject, unless word that it let go is already on its way.
ConfirmedIsHeld == \A s \in Subject :
    LET h == handshakes[s]
        letGo == Env("REVOKE", s, h.receiver, h.epoch)
    IN  h.state = "CONFIRMED" =>
           \/ inst[h.receiver].active = s
           \/ letGo \in Elements(uplink[h.receiver])

\* Nothing is under way and no conversation waits for an answer.
Quiescent ==
    /\ \A p \in DOMAIN net : net[p] = <<>>
    /\ \A i \in Instance : uplink[i] = <<>>
    /\ \A s \in Subject : ~HasElection(s) /\ handshakes[s].state \in {"NONE", "CONFIRMED"}

\* route() on an unknown subject: "tell the instance to let go, or it stays stuck
\* on something we already forgot".  When all is quiet, whatever an instance holds
\* the aggregate knows about.
NoOrphanHolder == Quiescent => \A i \in Instance :
    ~Free(i) => handshakes[inst[i].active].receiver = i

-----------------------------------------------------------------------------
(* Step properties                                                         *)

\* The epochs dict: no attempt mistakes an envelope of an earlier one for its own,
\* and no instance a request of an earlier attempt for one of this.
FreshAttempts == [][\A s \in Subject : OpensFresh(s, ToInstance \cup ToAggregate)]_vars

\* The receiver of s has just said so.
HolderSaid(s, statuses) ==
    LET h == handshakes[s]
    IN  /\ uplink[h.receiver] # <<>>
        /\ uplink'[h.receiver] = Tail(uplink[h.receiver])
        /\ Head(uplink[h.receiver]) \in {Env(st, s, h.receiver, h.epoch) : st \in statuses}

\* A subject some instance holds leaves the coordinator only on that instance's
\* word, or once a release has been retried to the end (_drop_if_unheld, tick).
HeldUntilLetGo == [][\A s \in Subject :
    /\ handshakes[s].state = "CONFIRMED" /\ handshakes'[s].state # "CONFIRMED" =>
          handshakes'[s].state = "CANCELLED" \/ HolderSaid(s, {"REVOKE", "COMPLETE"})
    /\ handshakes[s].state = "CANCELLED" /\ handshakes'[s].state # "CANCELLED" =>
          HolderSaid(s, {"REVOKE", "CANCEL_ACK"}) \/ handshakes[s].tries = MaxTries]_vars
=============================================================================
