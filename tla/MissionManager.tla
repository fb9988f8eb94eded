---------------------------- MODULE MissionManager ----------------------------
(***************************************************************************)
(* mission_manager.py: the catalogue of missions and their status.  The    *)
(* class is a HandshakeCoordinator whose subjects are missions and whose   *)
(* receivers are the instances the link manager has paired with an agent.  *)
(*                                                                         *)
(* Of the fleet only the pairing shows here: it changes under the          *)
(* manager's feet, and the link manager calls drop_agent when it does.     *)
(* Routes and bids are abstracted away: the planner may propose any        *)
(* instances, and any of the offers may win.                               *)
(***************************************************************************)
EXTENDS Responders

CONSTANT Agent

ASSUME MissionAssumption == CompletionLeg /\ None \notin Agent

VARIABLES
    status,     \* mission -> MissionStatus; outside the catalogue, absent or removed
    assigned,   \* mission -> assigned_ugv
    agentOf     \* fleet: instance -> the agent it is paired with

missionVars == <<status, assigned>>
vars == <<coordVars, responderVars, missionVars, agentOf>>

Statuses == {"absent", "PENDING", "BIDDING", "ACTIVE", "COMPLETE", "CANCELLED", "removed"}

TypeOK ==
    /\ CoordTypeOK /\ RespondersTypeOK
    /\ status \in [Subject -> Statuses]
    /\ assigned \in [Subject -> Agent \cup {None}]
    /\ agentOf \in [Instance -> Agent \cup {None}]

Init ==
    /\ CoordInit /\ RespondersInit
    /\ status = [m \in Subject |-> "absent"]
    /\ assigned = [m \in Subject |-> None]
    /\ agentOf = [i \in Instance |-> None]

Present(m) == status[m] \notin {"absent", "removed"}
Paired == {i \in Instance : agentOf[i] # None}

-----------------------------------------------------------------------------
(* The catalogue and the planner                                           *)

Add(m) ==
    /\ status[m] = "absent"
    /\ status' = [status EXCEPT ![m] = "PENDING"]
    /\ UNCHANGED <<coordVars, responderVars, assigned, agentOf>>

Eligible(m) == status[m] = "PENDING" /\ ~InFlight(m) /\ EpochLeft(m)

\* One planning pass: every eligible mission may get a round of its own, among
\* instances no conversation and no earlier round of the pass has engaged.
PlanAndElect ==
    \E cands \in [{m \in Subject : Eligible(m)} -> SUBSET (Paired \ EngagedInstances)] :
        LET of(m) == IF m \in DOMAIN cands THEN cands[m] ELSE {}
        IN  /\ \A m, n \in DOMAIN cands : m # n => cands[m] \cap cands[n] = {}
            /\ OpenElections([m \in Subject |-> of(m)])
            /\ status' = [m \in Subject |-> IF of(m) # {} THEN "BIDDING" ELSE status[m]]
            /\ UNCHANGED <<responderVars, assigned, agentOf>>

\* assign(): no bidding, whatever the status says.
Assign(m, i) ==
    /\ Present(m) /\ i \in Paired
    /\ RequestDirected(m, i)
    /\ status' = [status EXCEPT ![m] = "BIDDING"]
    /\ UNCHANGED <<responderVars, assigned, agentOf>>

-----------------------------------------------------------------------------
(* The hooks.  Each gives the status and the agent a mission has after it. *)

Mark(st, ag) == [status |-> st, agent |-> ag]
Now(m) == Mark(status[m], assigned[m])

\* Variant: the instance is taken for its agent.
OnLinkInstance(m, i) == Mark("ACTIVE", i)

OnLink(m, i) == Mark("ACTIVE", agentOf[i])
OnComplete(m) == Mark("COMPLETE", assigned[m])
\* Variants: an active mission stays active; the agent is kept; a verdict is overruled.
OnReleaseActive(m) == Mark(status[m], None)
OnReleaseAssigned(m) ==
    Mark(IF status[m] = "CANCELLED" THEN "CANCELLED" ELSE "PENDING", assigned[m])
OnReleaseCancelled(m) == Mark("PENDING", None)

OnRelease(m) == Mark(IF status[m] = "CANCELLED" THEN "CANCELLED" ELSE "PENDING", None)

\* Variant: nothing happens on retirement.
OnRetireNothing(mark) == mark

\* on_retire: an attempt that never went ACTIVE goes back to PENDING.
OnRetire(mark) == IF mark.status = "BIDDING" THEN Mark("PENDING", None) ELSE mark

Hook(m, x) == IF ~Present(m) THEN Now(m) ELSE
              CASE x.act = "LINK" -> OnLink(m, x.by)
                [] x.act = "COMPLETE" -> OnComplete(m)
                [] x.act = "RELEASE" -> OnRelease(m)
                [] OTHER -> Now(m)

\* Whether the effect ends the conversation about m.
Retires(m, x) == InFlight(m) /\ Retire(x.hs) = NoInitiator /\ x.el = NoElection

Concluded(m, x) == IF Retires(m, x) THEN OnRetire(Hook(m, x)) ELSE Hook(m, x)

\* _winner(): a bid counts as long as its instance still has an agent.
WinnerIsPaired(m, x) ==
    HasElection(m) /\ x.hs.state = "AWARDED" => x.hs.receiver \in Paired

Conclude(m, x) ==
    /\ WinnerIsPaired(m, x)
    /\ Perform(m, x)
    /\ status' = [status EXCEPT ![m] = Concluded(m, x).status]
    /\ assigned' = [assigned EXCEPT ![m] = Concluded(m, x).agent]
    /\ UNCHANGED agentOf

Route(i) ==
    /\ Take(i)
    /\ \E x \in RouteEffects(Head(uplink[i])) : Conclude(Head(uplink[i]).id, x)

Tick(m) ==
    /\ InFlight(m)
    /\ \E x \in TickEffects(m) : Conclude(m, x)
    /\ UNCHANGED responderVars

-----------------------------------------------------------------------------
(* Giving a mission up                                                     *)

\* The operator's verdict comes first: on_retire finds CANCELLED.
CancelMission(m) ==
    /\ Present(m)
    /\ status' = [status EXCEPT ![m] = "CANCELLED"]
    /\ Cancel(m)
    /\ UNCHANGED <<responderVars, assigned, agentOf>>

\* remove(): from the catalogue for good.
Remove(m) ==
    /\ Present(m)
    /\ CancelAndForget(IF InFlight(m) THEN {m} ELSE {}, {m})
    /\ status' = [status EXCEPT ![m] = "removed"]
    /\ assigned' = [assigned EXCEPT ![m] = None]
    /\ UNCHANGED <<responderVars, agentOf>>

\* Variant: the agent goes alone.
DroppedAlone(a) == {}

\* drop_agent(): the agent takes its missions with it.
DroppedWith(a) == {m \in Subject : Present(m) /\ assigned[m] = a}

DropAgent(a) ==
    /\ CancelAndForget({m \in DroppedWith(a) : InFlight(m)}, {})
    /\ status' = [m \in Subject |-> IF m \in DroppedWith(a) THEN "PENDING" ELSE status[m]]
    /\ assigned' = [m \in Subject |-> IF m \in DroppedWith(a) THEN None ELSE assigned[m]]

-----------------------------------------------------------------------------
(* The fleet, as the link manager changes it                               *)

Pair(a, i) ==
    /\ agentOf[i] = None
    /\ \A j \in Instance : agentOf[j] # a
    /\ agentOf' = [agentOf EXCEPT ![i] = a]
    /\ UNCHANGED <<coordVars, responderVars, missionVars>>

Unpair(i) ==
    /\ i \in Paired
    /\ agentOf' = [agentOf EXCEPT ![i] = None]
    /\ DropAgent(agentOf[i])
    /\ UNCHANGED responderVars

World ==
    \/ Environment /\ UNCHANGED <<missionVars, agentOf>>
    \/ \E m \in Subject, i \in Instance :
          CooldownOver(m, i) /\ UNCHANGED <<responderVars, missionVars, agentOf>>

Next ==
    \/ PlanAndElect
    \/ \E m \in Subject : Add(m) \/ CancelMission(m) \/ Remove(m) \/ Tick(m)
    \/ \E m \in Subject, i \in Instance : Assign(m, i)
    \/ \E i \in Instance : Route(i) \/ Unpair(i)
    \/ \E a \in Agent, i \in Instance : Pair(a, i)
    \/ World

Spec == Init /\ [][Next]_vars

\* step() ticks every conversation.
FairSpec == Spec /\ \A m \in Subject : WF_vars(Tick(m))

-----------------------------------------------------------------------------
(* Properties                                                              *)

\* on_retire: a mission whose attempt has ended must not "sit in BIDDING forever".
BiddingIsUnderWay == \A m \in Subject : status[m] = "BIDDING" => InFlight(m)

\* A mission that runs has a live conversation with the instance it runs on.
ActiveIsConfirmed == \A m \in Subject :
    status[m] = "ACTIVE" => handshakes[m].state = "CONFIRMED"

\* "The agent lost its instance, so it takes its missions with it" (drop_agent):
\* an active mission runs on an agent, the one its instance is paired with.
ActiveHasItsAgent == \A m \in Subject : status[m] = "ACTIVE" =>
    assigned[m] # None /\ agentOf[handshakes[m].receiver] = assigned[m]

\* An agent drives one mission at a time.
OneMissionPerAgent == \A m, n \in Subject :
    status[m] = "ACTIVE" /\ status[n] = "ACTIVE" /\ assigned[m] # None
        /\ assigned[m] = assigned[n] => m = n

\* A mission waiting to be planned belongs to nobody.
PendingIsNobodys == \A m \in Subject : status[m] = "PENDING" => assigned[m] = None

\* Whatever answer is still under way when the operator cancels a mission, it does
\* not start the mission, and only a new assignment or a lost agent revives it.
CancelIsFinal == [][\A m \in Subject : status[m] = "CANCELLED" =>
    \/ status'[m] \in {"CANCELLED", "removed"}
    \/ \E i \in Instance : Assign(m, i) \/ (Unpair(i) /\ assigned[m] = agentOf[i])]_vars

\* A mission that was put out to bids does not stay out.
BiddingEnds == \A m \in Subject : status[m] = "BIDDING" ~> status[m] # "BIDDING"
=============================================================================
