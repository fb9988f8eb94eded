------------------------- MODULE MissionManagerProofs -------------------------
(***************************************************************************)
(* Theorems about the mission manager: any missions, instances and agents, *)
(* a fleet that changes at any time, messages lost and instances restarted.*)
(***************************************************************************)
EXTENDS MissionManager, CoordinatorLemmas

USE DEF Effect

\* Cancelling is final because the conversation is on its way out, or gone, from the
\* moment of the verdict.
CancelledIsOver == \A m \in Subject : status[m] = "CANCELLED" =>
    handshakes[m].state \in {"NONE", "CANCELLED"} /\ ~HasElection(m)

\* A mission that is added must not bring an agent along.
AbsentIsNobodys == \A m \in Subject : status[m] = "absent" => assigned[m] = None

StatusAgrees ==
    /\ BiddingIsUnderWay /\ ActiveIsConfirmed /\ PendingIsNobodys
    /\ CancelledIsOver /\ AbsentIsNobodys

Inv == TypeOK /\ OneDict /\ StatusAgrees

\* What each status says of one mission: StatusAgrees, for one mission.
Agrees(m) ==
    /\ status[m] = "BIDDING" => InFlight(m)
    /\ status[m] = "ACTIVE" => handshakes[m].state = "CONFIRMED"
    /\ status[m] \in {"PENDING", "absent"} => assigned[m] = None
    /\ status[m] = "CANCELLED" => handshakes[m].state \in {"NONE", "CANCELLED"} /\ ~HasElection(m)

\* The invariant is about each mission by itself.
LEMMA AgreesEach == StatusAgrees <=> \A m \in Subject : Agrees(m)
BY DEF StatusAgrees, BiddingIsUnderWay, ActiveIsConfirmed, PendingIsNobodys, CancelledIsOver,
       AbsentIsNobodys, Agrees

\* So is its successor.
LEMMA AgreesEachNext == StatusAgrees' <=> \A m \in Subject : Agrees(m)'
BY DEF StatusAgrees, BiddingIsUnderWay, ActiveIsConfirmed, PendingIsNobodys, CancelledIsOver,
       AbsentIsNobodys, Agrees

\* A mission a step does not touch stays as it is.
LEMMA Untouched ==
    ASSUME NEW m \in Subject, Agrees(m),
           handshakes'[m] = handshakes[m], elections'[m] = elections[m],
           status'[m] = status[m], assigned'[m] = assigned[m]
    PROVE  Agrees(m)'
BY DEF Agrees, InFlight, HasHandshake, HasElection

\* Nothing changed on the instances' side.
LEMMA RespondersAlone ==
    ASSUME Inv, UNCHANGED responderVars
    PROVE  RespondersTypeOK'
BY DEF Inv, TypeOK, RespondersTypeOK, responderVars

-----------------------------------------------------------------------------
(* Missions go out                                                         *)

\* A planning pass puts out only missions that wait, each to a round of its own.
LEMMA PlanKeeps ==
    ASSUME Inv, PlanAndElect
    PROVE  Inv'
<1>1. PICK cands \in [{m \in Subject : Eligible(m)} -> SUBSET (Paired \ EngagedInstances)] :
        LET of(m) == IF m \in DOMAIN cands THEN cands[m] ELSE {}
        IN  /\ OpenElections([m \in Subject |-> of(m)])
            /\ status' = [m \in Subject |-> IF of(m) # {} THEN "BIDDING" ELSE status[m]]
            /\ UNCHANGED <<responderVars, assigned, agentOf>>
  BY DEF PlanAndElect
<1> DEFINE rounds == [m \in Subject |-> IF m \in DOMAIN cands THEN cands[m] ELSE {}]
<1>2. /\ OpenElections(rounds)
      /\ status' = [m \in Subject |-> IF rounds[m] # {} THEN "BIDDING" ELSE status[m]]
      /\ UNCHANGED <<responderVars, assigned, agentOf>>
  BY <1>1
<1>3. /\ rounds \in [Subject -> SUBSET Instance]
      /\ \A m \in Subject : rounds[m] # {} => ~InFlight(m)
  BY DEF Paired, Eligible
<1> HIDE DEF rounds
<1>4. CoordTypeOK' /\ OneDict' /\ RespondersTypeOK'
  BY <1>2, <1>3, OpenElectionsKeeps, RespondersAlone DEF Inv, TypeOK
<1>5. TypeOK'
  BY <1>2, <1>4 DEF Inv, TypeOK, Statuses
<1>6. ASSUME NEW m \in Subject PROVE Agrees(m)'
  <2>1. Agrees(m)
    BY AgreesEach DEF Inv
  <2>2. handshakes' = handshakes /\ assigned' = assigned
    BY <1>2 DEF OpenElections
  <2>3. CASE rounds[m] = {}
    <3>1. elections'[m] = elections[m] /\ status'[m] = status[m]
      BY <1>2, <2>3 DEF OpenElections
    <3> QED
      BY <2>1, <2>2, <3>1, Untouched
  <2>4. CASE rounds[m] # {}
    <3>1. elections'[m].candidates = rounds[m] /\ status'[m] = "BIDDING"
      BY <1>2, <2>4 DEF OpenElections, Opened
    <3> QED
      BY <2>4, <3>1 DEF Agrees, InFlight, HasElection
  <2> QED
    BY <2>3, <2>4
<1> QED
  BY <1>4, <1>5, <1>6, AgreesEachNext DEF Inv

\* assign(), add() and the operator's verdicts.
LEMMA CatalogueKeeps ==
    ASSUME Inv, NEW n \in Subject,
           \/ Add(n) \/ CancelMission(n) \/ Remove(n)
           \/ \E i \in Instance : Assign(n, i)
    PROVE  Inv'
<1>1. CoordTypeOK /\ OneDict /\ \A m \in Subject : Agrees(m)
  BY AgreesEach DEF Inv, TypeOK
<1>2. CASE Add(n)
  <2>1. CoordTypeOK' /\ OneDict' /\ RespondersTypeOK'
    BY <1>1, <1>2, RespondersAlone
       DEF Add, coordVars, CoordTypeOK, OneDict, HasHandshake, HasElection
  <2>2. TypeOK'
    BY <1>2, <2>1 DEF Add, Inv, TypeOK, Statuses
  <2>3. ASSUME NEW m \in Subject PROVE Agrees(m)'
    BY <1>1, <1>2 DEF Inv, TypeOK, Add, Agrees, coordVars, InFlight, HasHandshake, HasElection
  <2> QED
    BY <2>1, <2>2, <2>3, AgreesEachNext DEF Inv
<1>3. ASSUME NEW i \in Instance, Assign(n, i) PROVE Inv'
  <2> DEFINE targets == [x \in Subject |-> {i}]
  <2>1. /\ OpenRequests({n}, targets) /\ ~InFlight(n)
        /\ targets \in [Subject -> SUBSET Instance]
    BY <1>3 DEF Assign, RequestDirected, MayRequest
  <2> HIDE DEF targets
  <2>2. CoordTypeOK' /\ OneDict' /\ RespondersTypeOK'
    BY <1>1, <1>3, <2>1, OpenRequestsKeeps, RespondersAlone DEF Assign
  <2>3. TypeOK'
    BY <1>3, <2>2 DEF Assign, Inv, TypeOK, Statuses
  <2>4. ASSUME NEW m \in Subject PROVE Agrees(m)'
    <3>1. CASE m = n
      <4>1. handshakes'[m].state = "REQUESTED"
        BY <2>1, <3>1 DEF OpenRequests, Requested
      <4>2. status'[m] = "BIDDING"
        BY <1>3, <3>1 DEF Assign, Inv, TypeOK
      <4> QED
        BY <4>1, <4>2 DEF Agrees, InFlight, HasHandshake
    <3>2. CASE m # n
      <4>1. /\ handshakes'[m] = handshakes[m] /\ elections'[m] = elections[m]
            /\ status'[m] = status[m] /\ assigned'[m] = assigned[m]
        BY <1>3, <2>1, <3>2 DEF Assign, OpenRequests, Inv, TypeOK
      <4> QED
        BY <1>1, <4>1, Untouched
    <3> QED
      BY <3>1, <3>2
  <2> QED
    BY <2>2, <2>3, <2>4, AgreesEachNext DEF Inv
<1>4. CASE CancelMission(n)
  <2>1. CoordTypeOK' /\ OneDict' /\ RespondersTypeOK'
    BY <1>1, <1>4, CancelAndForgetKeeps, RespondersAlone DEF CancelMission, Cancel
  <2>2. TypeOK'
    BY <1>4, <2>1 DEF CancelMission, Inv, TypeOK, Statuses
  <2>3. ASSUME NEW m \in Subject PROVE Agrees(m)'
    <3>1. CASE m = n
      <4>1. handshakes'[m].state \in {"NONE", "CANCELLED"} /\ elections'[m] = NoElection
        BY <1>1, <1>4, <3>1, CancelEnds DEF CancelMission, Cancel, CancelAndForget
      <4>2. status'[m] = "CANCELLED"
        BY <1>4, <3>1 DEF CancelMission, Inv, TypeOK
      <4> QED
        BY <4>1, <4>2, NobodyAsked DEF Agrees, HasElection
    <3>2. CASE m # n
      <4>1. /\ handshakes'[m] = handshakes[m] /\ elections'[m] = elections[m]
            /\ status'[m] = status[m] /\ assigned'[m] = assigned[m]
        BY <1>4, <3>2 DEF CancelMission, Cancel, CancelAndForget, Inv, TypeOK
      <4> QED
        BY <1>1, <4>1, Untouched
    <3> QED
      BY <3>1, <3>2
  <2> QED
    BY <2>1, <2>2, <2>3, AgreesEachNext DEF Inv
<1>5. CASE Remove(n)
  <2> DEFINE who == IF InFlight(n) THEN {n} ELSE {}
  <2>1. who \in SUBSET {n} /\ CancelAndForget(who, {n})
    BY <1>5 DEF Remove
  <2> HIDE DEF who
  <2>2. CoordTypeOK' /\ OneDict' /\ RespondersTypeOK'
    BY <1>1, <1>5, <2>1, CancelAndForgetKeeps, RespondersAlone DEF Remove
  <2>3. TypeOK'
    BY <1>5, <2>2 DEF Remove, Inv, TypeOK, Statuses
  <2>4. ASSUME NEW m \in Subject PROVE Agrees(m)'
    <3>1. CASE m = n
      BY <1>5, <3>1 DEF Remove, Inv, TypeOK, Agrees
    <3>2. CASE m # n
      <4>1. /\ handshakes'[m] = handshakes[m] /\ elections'[m] = elections[m]
            /\ status'[m] = status[m] /\ assigned'[m] = assigned[m]
        BY <1>5, <2>1, <3>2 DEF Remove, CancelAndForget, Inv, TypeOK
      <4> QED
        BY <1>1, <4>1, Untouched
    <3> QED
      BY <3>1, <3>2
  <2> QED
    BY <2>2, <2>3, <2>4, AgreesEachNext DEF Inv
<1> QED
  BY <1>2, <1>3, <1>4, <1>5

-----------------------------------------------------------------------------
(* The fleet changes, the world goes on                                    *)

\* A new pair changes nothing about missions; a lost one takes its agent's missions back.
LEMMA FleetKeeps ==
    ASSUME Inv,
           \/ \E i \in Instance : Unpair(i)
           \/ \E a \in Agent, i \in Instance : Pair(a, i)
    PROVE  Inv'
<1>1. CoordTypeOK /\ OneDict /\ \A m \in Subject : Agrees(m)
  BY AgreesEach DEF Inv, TypeOK
<1>2. ASSUME NEW a \in Agent, NEW i \in Instance, Pair(a, i) PROVE Inv'
  <2>1. CoordTypeOK' /\ OneDict' /\ RespondersTypeOK'
    BY <1>1, <1>2, RespondersAlone
       DEF Pair, coordVars, CoordTypeOK, OneDict, HasHandshake, HasElection
  <2>2. TypeOK'
    BY <1>2, <2>1 DEF Pair, missionVars, Inv, TypeOK
  <2>3. ASSUME NEW m \in Subject PROVE Agrees(m)'
    BY <1>1, <1>2, Untouched DEF Pair, missionVars, coordVars
  <2> QED
    BY <2>1, <2>2, <2>3, AgreesEachNext DEF Inv
<1>3. ASSUME NEW i \in Instance, Unpair(i) PROVE Inv'
  <2> DEFINE dropped == DroppedWith(agentOf[i])
             who == {m \in dropped : InFlight(m)}
  <2>1. /\ CancelAndForget(who, {})
        /\ status' = [m \in Subject |-> IF m \in dropped THEN "PENDING" ELSE status[m]]
        /\ assigned' = [m \in Subject |-> IF m \in dropped THEN None ELSE assigned[m]]
        /\ who \in SUBSET Subject
    BY <1>3 DEF Unpair, DropAgent, DroppedWith
  <2>2. CoordTypeOK' /\ OneDict' /\ RespondersTypeOK'
    <3> HIDE DEF who
    <3> QED
      BY <1>1, <1>3, <2>1, CancelAndForgetKeeps, RespondersAlone DEF Unpair
  <2>3. TypeOK'
    <3> HIDE DEF dropped
    <3> QED
      BY <1>3, <2>1, <2>2 DEF Unpair, Inv, TypeOK, Statuses
  <2>4. ASSUME NEW m \in Subject PROVE Agrees(m)'
    <3>1. CASE m \in dropped
      <4> HIDE DEF dropped
      <4> QED
        BY <2>1, <3>1 DEF Agrees
    <3>2. CASE m \notin dropped
      <4>1. /\ handshakes'[m] = handshakes[m] /\ elections'[m] = elections[m]
            /\ status'[m] = status[m] /\ assigned'[m] = assigned[m]
        BY <2>1, <3>2 DEF CancelAndForget
      <4> QED
        BY <1>1, <4>1, Untouched
    <3> QED
      BY <3>1, <3>2
  <2> QED
    BY <2>2, <2>3, <2>4, AgreesEachNext DEF Inv
<1> QED
  BY <1>2, <1>3

\* The instances, the network and the cooldowns know nothing of the catalogue.
LEMMA WorldKeeps ==
    ASSUME Inv, World
    PROVE  Inv'
<1>1. CoordTypeOK /\ OneDict /\ RespondersTypeOK /\ \A m \in Subject : Agrees(m)
  BY AgreesEach DEF Inv, TypeOK
<1>2. handshakes' = handshakes /\ elections' = elections /\ UNCHANGED <<status, assigned, agentOf>>
  BY DEF World, Environment, InstanceStep, Receive, Revoke, Complete, Announce, ReservationLapses,
         Restart, Lose, LoseUp, LoseDown, CooldownOver, coordVars, missionVars
<1>3. CoordTypeOK' /\ OneDict' /\ RespondersTypeOK'
  <2>1. CASE Environment
    BY <1>1, <2>1, EnvironmentKeeps
  <2>2. ASSUME NEW m \in Subject, NEW i \in Instance, CooldownOver(m, i), UNCHANGED responderVars
        PROVE  CoordTypeOK' /\ OneDict' /\ RespondersTypeOK'
    BY <1>1, <2>2, RespondersAlone DEF CooldownOver, CoordTypeOK, OneDict, HasHandshake, HasElection
  <2> QED
    BY <2>1, <2>2 DEF World
<1>4. TypeOK'
  BY <1>2, <1>3 DEF Inv, TypeOK
<1>5. \A m \in Subject : Agrees(m)'
  BY <1>1, <1>2, Untouched
<1> QED
  BY <1>3, <1>4, <1>5, AgreesEachNext DEF Inv

-----------------------------------------------------------------------------
(* Conversations conclude                                                  *)

\* What route() and tick() may hand to the hooks of mission m.
MayConclude(m, x) ==
    /\ x \in Effects /\ AtMostOne(x) /\ Tells(m, x)
    /\ Retire(x.hs).state = "NONE" /\ x.el.candidates = {} =>
          Retire(x.hs) = NoInitiator /\ x.el = NoElection
    /\ ~InFlight(m) => x.hs = NoInitiator /\ x.el = NoElection /\ x.act = "NOTHING"

\* They hand nothing else.
LEMMA ConcludedBy ==
    ASSUME Inv
    PROVE  /\ \A i \in Instance : Route(i) =>
                 \E m \in Subject, x \in Effects :
                     MayConclude(m, x) /\ (Apart => Narrows(m, x)) /\ Conclude(m, x)
           /\ \A m \in Subject : Tick(m) =>
                 \E x \in Effects : MayConclude(m, x) /\ (Apart => Narrows(m, x)) /\ Conclude(m, x)
<1>1. CoordTypeOK /\ OneDict /\ RespondersTypeOK
  BY DEF Inv, TypeOK
<1>2. ASSUME NEW i \in Instance, Route(i)
      PROVE  \E m \in Subject, x \in Effects :
                MayConclude(m, x) /\ (Apart => Narrows(m, x)) /\ Conclude(m, x)
  <2> DEFINE env == Head(uplink[i])
  <2>1. env \in Envelope
    BY <1>1, <1>2, TakeKeeps DEF Route
  <2>2. PICK x \in RouteEffects(env) : Conclude(env.id, x)
    BY <1>2 DEF Route
  <2> HIDE DEF env
  <2>3. env.id \in Subject /\ x \in Effects /\ AtMostOne(x) /\ Tells(env.id, x)
    BY <1>1, <2>1, RouteEffectsType, RouteTells DEF Envelope
  <2>4. ~InFlight(env.id) => x.hs = NoInitiator /\ x.el = NoElection /\ x.act = "NOTHING"
    BY DEF RouteEffects, InFlight
  <2>5. Apart => Narrows(env.id, x)
    BY <1>1, <2>1, <2>2, <2>3, RouteNarrows DEF Apart
  <2>6. MayConclude(env.id, x)
    BY <1>1, <2>1, <2>2, <2>3, <2>4, LeavesNothing DEF MayConclude
  <2> QED
    BY <2>2, <2>3, <2>5, <2>6
<1>3. ASSUME NEW m \in Subject, Tick(m)
      PROVE  \E x \in Effects : MayConclude(m, x) /\ (Apart => Narrows(m, x)) /\ Conclude(m, x)
  <2>1. PICK x \in TickEffects(m) : Conclude(m, x) /\ InFlight(m)
    BY <1>3 DEF Tick
  <2>2. x \in Effects /\ AtMostOne(x) /\ Tells(m, x)
    BY <1>1, TickEffectsType, TickTells
  <2>3. Apart => Narrows(m, x)
    BY <1>1, <2>1, TickNarrows DEF Apart
  <2>4. MayConclude(m, x)
    BY <1>1, <2>1, <2>2, LeavesNothing DEF MayConclude
  <2> QED
    BY <2>1, <2>2, <2>3, <2>4
<1> QED
  BY <1>2, <1>3

\* The mission the conversation is about agrees with what is left of it.
LEMMA ConcludedAgrees ==
    ASSUME Inv, NEW m \in Subject, NEW x, MayConclude(m, x),
           handshakes'[m] = Retire(x.hs), elections'[m] = x.el,
           status'[m] = Concluded(m, x).status, assigned'[m] = Concluded(m, x).agent
    PROVE  Agrees(m)' /\ (status[m] = "CANCELLED" => status'[m] = "CANCELLED")
<1>1. /\ Agrees(m) /\ status[m] \in Statuses
      /\ x \in Effects /\ AtMostOne(x) /\ Told(handshakes[m], x.act, x.by, x.hs)
  BY AgreesEach DEF Inv, TypeOK, MayConclude, Tells
<1> USE DEF Mark, Now, OnRetire, Statuses
<1>2. CASE ~Present(m)
  <2>1. status'[m] = status[m] /\ assigned'[m] = assigned[m]
    BY <1>2 DEF Concluded, Hook, Present
  <2> QED
    BY <1>1, <1>2, <2>1 DEF Agrees, Present
<1>3. CASE Present(m) /\ x.act = "LINK"
  <2>1. x.hs.state = "CONFIRMED"
    BY <1>1, <1>3 DEF Told
  <2>2. Hook(m, x) = OnLink(m, x.by) /\ Retire(x.hs) = x.hs /\ x.hs # NoInitiator
    BY <1>3, <2>1 DEF Hook, Retire, NoInitiator
  <2>3. status'[m] = "ACTIVE"
    BY <2>2 DEF Concluded, Retires, OnLink
  <2>4. status[m] # "CANCELLED"
    <3>1. InFlight(m) /\ ~Held(handshakes[m])
      BY <1>1, <1>3 DEF MayConclude, Told
    <3> QED
      BY <1>1, <3>1 DEF Agrees, InFlight, HasHandshake, Held
  <2> QED
    BY <2>1, <2>2, <2>3, <2>4 DEF Agrees
<1>4. CASE Present(m) /\ x.act = "COMPLETE"
  <2>1. status'[m] = "COMPLETE"
    BY <1>4 DEF Concluded, Hook, OnComplete
  <2>2. status[m] # "CANCELLED"
    BY <1>1, <1>4 DEF Agrees, Told
  <2> QED
    BY <2>1, <2>2 DEF Agrees
<1>5. CASE Present(m) /\ x.act = "RELEASE"
  <2>1. Retire(x.hs) = NoInitiator /\ x.el.candidates = {}
    BY <1>1, <1>5 DEF Told, Retire, AtMostOne
  <2>2. Hook(m, x) = OnRelease(m)
    BY <1>5 DEF Hook
  <2>3. /\ status'[m] = IF status[m] = "CANCELLED" THEN "CANCELLED" ELSE "PENDING"
        /\ assigned'[m] = None
    BY <2>2 DEF Concluded, OnRelease
  <2> QED
    BY <2>1, <2>3 DEF Agrees, NoInitiator, HasElection
<1>6. CASE Present(m) /\ x.act = "NOTHING"
  <2>1. Hook(m, x) = Now(m)
    BY <1>6 DEF Hook
  <2>2. CASE status[m] = "BIDDING" /\ Retires(m, x)
    BY <2>1, <2>2 DEF Concluded, Agrees
  <2>3. CASE status[m] = "BIDDING" /\ ~Retires(m, x)
    <3>1. InFlight(m)'
      <4>1. Retire(x.hs).state # "NONE" \/ x.el.candidates # {}
        BY <1>1, <2>3 DEF Agrees, Retires, MayConclude
      <4> QED
        BY <4>1 DEF InFlight, HasHandshake, HasElection
    <3>2. status'[m] = "BIDDING"
      BY <2>1, <2>3 DEF Concluded
    <3> QED
      BY <2>3, <3>1, <3>2 DEF Agrees
  <2>4. CASE status[m] # "BIDDING"
    <3>1. status'[m] = status[m] /\ assigned'[m] = assigned[m]
      BY <2>1, <2>4 DEF Concluded
    <3>2. Held(handshakes[m]) => handshakes'[m].state = handshakes[m].state /\ ~HasElection(m)'
      BY <1>1, <1>6 DEF Told, Held, Retire, AtMostOne, HasElection
    <3>3. ~InFlight(m) => handshakes'[m].state = "NONE" /\ ~HasElection(m)'
      BY NobodyAsked DEF MayConclude, Retire, NoInitiator, HasElection
    <3> QED
      BY <1>1, <2>4, <3>1, <3>2, <3>3 DEF Agrees, Held, InFlight, HasHandshake
  <2> QED
    BY <2>2, <2>3, <2>4
<1> QED
  BY <1>1, <1>2, <1>3, <1>4, <1>5, <1>6 DEF Effects

\* _apply, its hook and _retire.
LEMMA ConcludeKeeps ==
    ASSUME Inv, RespondersTypeOK', NEW m \in Subject, NEW x \in Effects,
           MayConclude(m, x), Conclude(m, x)
    PROVE  Inv'
<1>1. CoordTypeOK /\ OneDict /\ \A n \in Subject : Agrees(n)
  BY AgreesEach DEF Inv, TypeOK
<1>2. /\ handshakes' = [handshakes EXCEPT ![m] = Retire(x.hs)]
      /\ elections' = [elections EXCEPT ![m] = x.el]
      /\ status' = [status EXCEPT ![m] = Concluded(m, x).status]
      /\ assigned' = [assigned EXCEPT ![m] = Concluded(m, x).agent]
      /\ agentOf' = agentOf
  BY DEF Conclude, Perform, Interrupted, Effects
<1>3. CoordTypeOK' /\ OneDict'
  BY <1>1, PerformKeeps DEF Conclude, MayConclude
<1>4. TypeOK'
  <2>1. /\ status[m] \in Statuses /\ assigned[m] \in Agent \cup {None}
        /\ x.act = "LINK" => agentOf[x.by] \in Agent \cup {None}
    BY DEF Inv, TypeOK, MayConclude, Tells, Told
  <2>2. Concluded(m, x).status \in Statuses /\ Concluded(m, x).agent \in Agent \cup {None}
    BY <2>1 DEF Concluded, Hook, Now, Mark, OnLink, OnComplete, OnRelease, OnRetire, Statuses, Effects
  <2> QED
    BY <1>2, <1>3, <2>2 DEF Inv, TypeOK
<1>5. ASSUME NEW n \in Subject PROVE Agrees(n)'
  <2>1. CASE n = m
    <3>1. /\ handshakes'[m] = Retire(x.hs) /\ elections'[m] = x.el
          /\ status'[m] = Concluded(m, x).status /\ assigned'[m] = Concluded(m, x).agent
      BY <1>1, <1>2 DEF CoordTypeOK, Inv, TypeOK
    <3> QED
      BY <2>1, <3>1, ConcludedAgrees
  <2>2. CASE n # m
    <3>1. /\ handshakes'[n] = handshakes[n] /\ elections'[n] = elections[n]
          /\ status'[n] = status[n] /\ assigned'[n] = assigned[n]
      BY <1>1, <1>2, <2>2 DEF CoordTypeOK, Inv, TypeOK
    <3> QED
      BY <1>1, <3>1, Untouched
  <2> QED
    BY <2>1, <2>2
<1> QED
  BY <1>3, <1>4, <1>5, AgreesEachNext DEF Inv

-----------------------------------------------------------------------------
(* The theorems                                                            *)

\* The constructor establishes the invariant.
LEMMA InitEstablishes == Init => Inv
<1> SUFFICES ASSUME Init PROVE Inv
  OBVIOUS
<1>1. CoordTypeOK /\ OneDict
  BY NothingThereType, NobodyAsked DEF Init, CoordInit, CoordTypeOK, OneDict, HasElection
<1>2. RespondersTypeOK
  BY DEF Init, RespondersInit, RespondersTypeOK, Idle, Holding
<1>3. TypeOK
  BY <1>1, <1>2 DEF Init, TypeOK, Statuses
<1>4. StatusAgrees
  BY AgreesEach DEF Init, Agrees
<1> QED
  BY <1>1, <1>3, <1>4 DEF Inv

\* Every step keeps it.
LEMMA NextKeeps == Inv /\ [Next]_vars => Inv'
<1> SUFFICES ASSUME Inv, [Next]_vars PROVE Inv'
  OBVIOUS
<1>1. ASSUME NEW i \in Instance, Route(i) PROVE Inv'
  <2>1. RespondersTypeOK'
    BY <1>1, TakeKeeps DEF Route, Inv, TypeOK
  <2> QED
    BY <1>1, <2>1, ConcludedBy, ConcludeKeeps
<1>2. ASSUME NEW m \in Subject, Tick(m) PROVE Inv'
  <2>1. RespondersTypeOK'
    BY <1>2, RespondersAlone DEF Tick
  <2> QED
    BY <1>2, <2>1, ConcludedBy, ConcludeKeeps
<1>3. CASE UNCHANGED vars
  <2>1. CoordTypeOK' /\ OneDict' /\ RespondersTypeOK'
    BY <1>3, RespondersAlone DEF vars, coordVars, Inv, TypeOK, CoordTypeOK, OneDict,
                                 HasHandshake, HasElection
  <2>2. TypeOK'
    BY <1>3, <2>1 DEF vars, missionVars, Inv, TypeOK
  <2>3. \A m \in Subject : Agrees(m)'
    BY <1>3, AgreesEach, Untouched DEF Inv, vars, coordVars, missionVars
  <2> QED
    BY <2>1, <2>2, <2>3, AgreesEachNext DEF Inv
<1> QED
  BY <1>1, <1>2, <1>3, PlanKeeps, CatalogueKeeps, FleetKeeps, WorldKeeps DEF Next

\* Every reachable state of the mission manager and its catalogue is well typed.
THEOREM TypeCorrect == Spec => []TypeOK
<1>1. Inv => TypeOK
  BY DEF Inv
<1> QED
  BY <1>1, InitEstablishes, NextKeeps, PTL DEF Spec

\* on_retire: no mission sits in BIDDING without an attempt, whatever ended it.
THEOREM BiddingIsUnderWayHolds == Spec => []BiddingIsUnderWay
<1>1. Inv => BiddingIsUnderWay
  BY DEF Inv, StatusAgrees
<1> QED
  BY <1>1, InitEstablishes, NextKeeps, PTL DEF Spec

\* A running mission has a live conversation with the instance it runs on.
THEOREM ActiveIsConfirmedHolds == Spec => []ActiveIsConfirmed
<1>1. Inv => ActiveIsConfirmed
  BY DEF Inv, StatusAgrees
<1> QED
  BY <1>1, InitEstablishes, NextKeeps, PTL DEF Spec

\* A mission waiting to be planned belongs to nobody.
THEOREM PendingIsNobodysHolds == Spec => []PendingIsNobodys
<1>1. Inv => PendingIsNobodys
  BY DEF Inv, StatusAgrees
<1> QED
  BY <1>1, InitEstablishes, NextKeeps, PTL DEF Spec

\* No late answer starts a mission the operator has cancelled: only a new assignment
\* or the loss of its agent takes it out of CANCELLED.
THEOREM CancelHolds == Spec => CancelIsFinal
<1> DEFINE Final(m) == \/ status'[m] \in {"CANCELLED", "removed"}
                       \/ \E i \in Instance : Assign(m, i) \/ (Unpair(i) /\ assigned[m] = agentOf[i])
           Kept == \A m \in Subject : status[m] = "CANCELLED" => Final(m)
<1>1. Inv /\ [Next]_vars => [Kept]_vars
  <2> SUFFICES ASSUME Inv, Next, NEW m \in Subject, status[m] = "CANCELLED" PROVE Final(m)
    OBVIOUS
  <2>1. CASE status'[m] = status[m]
    BY <2>1
  <2>2. ASSUME NEW n \in Subject, NEW x \in Effects, MayConclude(n, x), Conclude(n, x)
        PROVE  status'[m] = "CANCELLED"
    <3>1. /\ handshakes'[n] = Retire(x.hs) /\ elections'[n] = x.el
          /\ status'[n] = Concluded(n, x).status /\ assigned'[n] = Concluded(n, x).agent
          /\ n # m => status'[m] = status[m]
      BY <2>2 DEF Conclude, Perform, Interrupted, Effects, Inv, TypeOK, CoordTypeOK
    <3>2. status[n] = "CANCELLED" => status'[n] = "CANCELLED"
      BY <2>2, <3>1, ConcludedAgrees
    <3> QED
      BY <3>1, <3>2
  <2>3. CASE \/ \E i \in Instance : Route(i)
             \/ \E n \in Subject : Tick(n)
    BY <2>2, <2>3, ConcludedBy
  <2>4. CASE PlanAndElect
    <3>1. \A n \in Subject : Eligible(n) \/ status'[n] = status[n]
      BY <2>4 DEF PlanAndElect
    <3> QED
      BY <2>1, <3>1 DEF Eligible
  <2>5. ASSUME NEW n \in Subject,
               \/ Add(n) \/ CancelMission(n) \/ Remove(n)
               \/ \E i \in Instance : Assign(n, i)
        PROVE  Final(m)
    BY <2>5 DEF Add, CancelMission, Remove, Assign, Inv, TypeOK
  <2>6. ASSUME NEW i \in Instance, Unpair(i) PROVE Final(m)
    BY <2>6 DEF Unpair, DropAgent, DroppedWith
  <2>7. CASE World \/ \E a \in Agent, i \in Instance : Pair(a, i)
    BY <2>1, <2>7 DEF World, Pair, missionVars
  <2> QED
    BY <2>3, <2>4, <2>5, <2>6, <2>7 DEF Next
<1> QED
  BY <1>1, InitEstablishes, NextKeeps, PTL DEF Spec, CancelIsFinal

-----------------------------------------------------------------------------
(* Who drives what                                                         *)

\* The fleet pairs an agent with one instance.
OnePair == \A i, j \in Instance : agentOf[i] # None /\ agentOf[i] = agentOf[j] => i = j

\* A mission that runs on an agent runs on the instance that agent is paired with.
Driven == \A m \in Subject : status[m] = "ACTIVE" /\ assigned[m] # None =>
    agentOf[handshakes[m].receiver] = assigned[m]

DriveInv == Apart /\ OnePair /\ Driven

\* A running mission's instance has a name.
LEMMA RunsSomewhere ==
    ASSUME Inv, NEW m \in Subject, status[m] = "ACTIVE"
    PROVE  handshakes[m].receiver \in Instance /\ handshakes[m].receiver \in Engaged(m)
<1>1. handshakes[m] \in Initiator /\ handshakes[m].state = "CONFIRMED"
  BY DEF Inv, TypeOK, CoordTypeOK, StatusAgrees, ActiveIsConfirmed
<1> QED
  BY <1>1 DEF Initiator, InitiatorRecord, Engaged, EngagedBy

\* A step that starts no mission and leaves the fleet and the running missions alone.
LEMMA DriversStay ==
    ASSUME DriveInv, agentOf' = agentOf,
           \A m \in Subject : status'[m] = "ACTIVE" =>
               /\ status[m] = "ACTIVE" /\ assigned'[m] = assigned[m]
               /\ handshakes'[m].receiver = handshakes[m].receiver
    PROVE  OnePair' /\ Driven'
BY DEF DriveInv, OnePair, Driven

\* Missions go out to instances nobody has engaged.
LEMMA GoingOutDrives ==
    ASSUME Inv, DriveInv, PlanAndElect \/ \E m \in Subject, i \in Instance : Assign(m, i)
    PROVE  DriveInv'
<1>1. CoordTypeOK /\ status \in [Subject -> Statuses]
  BY DEF Inv, TypeOK
<1>2. CASE PlanAndElect
  <2>1. PICK cands \in [{m \in Subject : Eligible(m)} -> SUBSET (Paired \ EngagedInstances)] :
          LET of(m) == IF m \in DOMAIN cands THEN cands[m] ELSE {}
          IN  /\ \A m, n \in DOMAIN cands : m # n => cands[m] \cap cands[n] = {}
              /\ OpenElections([m \in Subject |-> of(m)])
              /\ status' = [m \in Subject |-> IF of(m) # {} THEN "BIDDING" ELSE status[m]]
              /\ UNCHANGED <<responderVars, assigned, agentOf>>
    BY <1>2 DEF PlanAndElect
  <2> DEFINE rounds == [m \in Subject |-> IF m \in DOMAIN cands THEN cands[m] ELSE {}]
  <2>2. /\ OpenElections(rounds) /\ rounds \in [Subject -> SUBSET Instance]
        /\ status' = [m \in Subject |-> IF rounds[m] # {} THEN "BIDDING" ELSE status[m]]
        /\ assigned' = assigned /\ agentOf' = agentOf
    BY <2>1 DEF Paired
  <2>3. \A m \in Subject : rounds[m] \cap EngagedInstances = {}
    OBVIOUS
  <2>4. \A m, n \in Subject : m # n => rounds[m] \cap rounds[n] = {}
    BY <2>1
  <2> HIDE DEF rounds
  <2>5. Apart'
    <3>1. \A m \in Subject : /\ Engaged(m)' \subseteq Engaged(m) \cup rounds[m]
                             /\ handshakes'[m] = handshakes[m]
                             /\ Counted(elections[m]) => Counted(elections'[m])
      BY <1>1, <2>2, OpenElectionsEngages
    <3> QED
      BY <2>2, <2>3, <2>4, <3>1, ApartAfter DEF DriveInv, Apart
  <2>6. OnePair' /\ Driven'
    BY <2>2, DriversStay DEF OpenElections
  <2> QED
    BY <2>5, <2>6 DEF DriveInv
<1>3. ASSUME NEW n \in Subject, NEW i \in Instance, Assign(n, i) PROVE DriveInv'
  <2> DEFINE targets == [x \in Subject |-> {i}]
             new == [x \in Subject |-> IF x = n THEN {i} ELSE {}]
  <2>1. /\ OpenRequests({n}, targets) /\ i \notin EngagedInstances
        /\ targets \in [Subject -> SUBSET Instance]
        /\ \A x \in Subject : targets[x] = {i}
        /\ new \in [Subject -> SUBSET Instance]
        /\ \A x \in Subject : new[x] = IF x = n THEN {i} ELSE {}
    BY <1>3 DEF Assign, RequestDirected, MayRequest
  <2> HIDE DEF targets, new
  <2>2. Apart'
    <3>1. ASSUME NEW m \in Subject
          PROVE  /\ Specific(handshakes'[m]) /\ Counted(elections'[m])
                 /\ Engaged(m)' \subseteq Engaged(m) \cup new[m]
      <4>1. /\ elections'[m] = elections[m]
            /\ m \in {n} => /\ Engaged(m)' \subseteq Engaged(m) \cup targets[m]
                            /\ targets[m] # {} => Specific(handshakes'[m])
            /\ m \notin {n} => handshakes'[m] = handshakes[m] /\ Engaged(m)' = Engaged(m)
        BY <1>1, <2>1, OpenRequestsEngages
      <4> QED
        BY <2>1, <4>1 DEF DriveInv, Apart
    <3>2. /\ \A m \in Subject : new[m] \cap EngagedInstances = {}
          /\ \A m, l \in Subject : m # l => new[m] \cap new[l] = {}
      BY <2>1
    <3> QED
      BY <2>1, <3>1, <3>2, ApartAfter DEF DriveInv
  <2>3. OnePair' /\ Driven'
    <3>1. \A m \in Subject : m # n => handshakes'[m] = handshakes[m]
      BY <2>1 DEF OpenRequests
    <3>2. \A m \in Subject : status'[m] = "ACTIVE" => m # n /\ status[m] = "ACTIVE"
      BY <1>1, <1>3 DEF Assign
    <3> QED
      BY <1>3, <3>1, <3>2, DriversStay DEF Assign
  <2> QED
    BY <2>2, <2>3 DEF DriveInv
<1> QED
  BY <1>2, <1>3

\* Adding, cancelling and removing start nothing.
LEMMA CatalogueDrives ==
    ASSUME Inv, DriveInv, NEW n \in Subject, Add(n) \/ CancelMission(n) \/ Remove(n)
    PROVE  DriveInv'
<1>1. CoordTypeOK /\ status \in [Subject -> Statuses] /\ assigned \in [Subject -> Agent \cup {None}]
  BY DEF Inv, TypeOK
<1>2. CASE Add(n)
  <2>1. handshakes' = handshakes /\ elections' = elections
    BY <1>2 DEF Add, coordVars
  <2>2. OnePair' /\ Driven'
    BY <1>1, <1>2, <2>1, DriversStay DEF Add
  <2> QED
    BY <2>1, <2>2, ApartAlone DEF DriveInv
<1>3. ASSUME NEW who \in SUBSET {n}, NEW gone, CancelAndForget(who, gone), agentOf' = agentOf,
             status'[n] # "ACTIVE",
             \A m \in Subject \ {n} : status'[m] = status[m] /\ assigned'[m] = assigned[m]
      PROVE  DriveInv'
  <2>1. who \in SUBSET Subject
    OBVIOUS
  <2>2. /\ Apart'
        /\ \A m \in Subject : m \notin who => handshakes'[m] = handshakes[m]
    BY <1>1, <1>3, <2>1, CancelAndForgetApart DEF DriveInv
  <2>3. OnePair' /\ Driven'
    BY <1>3, <2>2, DriversStay
  <2> QED
    BY <2>2, <2>3 DEF DriveInv
<1>4. CASE CancelMission(n)
  BY <1>1, <1>3, <1>4, {n} \in SUBSET {n} DEF CancelMission, Cancel
<1>5. CASE Remove(n)
  <2> DEFINE who == IF InFlight(n) THEN {n} ELSE {}
  <2>1. who \in SUBSET {n} /\ CancelAndForget(who, {n})
    BY <1>5 DEF Remove
  <2> HIDE DEF who
  <2> QED
    BY <1>1, <1>3, <1>5, <2>1 DEF Remove
<1> QED
  BY <1>2, <1>4, <1>5

\* A new pair is of two who had nobody; a pair that ends takes its missions along.
LEMMA FleetDrives ==
    ASSUME Inv, DriveInv,
           \/ \E i \in Instance : Unpair(i)
           \/ \E a \in Agent, i \in Instance : Pair(a, i)
    PROVE  DriveInv'
<1>1. /\ CoordTypeOK /\ agentOf \in [Instance -> Agent \cup {None}]
      /\ status \in [Subject -> Statuses]
  BY DEF Inv, TypeOK
<1>2. ASSUME NEW a \in Agent, NEW i \in Instance, Pair(a, i) PROVE DriveInv'
  <2>1. /\ handshakes' = handshakes /\ elections' = elections
        /\ status' = status /\ assigned' = assigned
        /\ agentOf' = [agentOf EXCEPT ![i] = a] /\ agentOf[i] = None
        /\ \A j \in Instance : agentOf[j] # a
    BY <1>2 DEF Pair, coordVars, missionVars
  <2>2. OnePair'
    BY <1>1, <2>1 DEF DriveInv, OnePair
  <2>3. Driven'
    BY <1>1, <2>1, RunsSomewhere DEF DriveInv, Driven
  <2> QED
    BY <2>1, <2>2, <2>3, ApartAlone DEF DriveInv
<1>3. ASSUME NEW i \in Instance, Unpair(i) PROVE DriveInv'
  <2> DEFINE dropped == DroppedWith(agentOf[i])
             who == {m \in dropped : InFlight(m)}
  <2>1. /\ CancelAndForget(who, {}) /\ who \in SUBSET Subject
        /\ agentOf' = [agentOf EXCEPT ![i] = None]
        /\ \A m \in Subject : status'[m] = "ACTIVE" => m \notin dropped
        /\ \A m \in Subject : m \notin dropped => status'[m] = status[m] /\ assigned'[m] = assigned[m]
        /\ \A m \in Subject : m \notin dropped => m \notin who
    BY <1>3 DEF Unpair, DropAgent, DroppedWith
  <2>2. \A m \in Subject : status[m] = "ACTIVE" /\ m \notin dropped => assigned[m] # agentOf[i]
    BY DEF DroppedWith, Present
  <2> HIDE DEF dropped, who
  <2>3. Apart' /\ \A m \in Subject : m \notin who => handshakes'[m] = handshakes[m]
    BY <1>1, <2>1, CancelAndForgetApart DEF DriveInv
  <2>4. OnePair'
    BY <1>1, <2>1 DEF DriveInv, OnePair
  <2>5. Driven'
    <3> SUFFICES ASSUME NEW m \in Subject, status'[m] = "ACTIVE", assigned'[m] # None
                 PROVE  agentOf'[handshakes'[m].receiver] = assigned'[m]
      BY DEF Driven
    <3>1. /\ status[m] = "ACTIVE" /\ assigned'[m] = assigned[m] /\ assigned[m] # agentOf[i]
          /\ handshakes'[m] = handshakes[m]
      BY <2>1, <2>2, <2>3
    <3>2. agentOf[handshakes[m].receiver] = assigned[m] /\ handshakes[m].receiver \in Instance
      BY <3>1, RunsSomewhere DEF DriveInv, Driven
    <3> QED
      BY <1>1, <2>1, <3>1, <3>2
  <2> QED
    BY <2>3, <2>4, <2>5 DEF DriveInv
<1> QED
  BY <1>2, <1>3

\* on_link names the agent of the instance that confirmed, and nothing else starts a mission.
LEMMA ConcludeDrives ==
    ASSUME Inv, DriveInv, NEW m \in Subject, NEW x \in Effects,
           MayConclude(m, x), Narrows(m, x), Conclude(m, x)
    PROVE  DriveInv'
<1>1. CoordTypeOK /\ status \in [Subject -> Statuses] /\ assigned \in [Subject -> Agent \cup {None}]
  BY DEF Inv, TypeOK
<1>2. /\ handshakes' = [handshakes EXCEPT ![m] = Retire(x.hs)]
      /\ elections' = [elections EXCEPT ![m] = x.el]
      /\ status' = [status EXCEPT ![m] = Concluded(m, x).status]
      /\ assigned' = [assigned EXCEPT ![m] = Concluded(m, x).agent]
      /\ agentOf' = agentOf
  BY DEF Conclude, Perform, Interrupted, Effects
<1>3. Apart'
  BY <1>1, <1>2, EffectApart DEF DriveInv
<1>4. ASSUME NEW n \in Subject, n # m
      PROVE  handshakes'[n] = handshakes[n] /\ status'[n] = status[n] /\ assigned'[n] = assigned[n]
  BY <1>1, <1>2, <1>4 DEF CoordTypeOK
<1>5. /\ handshakes'[m] = Retire(x.hs)
      /\ status'[m] = Concluded(m, x).status /\ assigned'[m] = Concluded(m, x).agent
  BY <1>1, <1>2 DEF CoordTypeOK
<1>6. status'[m] = "ACTIVE" /\ assigned'[m] # None => agentOf[handshakes'[m].receiver] = assigned'[m]
  <2> HAVE status'[m] = "ACTIVE" /\ assigned'[m] # None
  <2> USE DEF Mark, Now, OnRetire
  <2>1. Told(handshakes[m], x.act, x.by, x.hs)
    BY DEF MayConclude, Tells
  <2>2. CASE Present(m) /\ x.act = "LINK"
    <3>1. x.hs.state = "CONFIRMED" /\ x.hs.receiver = x.by
      BY <2>1, <2>2 DEF Told
    <3>2. Retire(x.hs) = x.hs /\ Concluded(m, x) = Mark("ACTIVE", agentOf[x.by])
      BY <2>2, <3>1 DEF Retire, Concluded, Hook, OnLink
    <3> QED
      BY <1>5, <3>1, <3>2
  <2>3. CASE ~(Present(m) /\ x.act = "LINK")
    <3>1. /\ status[m] = "ACTIVE" /\ assigned'[m] = assigned[m] /\ x.act = "NOTHING"
      BY <1>5, <2>3 DEF Concluded, Hook, OnComplete, OnRelease, Present, Effects
    <3>2. handshakes[m].state = "CONFIRMED"
      BY <3>1 DEF Inv, StatusAgrees, ActiveIsConfirmed
    <3>3. handshakes'[m].receiver = handshakes[m].receiver
      BY <1>5, <2>1, <3>1, <3>2 DEF Told, Held, Retire
    <3> QED
      BY <3>1, <3>3 DEF DriveInv, Driven
  <2> QED
    BY <2>2, <2>3
<1>7. Driven'
  BY <1>2, <1>4, <1>6 DEF DriveInv, Driven
<1> QED
  BY <1>2, <1>3, <1>7 DEF DriveInv, OnePair

\* Every step keeps agents, instances and missions one to one.
LEMMA NextDrives == Inv /\ DriveInv /\ [Next]_vars => DriveInv'
<1> SUFFICES ASSUME Inv, DriveInv, [Next]_vars PROVE DriveInv'
  OBVIOUS
<1>1. CASE \/ \E i \in Instance : Route(i)
           \/ \E m \in Subject : Tick(m)
  <2>1. PICK m \in Subject, x \in Effects : MayConclude(m, x) /\ Narrows(m, x) /\ Conclude(m, x)
    BY <1>1, ConcludedBy DEF DriveInv
  <2> QED
    BY <2>1, ConcludeDrives
<1>2. CASE World \/ UNCHANGED vars
  <2>1. handshakes' = handshakes /\ elections' = elections /\ UNCHANGED <<status, assigned, agentOf>>
    BY <1>2 DEF World, Environment, InstanceStep, Receive, Revoke, Complete, Announce,
                ReservationLapses, Restart, Lose, LoseUp, LoseDown, CooldownOver, coordVars,
                missionVars, vars
  <2>2. OnePair' /\ Driven'
    BY <2>1, DriversStay
  <2> QED
    BY <2>1, <2>2, ApartAlone DEF DriveInv
<1> QED
  BY <1>1, <1>2, GoingOutDrives, CatalogueDrives, FleetDrives DEF Next

\* An agent drives one mission at a time, whatever is lost: its instance is engaged by one
\* mission, on the aggregate's own books, and the fleet pairs it with one instance.
THEOREM OneMissionHolds == Spec => []OneMissionPerAgent
<1>1. Init => DriveInv
  BY InitApart DEF Init, DriveInv, OnePair, Driven
<1>2. Inv /\ DriveInv => OneMissionPerAgent
  <2> SUFFICES ASSUME Inv, DriveInv, NEW m \in Subject, NEW n \in Subject,
                      status[m] = "ACTIVE", status[n] = "ACTIVE",
                      assigned[m] # None, assigned[m] = assigned[n]
               PROVE  m = n
    BY DEF OneMissionPerAgent
  <2>1. handshakes[m].receiver = handshakes[n].receiver
    BY RunsSomewhere DEF DriveInv, Driven, OnePair
  <2> QED
    BY <2>1, RunsSomewhere DEF DriveInv, Apart
<1> QED
  BY <1>1, <1>2, InitEstablishes, NextKeeps, NextDrives, PTL DEF Spec
===============================================================================
