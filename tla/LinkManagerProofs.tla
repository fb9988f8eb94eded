-------------------------- MODULE LinkManagerProofs --------------------------
(***************************************************************************)
(* Theorems about the link manager: any agents, instances and modes, with  *)
(* messages lost, instances restarted and nodes going quiet at any time.   *)
(* The last part is about the link manager behind the operator's console,  *)
(* with any number of HTTP threads.                                        *)
(***************************************************************************)
EXTENDS Console, CoordinatorLemmas

USE DEF Effect, FromInitiator

\* What the steps keep.  LinkedIsEngaged is what makes it inductive: the RELEASE of
\* an agent's conversation names the partner the fleet has for it.
Inv == TypeOK /\ OneDict /\ OneToOne /\ LinkedIsEngaged /\ LinkedNotOffered

\* No conversation about a held subject is dropped or changes hands.
EngagementsKept == \A a \in Subject :
    Held(handshakes[a]) => /\ Held(handshakes'[a])
                           /\ handshakes'[a].receiver = handshakes[a].receiver

-----------------------------------------------------------------------------
(* The pools                                                               *)

\* Joining, leaving and hearing from somebody keep the order and the ages typed.
LEMMA PoolTypes ==
    ASSUME DomainTypeOK, NEW n \in Node, NEW ns, NEW r, NEW order \in SUBSET (Node \X Node)
    PROVE  /\ Join(n, order) \in SUBSET (Node \X Node)
           /\ Leave(ns, order) \in SUBSET (Node \X Node)
           /\ Fresh(r, ns) \in SUBSET ({"pool", "fleet"} \X Node)
<1>1. {<<m, n>> : m \in {x \in Node : InPool(x) /\ (x \in Subject <=> n \in Subject)}}
         \in SUBSET (Node \X Node)
  OBVIOUS
<1> QED
  BY <1>1 DEF DomainTypeOK, Join, Leave, Fresh

-----------------------------------------------------------------------------
(* One pass of link()                                                      *)

\* Matching opens conversations about waiting agents only: everybody in flight is
\* left alone, whatever the mode.
LEMMA LinkPassKeeps ==
    ASSUME CoordTypeOK, OneDict, NEW m, NEW w, NEW pool \in SUBSET Instance, NEW order,
           NEW picks \in [Subject -> Instance \cup {None}],
           LinkPass(m, w, pool, order, picks)
    PROVE  /\ CoordTypeOK' /\ OneDict' /\ EngagementsKept
           /\ choice' \in [Subject -> Instance \cup {None}]
<1>1. Ready(w) \in SUBSET Subject /\ \A a \in Ready(w) : ~InFlight(a)
  BY DEF Ready
<1>2. FreeInstances(pool) \in SUBSET Instance
  BY DEF FreeInstances
<1>3. ASSUME NEW who \in SUBSET Subject, NEW targets \in [Subject -> SUBSET Instance],
             \A a \in who : ~InFlight(a), OpenRequests(who, targets)
      PROVE  CoordTypeOK' /\ OneDict' /\ EngagementsKept
  <2>1. \A a \in Subject : Held(handshakes[a]) => handshakes'[a] = handshakes[a]
    BY <1>3 DEF OpenRequests, InFlight, HasHandshake, Held
  <2> QED
    BY <1>3, <2>1, OpenRequestsKeeps DEF EngagementsKept
<1>4. CASE m = "POOLED"
  <2>1. PooledPass(w, picks)
    BY <1>4 DEF LinkPass
  <2> DEFINE all == [a \in Subject |-> {}]
  <2>2. OpenRequests(Ready(w), all) /\ choice' = picks /\ all \in [Subject -> SUBSET Instance]
    BY <2>1 DEF PooledPass
  <2> HIDE DEF all
  <2> QED
    BY <1>1, <1>3, <2>2
<1>5. CASE m = "AUCTION"
  <2>1. AuctionPass(w, pool, order, picks)
    BY <1>5 DEF LinkPass
  <2>2. CASE UNCHANGED coordVars
    BY <2>1, <2>2 DEF AuctionPass, coordVars, CoordTypeOK, OneDict, EngagementsKept,
                      HasHandshake, HasElection
  <2>3. ASSUME NEW a \in FirstOf(Ready(w), order), Elect(a, FreeInstances(pool))
        PROVE  CoordTypeOK' /\ OneDict' /\ EngagementsKept
    <3> DEFINE cands == [x \in Subject |-> IF x = a THEN FreeInstances(pool) \ EngagedInstances
                                           ELSE {}]
    <3>1. OpenElections(cands) /\ ~InFlight(a) /\ cands \in [Subject -> SUBSET Instance]
      BY <1>2, <2>3 DEF Elect
    <3>2. \A x \in Subject : cands[x] # {} => ~InFlight(x)
      BY <3>1
    <3> HIDE DEF cands
    <3>3. CoordTypeOK' /\ OneDict' /\ handshakes' = handshakes
      BY <3>1, <3>2, OpenElectionsKeeps DEF OpenElections
    <3> QED
      BY <3>3 DEF EngagementsKept
  <2> QED
    BY <2>1, <2>2, <2>3 DEF AuctionPass
<1>6. CASE m \notin {"POOLED", "AUCTION"}
  <2>1. DirectedPass(m, w, pool, order, picks)
    BY <1>6 DEF LinkPass
  <2>2. PICK ask \in [Subject -> SUBSET Instance] :
           /\ \A a \in Subject : a \notin Ready(w) => ask[a] = {}
           /\ OpenRequests({a \in Subject : ask[a] # {}}, ask)
           /\ \A a \in Subject : choice'[a] \in {None, picks[a]}
           /\ choice' = [a \in Subject |-> choice'[a]]
    BY <2>1 DEF DirectedPass
  <2> DEFINE who == {a \in Subject : ask[a] # {}}
  <2>3. who \in SUBSET Subject /\ \A a \in who : ~InFlight(a)
    BY <1>1, <2>2
  <2>4. OpenRequests(who, ask)
    BY <2>2
  <2> HIDE DEF who
  <2>5. CoordTypeOK' /\ OneDict' /\ EngagementsKept
    BY <1>3, <2>3, <2>4
  <2>6. choice' \in [Subject -> Instance \cup {None}]
    BY <2>2
  <2> QED
    BY <2>5, <2>6
<1> QED
  BY <1>4, <1>5, <1>6

-----------------------------------------------------------------------------
(* Steps that leave the fleet alone                                        *)

\* Such a step keeps the invariant as long as it offers no linked instance and
\* drops nobody's conversation.
LEMMA FleetAlone ==
    ASSUME Inv, UNCHANGED fleetVars, EngagementsKept,
           \A i \in Instance : i \in pooled' => i \in pooled \/ agentOf[i] = None
    PROVE  OneToOne' /\ LinkedIsEngaged' /\ LinkedNotOffered'
BY DEF Inv, fleetVars, OneToOne, LinkedIsEngaged, LinkedNotOffered, Linked, EngagementsKept, Held

\* Nothing changed on the coordinator's side.
LEMMA CoordAlone ==
    ASSUME Inv, UNCHANGED <<handshakes, elections, epochs, cooling, net>>
    PROVE  CoordTypeOK' /\ OneDict' /\ EngagementsKept
BY DEF Inv, TypeOK, CoordTypeOK, OneDict, EngagementsKept, HasHandshake, HasElection

\* Nothing changed on the instances' side.
LEMMA RespondersAlone ==
    ASSUME Inv, UNCHANGED responderVars
    PROVE  RespondersTypeOK'
BY DEF Inv, TypeOK, RespondersTypeOK, responderVars

\* A known agent joins its pool and is matched.
LEMMA WaitKeeps ==
    ASSUME Inv, NEW a \in Subject, Wait(a), UNCHANGED pooled
    PROVE  /\ CoordTypeOK' /\ OneDict' /\ EngagementsKept
           /\ waiting' \in [Subject -> {"absent", "incomplete", "ready"}]
           /\ joined' \in SUBSET (Node \X Node)
           /\ stale' \in SUBSET ({"pool", "fleet"} \X Node)
           /\ choice' \in [Subject -> Instance \cup {None}]
<1>1. DomainTypeOK /\ CoordTypeOK /\ OneDict
  BY DEF Inv, TypeOK
<1>2. a \in Node /\ joined \in SUBSET (Node \X Node) /\ pooled \in SUBSET Instance
  BY <1>1 DEF Node, DomainTypeOK
<1>3. LinkPass(mode, waiting', pooled, joined', choice)
  BY DEF Wait
<1>4. CoordTypeOK' /\ OneDict' /\ EngagementsKept /\ choice' \in [Subject -> Instance \cup {None}]
  BY <1>1, <1>2, <1>3, LinkPassKeeps DEF DomainTypeOK
<1>5. /\ joined' \in SUBSET (Node \X Node)
      /\ stale' \in SUBSET ({"pool", "fleet"} \X Node)
  BY <1>1, <1>2, PoolTypes DEF Wait
<1>6. waiting' \in [Subject -> {"absent", "incomplete", "ready"}]
  BY <1>1 DEF Wait, DomainTypeOK
<1> QED
  BY <1>4, <1>5, <1>6

\* Discovery of agents and instances.
LEMMA DiscoveryKeeps ==
    ASSUME Inv,
           \/ \E a \in Subject : OnAgentDiscovered(a) \/ OnAgentIncomplete(a)
           \/ \E i \in Instance : OnInstanceDiscovered(i)
    PROVE  Inv'
<1>1. CoordTypeOK /\ OneDict /\ DomainTypeOK
  BY DEF Inv, TypeOK
<1>2. ASSUME NEW a \in Subject, OnAgentDiscovered(a) PROVE Inv'
  <2>1. /\ CoordTypeOK' /\ OneDict' /\ EngagementsKept
        /\ waiting' \in [Subject -> {"absent", "incomplete", "ready"}]
        /\ joined' \in SUBSET (Node \X Node)
        /\ stale' \in SUBSET ({"pool", "fleet"} \X Node)
        /\ choice' \in [Subject -> Instance \cup {None}]
    BY <1>2, WaitKeeps DEF OnAgentDiscovered
  <2>2. DomainTypeOK'
    BY <1>1, <1>2, <2>1 DEF OnAgentDiscovered, DomainTypeOK, Node, fleetVars
  <2>3. RespondersTypeOK' /\ OneToOne' /\ LinkedIsEngaged' /\ LinkedNotOffered'
    BY <1>2, <2>1, FleetAlone, RespondersAlone DEF OnAgentDiscovered
  <2> QED
    BY <2>1, <2>2, <2>3 DEF Inv, TypeOK
<1>3. ASSUME NEW a \in Subject, OnAgentIncomplete(a) PROVE Inv'
  <2>1. CoordTypeOK' /\ OneDict' /\ EngagementsKept
    BY <1>3, CoordAlone DEF OnAgentIncomplete, coordVars
  <2>2. a \in Node /\ joined \in SUBSET (Node \X Node)
    BY <1>1 DEF Node, DomainTypeOK
  <2>3. joined' \in SUBSET (Node \X Node) /\ stale' \in SUBSET ({"pool", "fleet"} \X Node)
    BY <1>1, <1>3, <2>2, PoolTypes DEF OnAgentIncomplete
  <2>4. DomainTypeOK'
    BY <1>1, <1>3, <2>2, <2>3 DEF OnAgentIncomplete, DomainTypeOK, fleetVars
  <2>5. RespondersTypeOK' /\ OneToOne' /\ LinkedIsEngaged' /\ LinkedNotOffered'
    BY <1>3, <2>1, FleetAlone, RespondersAlone DEF OnAgentIncomplete
  <2> QED
    BY <2>1, <2>4, <2>5 DEF Inv, TypeOK
<1>4. ASSUME NEW i \in Instance, OnInstanceDiscovered(i) PROVE Inv'
  <2>1. /\ JoinPool(i) /\ agentOf[i] = None /\ i \in Node
        /\ joined \in SUBSET (Node \X Node)
        /\ pooled' \in SUBSET Instance
    BY <1>1, <1>4 DEF OnInstanceDiscovered, Node, DomainTypeOK, JoinPool
  <2>2. joined' \in SUBSET (Node \X Node) /\ stale' \in SUBSET ({"pool", "fleet"} \X Node)
    BY <1>1, <2>1, PoolTypes DEF JoinPool
  <2>3. LinkPass(mode, waiting, pooled', joined', choice)
    BY <2>1 DEF JoinPool
  <2>4. /\ CoordTypeOK' /\ OneDict' /\ EngagementsKept
        /\ choice' \in [Subject -> Instance \cup {None}]
    BY <1>1, <2>1, <2>3, LinkPassKeeps DEF DomainTypeOK
  <2>5. DomainTypeOK'
    BY <1>1, <2>1, <2>2, <2>4 DEF JoinPool, DomainTypeOK, fleetVars
  <2>6. RespondersTypeOK' /\ OneToOne' /\ LinkedIsEngaged' /\ LinkedNotOffered'
    BY <2>1, <2>4, FleetAlone, RespondersAlone DEF JoinPool
  <2> QED
    BY <2>4, <2>5, <2>6 DEF Inv, TypeOK
<1> QED
  BY <1>2, <1>3, <1>4

\* cancel(): whoever holds or is giving back a subject is left giving it back.
LEMMA CancelsKeep ==
    ASSUME CoordTypeOK, OneDict, NEW who \in SUBSET Subject, NEW gone \in SUBSET Subject,
           CancelAndForget(who, gone)
    PROVE  CoordTypeOK' /\ OneDict' /\ EngagementsKept
<1>1. ASSUME NEW a \in Subject, Held(handshakes[a])
      PROVE  LET h == Retire(CancelEffect(a).hs)
             IN  Held(h) /\ h.receiver = handshakes[a].receiver
  <2>1. handshakes[a] \in Initiator /\ ~HasElection(a) /\ handshakes[a].receiver # None
    BY <1>1 DEF CoordTypeOK, OneDict, HasHandshake, Held, Initiator
  <2>2. CASE Releasing(a)
    BY <2>1, <2>2 DEF CancelEffect, Retire, Releasing, Held
  <2>3. CASE ~Releasing(a)
    <3>1. CancelEffect(a) = FromInitiator(Withdraw(a, handshakes[a]))
      BY <1>1, <2>1, <2>3 DEF CancelEffect, HasHandshake, Held
    <3>2. CancelEffect(a).hs = Withdraw(a, handshakes[a]).next
      BY <3>1
    <3> QED
      BY <2>1, <3>2, WithdrawHeld DEF Retire, Held
  <2> QED
    BY <2>2, <2>3
<1>2. EngagementsKept
  BY <1>1 DEF CancelAndForget, EngagementsKept
<1> QED
  BY <1>2, CancelAndForgetKeeps

\* The operator's questions, picks, modes and releases, and the plain pass.
LEMMA OperatorKeeps ==
    ASSUME Inv,
           \/ Link
           \/ \E a \in Subject : \/ GuiConfirmAgent(a) \/ GuiRejectAgent(a) \/ Release(a)
                                \/ \E i \in Instance : GuiChooseInstance(a, i)
           \/ \E m \in LinkingModes : SetLinkingMode(m)
    PROVE  Inv'
<1>1. CoordTypeOK /\ OneDict /\ DomainTypeOK /\ pooled \in SUBSET Instance
  BY DEF Inv, TypeOK, DomainTypeOK
<1>2. ASSUME NEW m \in Modes, NEW picks \in [Subject -> Instance \cup {None}],
             LinkPass(m, waiting, pooled, joined, picks), mode' = m,
             UNCHANGED <<responderVars, poolVars, fleetVars, questions, upsets>>
      PROVE  Inv'
  <2>1. /\ CoordTypeOK' /\ OneDict' /\ EngagementsKept
        /\ choice' \in [Subject -> Instance \cup {None}]
    BY <1>1, <1>2, LinkPassKeeps
  <2>2. DomainTypeOK'
    BY <1>1, <1>2, <2>1 DEF DomainTypeOK, poolVars, fleetVars
  <2>3. RespondersTypeOK' /\ OneToOne' /\ LinkedIsEngaged' /\ LinkedNotOffered'
    BY <1>2, <2>1, FleetAlone, RespondersAlone DEF poolVars
  <2> QED
    BY <2>1, <2>2, <2>3 DEF Inv, TypeOK
<1>3. mode \in Modes /\ choice \in [Subject -> Instance \cup {None}] /\ LinkingModes \subseteq Modes
  BY <1>1, LinkManagerAssumption DEF DomainTypeOK
<1>4. CASE Link
  BY <1>2, <1>3, <1>4 DEF Link
<1>5. ASSUME NEW a \in Subject, NEW i \in Instance, GuiChooseInstance(a, i) PROVE Inv'
  BY <1>2, <1>3, <1>5 DEF GuiChooseInstance
<1>6. ASSUME NEW m \in LinkingModes, SetLinkingMode(m) PROVE Inv'
  <2>1. (IF m = "GUI" THEN choice ELSE [a \in Subject |-> None])
           \in [Subject -> Instance \cup {None}]
    BY <1>3
  <2> QED
    BY <1>2, <1>3, <1>6, <2>1 DEF SetLinkingMode
<1>7. ASSUME NEW a \in Subject, GuiConfirmAgent(a) PROVE Inv'
  <2>1. CASE AlreadyHandled(a)
    <3>1. UNCHANGED <<coordVars, waiting, joined, stale, choice>>
      BY <1>7, <2>1 DEF GuiConfirmAgent
    <3>2. CoordTypeOK' /\ OneDict' /\ EngagementsKept
      BY <3>1, CoordAlone DEF coordVars
    <3>3. DomainTypeOK'
      BY <1>1, <1>7, <3>1 DEF GuiConfirmAgent, DomainTypeOK, fleetVars
    <3>4. RespondersTypeOK' /\ OneToOne' /\ LinkedIsEngaged' /\ LinkedNotOffered'
      BY <1>7, <3>2, FleetAlone, RespondersAlone DEF GuiConfirmAgent
    <3> QED
      BY <3>2, <3>3, <3>4 DEF Inv, TypeOK
  <2>2. CASE ~AlreadyHandled(a)
    <3>1. /\ CoordTypeOK' /\ OneDict' /\ EngagementsKept
          /\ waiting' \in [Subject -> {"absent", "incomplete", "ready"}]
          /\ joined' \in SUBSET (Node \X Node)
          /\ stale' \in SUBSET ({"pool", "fleet"} \X Node)
          /\ choice' \in [Subject -> Instance \cup {None}]
      BY <1>7, <2>2, WaitKeeps DEF GuiConfirmAgent
    <3>2. DomainTypeOK'
      BY <1>1, <1>7, <3>1 DEF GuiConfirmAgent, DomainTypeOK, fleetVars
    <3>3. RespondersTypeOK' /\ OneToOne' /\ LinkedIsEngaged' /\ LinkedNotOffered'
      BY <1>7, <3>1, FleetAlone, RespondersAlone DEF GuiConfirmAgent
    <3> QED
      BY <3>1, <3>2, <3>3 DEF Inv, TypeOK
  <2> QED
    BY <2>1, <2>2
<1>8. ASSUME NEW a \in Subject, GuiRejectAgent(a) PROVE Inv'
  <2>1. CoordTypeOK' /\ OneDict'
    BY <1>1, <1>8, CancelAndForgetKeeps DEF GuiRejectAgent, Forget
  <2>2. EngagementsKept
    BY <1>8 DEF GuiRejectAgent, Forget, CancelAndForget, EngagementsKept
  <2>3. a \in Node /\ joined \in SUBSET (Node \X Node)
    BY <1>1 DEF Node, DomainTypeOK
  <2>4. joined' \in SUBSET (Node \X Node) /\ stale' \in SUBSET ({"pool", "fleet"} \X Node)
    BY <1>1, <1>8, <2>3, PoolTypes DEF GuiRejectAgent, DomainTypeOK
  <2>5. upsets' \in 0 .. MaxUpsets
    BY <1>1, <1>8, LinkManagerAssumption DEF GuiRejectAgent, Upset, DomainTypeOK
  <2>6. DomainTypeOK'
    BY <1>1, <1>8, <2>4, <2>5 DEF GuiRejectAgent, DomainTypeOK, fleetVars
  <2>7. RespondersTypeOK' /\ OneToOne' /\ LinkedIsEngaged' /\ LinkedNotOffered'
    BY <1>8, <2>2, FleetAlone, RespondersAlone DEF GuiRejectAgent
  <2> QED
    BY <2>1, <2>6, <2>7 DEF Inv, TypeOK
<1>9. ASSUME NEW a \in Subject, Release(a) PROVE Inv'
  <2>1. CoordTypeOK' /\ OneDict' /\ EngagementsKept
    BY <1>1, <1>9, CancelsKeep DEF Release, Cancel
  <2>2. DomainTypeOK'
    BY <1>1, <1>9 DEF Release, DomainTypeOK, domainVars, poolVars, guiVars, fleetVars
  <2>3. RespondersTypeOK' /\ OneToOne' /\ LinkedIsEngaged' /\ LinkedNotOffered'
    BY <1>9, <2>1, FleetAlone, RespondersAlone DEF Release, domainVars, poolVars
  <2> QED
    BY <2>1, <2>2, <2>3 DEF Inv, TypeOK
<1> QED
  BY <1>4, <1>5, <1>6, <1>7, <1>8, <1>9

\* Nodes are heard from or fall silent; what died is withdrawn from.
LEMMA LivenessKeeps ==
    ASSUME Inv,
           \/ Sweep
           \/ \E i \in Instance : TwinState(i)
           \/ \E n \in Node : Touch(n) \/ GoesQuiet(n)
    PROVE  Inv'
<1>1. CoordTypeOK /\ OneDict /\ DomainTypeOK
  BY DEF Inv, TypeOK
<1>2. ASSUME UNCHANGED <<coordVars, responderVars, guiVars, fleetVars, waiting, pooled, joined, subscribed>>,
             stale' \in SUBSET ({"pool", "fleet"} \X Node), upsets' \in 0 .. MaxUpsets
      PROVE  Inv'
  <2>1. CoordTypeOK' /\ OneDict' /\ EngagementsKept
    BY <1>2, CoordAlone DEF coordVars
  <2>2. DomainTypeOK'
    BY <1>1, <1>2 DEF DomainTypeOK, fleetVars, guiVars
  <2>3. RespondersTypeOK' /\ OneToOne' /\ LinkedIsEngaged' /\ LinkedNotOffered'
    BY <1>2, <2>1, FleetAlone, RespondersAlone
  <2> QED
    BY <2>1, <2>2, <2>3 DEF Inv, TypeOK
<1>3. ASSUME NEW n \in Node, Touch(n) PROVE Inv'
  <2>1. stale' \in SUBSET ({"pool", "fleet"} \X Node)
    BY <1>1, <1>3 DEF Touch, Fresh, DomainTypeOK
  <2> QED
    BY <1>1, <1>2, <1>3, <2>1 DEF Touch, DomainTypeOK
<1>4. ASSUME NEW i \in Instance, TwinState(i) PROVE Inv'
  <2>1. stale' \in SUBSET ({"pool", "fleet"} \X Node)
    BY <1>1, <1>4 DEF TwinState, Fresh, DomainTypeOK
  <2> QED
    BY <1>1, <1>2, <1>4, <2>1 DEF TwinState, DomainTypeOK
<1>5. ASSUME NEW n \in Node, GoesQuiet(n) PROVE Inv'
  <2>1. stale' \in SUBSET ({"pool", "fleet"} \X Node)
    BY <1>1, <1>5 DEF GoesQuiet, DomainTypeOK
  <2>2. upsets' \in 0 .. MaxUpsets
    BY <1>1, <1>5, LinkManagerAssumption DEF GoesQuiet, Upset, DomainTypeOK
  <2> QED
    BY <1>2, <1>5, <2>1, <2>2 DEF GoesQuiet
<1>6. CASE Sweep
  <2> DEFINE agents == StaleInPool \cap Subject
  <2>1. Abandoned \in SUBSET Subject /\ agents \in SUBSET Subject
    BY DEF Abandoned, StalePairs, SubjectsOn
  <2>2. CoordTypeOK' /\ OneDict' /\ EngagementsKept
    <3>1. CancelAndForget(Abandoned, agents)
      BY <1>6 DEF Sweep
    <3> HIDE DEF agents
    <3> QED
      BY <1>1, <2>1, <3>1, CancelsKeep
  <2>3. joined' \in SUBSET (Node \X Node) /\ stale' \in SUBSET ({"pool", "fleet"} \X Node)
    BY <1>1, <1>6 DEF Sweep, Leave, Fresh, DomainTypeOK
  <2>4. /\ waiting' = [a \in Subject |-> IF a \in agents THEN "absent" ELSE waiting[a]]
        /\ pooled' \subseteq pooled /\ questions' \subseteq questions
        /\ subscribed' \subseteq subscribed
        /\ UNCHANGED <<responderVars, fleetVars, mode, choice, upsets>>
    BY <1>6 DEF Sweep
  <2>5. DomainTypeOK'
    <3>1. waiting' \in [Subject -> {"absent", "incomplete", "ready"}]
      BY <1>1, <2>4 DEF DomainTypeOK
    <3> QED
      BY <1>1, <2>3, <2>4, <3>1 DEF DomainTypeOK, fleetVars
  <2>6. RespondersTypeOK' /\ OneToOne' /\ LinkedIsEngaged' /\ LinkedNotOffered'
    BY <2>2, <2>4, FleetAlone, RespondersAlone
  <2> QED
    BY <2>2, <2>5, <2>6 DEF Inv, TypeOK
<1> QED
  BY <1>3, <1>4, <1>5, <1>6

\* The instances, the network and the cooldowns know nothing of the fleet.
LEMMA WorldKeeps ==
    ASSUME Inv, World
    PROVE  Inv'
<1>1. CoordTypeOK /\ OneDict /\ RespondersTypeOK /\ DomainTypeOK
  BY DEF Inv, TypeOK
<1>2. UNCHANGED domainVars
  BY DEF World
<1>3. handshakes' = handshakes
  BY DEF World, Environment, InstanceStep, Receive, Revoke, Complete, Announce, ReservationLapses,
         Restart, Lose, LoseUp, LoseDown, CooldownOver, coordVars
<1>4. CoordTypeOK' /\ OneDict' /\ RespondersTypeOK'
  <2>1. CASE Environment
    BY <1>1, <2>1, EnvironmentKeeps
  <2>2. ASSUME NEW a \in Subject, NEW i \in Instance, CooldownOver(a, i), UNCHANGED responderVars
        PROVE  CoordTypeOK' /\ OneDict' /\ RespondersTypeOK'
    BY <1>1, <2>2, RespondersAlone DEF CooldownOver, CoordTypeOK, OneDict, HasHandshake, HasElection
  <2> QED
    BY <2>1, <2>2 DEF World
<1>5. DomainTypeOK'
  BY <1>1, <1>2 DEF DomainTypeOK, domainVars, poolVars, guiVars, fleetVars
<1>6. OneToOne' /\ LinkedIsEngaged' /\ LinkedNotOffered'
  <2>1. EngagementsKept
    BY <1>3 DEF EngagementsKept
  <2> QED
    BY <1>2, <2>1, FleetAlone DEF domainVars, poolVars
<1> QED
  BY <1>4, <1>5, <1>6 DEF Inv, TypeOK

-----------------------------------------------------------------------------
(* Steps that link or unlink                                               *)

\* fleet.register for two free sides keeps the two dicts one, and the partner engaged.
LEMMA RegisterKeeps ==
    ASSUME Inv, NEW a \in Subject, NEW i \in Instance, Register(a, i),
           ~Linked(a), agentOf[i] = None, pooled' = pooled \ {i},
           \A b \in Subject \ {a} : handshakes'[b] = handshakes[b],
           Held(handshakes'[a]), handshakes'[a].receiver = i
    PROVE  OneToOne' /\ LinkedIsEngaged' /\ LinkedNotOffered'
<1>1. /\ instanceOf \in [Subject -> Instance \cup {None}]
      /\ agentOf \in [Instance -> Subject \cup {None}]
      /\ instanceOf' = [instanceOf EXCEPT ![a] = i]
      /\ \A j \in Instance : agentOf'[j] = IF j = i THEN a ELSE agentOf[j]
  BY HandshakeAssumption DEF Inv, TypeOK, DomainTypeOK, Register, Linked
<1>2. OneToOne'
  BY <1>1, HandshakeAssumption DEF Inv, OneToOne, Linked
<1>3. LinkedIsEngaged'
  BY <1>1 DEF Inv, LinkedIsEngaged, Linked, Held
<1>4. LinkedNotOffered'
  BY <1>1 DEF Inv, LinkedNotOffered
<1> QED
  BY <1>2, <1>3, <1>4

\* fleet.remove takes a whole pair out.
LEMMA UnregisterKeeps ==
    ASSUME Inv, NEW a \in Subject, Unregister(a), Linked(a),
           pooled' \subseteq pooled \cup {instanceOf[a]},
           \A b \in Subject \ {a} : handshakes'[b] = handshakes[b]
    PROVE  OneToOne' /\ LinkedIsEngaged' /\ LinkedNotOffered'
<1>1. /\ instanceOf \in [Subject -> Instance \cup {None}]
      /\ agentOf \in [Instance -> Subject \cup {None}]
      /\ instanceOf' = [instanceOf EXCEPT ![a] = None]
      /\ agentOf' = [agentOf EXCEPT ![instanceOf[a]] = None]
      /\ instanceOf[a] \in Instance
  BY DEF Inv, TypeOK, DomainTypeOK, Unregister, Linked
<1>2. OneToOne'
  BY <1>1, HandshakeAssumption DEF Inv, OneToOne
<1>3. LinkedIsEngaged'
  BY <1>1 DEF Inv, LinkedIsEngaged, Linked
<1>4. LinkedNotOffered'
  BY <1>1 DEF Inv, LinkedNotOffered
<1> QED
  BY <1>2, <1>3, <1>4

\* The types after on_link.
LEMMA OnLinkTypes ==
    ASSUME DomainTypeOK, NEW a \in Subject, NEW i \in Instance, OnLink(a, i)
    PROVE  DomainTypeOK'
<1>1. CASE UNCHANGED domainVars
  BY <1>1 DEF DomainTypeOK, domainVars, poolVars, guiVars, fleetVars
<1>2. CASE TakeUp(a, i)
  <2>1. joined' \in SUBSET (Node \X Node) /\ stale' \in SUBSET ({"pool", "fleet"} \X Node)
    BY <1>2 DEF TakeUp, Leave, Fresh, DomainTypeOK
  <2>2. waiting' \in [Subject -> {"absent", "incomplete", "ready"}] /\ pooled' \in SUBSET Instance
    BY <1>2 DEF TakeUp, DomainTypeOK
  <2>3. /\ instanceOf' \in [Subject -> Instance \cup {None}]
        /\ agentOf' \in [Instance -> Subject \cup {None}]
    BY <1>2 DEF TakeUp, Register, fleetVars, DomainTypeOK
  <2> QED
    BY <1>2, <2>1, <2>2, <2>3 DEF TakeUp, guiVars, DomainTypeOK
<1> QED
  BY <1>1, <1>2 DEF OnLink

\* The types after on_release.
LEMMA OnReleaseTypes ==
    ASSUME DomainTypeOK, NEW a \in Subject, NEW i \in Instance, Linked(a), OnRelease(a, i)
    PROVE  DomainTypeOK'
<1> DEFINE agentAlive == <<"fleet", a>> \notin stale
           instanceAlive == i \notin StaleInstances
           dead == (IF agentAlive THEN {} ELSE {a}) \cup (IF instanceAlive THEN {} ELSE {i})
           order == Leave(dead, joined)
<1>1. a \in Node /\ i \in Node /\ order \in SUBSET (Node \X Node)
  BY DEF Node, DomainTypeOK, Leave
<1>2. Join(a, order) \in SUBSET (Node \X Node) /\ Join(i, order) \in SUBSET (Node \X Node)
  <2> HIDE DEF order
  <2> QED
    BY <1>1, PoolTypes
<1>3. joined' \in SUBSET (Node \X Node)
  <2>1. joined' = (IF agentAlive THEN Join(a, order) ELSE order)
                    \cup (IF instanceAlive THEN Join(i, order) ELSE order)
    BY DEF OnRelease
  <2> HIDE DEF agentAlive, instanceAlive, order
  <2> QED
    BY <1>1, <1>2, <2>1
<1>4. /\ waiting' \in [Subject -> {"absent", "incomplete", "ready"}]
      /\ pooled' \in SUBSET Instance
      /\ stale' \in SUBSET ({"pool", "fleet"} \X Node)
      /\ subscribed' \in SUBSET Node
  BY DEF OnRelease, DomainTypeOK
<1>5. /\ instanceOf' \in [Subject -> Instance \cup {None}]
      /\ agentOf' \in [Instance -> Subject \cup {None}]
  BY DEF OnRelease, Unregister, DomainTypeOK
<1> QED
  BY <1>3, <1>4, <1>5 DEF OnRelease, guiVars, DomainTypeOK

\* _apply and its hook, given what the conversation tells.
LEMMA ConcludeKeeps ==
    ASSUME Inv, RespondersTypeOK', NEW a \in Subject, NEW x \in Effects,
           AtMostOne(x), Tells(a, x), Conclude(a, x)
    PROVE  Inv'
<1>1. CoordTypeOK /\ OneDict /\ DomainTypeOK
  BY DEF Inv, TypeOK
<1>2. ASSUME Perform(a, x)
      PROVE  /\ CoordTypeOK' /\ OneDict'
             /\ handshakes'[a] = Retire(x.hs)
             /\ \A b \in Subject \ {a} : handshakes'[b] = handshakes[b]
  <2>1. CoordTypeOK' /\ OneDict'
    BY <1>1, <1>2, PerformKeeps
  <2>2. handshakes' = [handshakes EXCEPT ![a] = Retire(x.hs)]
    BY <1>2 DEF Perform, Interrupted, Effects
  <2> QED
    BY <1>1, <2>1, <2>2 DEF CoordTypeOK
<1>3. CASE x.act = "NOTHING" /\ Perform(a, x) /\ UNCHANGED domainVars
  <2>1. EngagementsKept
    BY <1>2, <1>3 DEF EngagementsKept, Tells, Told, Retire, Held
  <2>2. OneToOne' /\ LinkedIsEngaged' /\ LinkedNotOffered'
    BY <1>3, <2>1, FleetAlone DEF domainVars, poolVars
  <2>3. DomainTypeOK'
    BY <1>1, <1>3 DEF DomainTypeOK, domainVars, poolVars, guiVars, fleetVars
  <2> QED
    BY <1>2, <1>3, <2>2, <2>3 DEF Inv, TypeOK
<1>4. CASE x.act = "LINK" /\ Perform(a, x) /\ OnLink(a, x.by)
  <2> DEFINE i == x.by
  <2>1. /\ i \in Instance /\ ~Held(handshakes[a]) /\ ~Linked(a)
        /\ Held(handshakes'[a]) /\ handshakes'[a].receiver = i
    <3>1. i \in Instance /\ ~Held(handshakes[a]) /\ Held(x.hs) /\ x.hs.receiver = i
      BY <1>4 DEF Tells, Told, Held
    <3> QED
      BY <1>2, <1>4, <3>1 DEF Inv, LinkedIsEngaged, Held, Retire
  <2>2. DomainTypeOK'
    BY <1>1, <1>4, <2>1, OnLinkTypes
  <2>3. CASE UNCHANGED <<fleetVars, pooled>>
    <3>1. EngagementsKept
      BY <1>2, <1>4, <2>1 DEF EngagementsKept
    <3> QED
      BY <1>2, <1>4, <2>2, <2>3, <3>1, FleetAlone DEF Inv, TypeOK
  <2>4. CASE agentOf[i] = None /\ Register(a, i) /\ pooled' = pooled \ {i}
    <3>1. OneToOne' /\ LinkedIsEngaged' /\ LinkedNotOffered'
      <4> HIDE DEF i
      <4> QED
        BY <1>2, <1>4, <2>1, <2>4, RegisterKeeps
    <3> QED
      BY <1>2, <1>4, <2>2, <3>1 DEF Inv, TypeOK
  <2> QED
    BY <1>4, <2>3, <2>4 DEF OnLink, TakeUp, domainVars, poolVars
<1>5. CASE x.act = "RELEASE" /\ Linked(a) /\ Perform(a, x) /\ OnRelease(a, x.by)
  <2>1. x.by \in Instance /\ x.by = instanceOf[a]
    BY <1>5 DEF Tells, Told, Inv, LinkedIsEngaged
  <2>2. DomainTypeOK'
    BY <1>1, <1>5, <2>1, OnReleaseTypes
  <2>3. Unregister(a) /\ pooled' \subseteq pooled \cup {instanceOf[a]}
    BY <1>5, <2>1 DEF OnRelease
  <2>4. OneToOne' /\ LinkedIsEngaged' /\ LinkedNotOffered'
    BY <1>2, <1>5, <2>3, UnregisterKeeps
  <2> QED
    BY <1>2, <1>5, <2>2, <2>4 DEF Inv, TypeOK
<1>6. CASE x.act = "RELEASE" /\ ~Linked(a) /\ Interrupted(a, x) /\ UNCHANGED domainVars
  <2>1. /\ handshakes' = [handshakes EXCEPT ![a] = x.hs]
        /\ elections' = [elections EXCEPT ![a] = x.el]
        /\ Send(x.out) /\ UNCHANGED <<epochs, cooling>>
        /\ x.hs \in Initiator /\ x.el \in Election /\ x.out \in SUBSET Envelope
    BY <1>6 DEF Interrupted, Effects
  <2>2. net' \in [Subject \X Instance -> Seq(Envelope)]
    BY <1>1, <2>1, SendType
  <2>3. CoordTypeOK' /\ OneDict'
    BY <1>1, <2>1, <2>2 DEF CoordTypeOK, OneDict, HasHandshake, HasElection, AtMostOne
  <2>4. DomainTypeOK'
    BY <1>1, <1>6 DEF DomainTypeOK, domainVars, poolVars, guiVars, fleetVars
  <2>5. OneToOne' /\ LinkedIsEngaged' /\ LinkedNotOffered'
    BY <1>1, <1>6, <2>1 DEF Inv, OneToOne, LinkedIsEngaged, LinkedNotOffered, Linked,
                            CoordTypeOK, domainVars, poolVars, fleetVars
  <2> QED
    BY <2>3, <2>4, <2>5 DEF Inv, TypeOK
<1> QED
  BY <1>3, <1>4, <1>5, <1>6 DEF Conclude

\* What route() and tick() may hand to _apply: an effect of the right type that tells
\* the truth and, as long as nobody is engaged twice, engages nobody else.
MayConclude(a, x) == AtMostOne(x) /\ Tells(a, x) /\ (Apart => Narrows(a, x))

\* They hand nothing else.
LEMMA ConcludedBy ==
    ASSUME Inv
    PROVE  /\ \A i \in Instance : Route(i) =>
                 \E a \in Subject, x \in Effects : MayConclude(a, x) /\ Conclude(a, x)
           /\ \A a \in Subject : Tick(a) =>
                 \E x \in Effects : MayConclude(a, x) /\ Conclude(a, x)
<1>1. CoordTypeOK /\ OneDict /\ RespondersTypeOK
  BY DEF Inv, TypeOK
<1>2. ASSUME NEW i \in Instance, Route(i)
      PROVE  \E a \in Subject, x \in Effects : MayConclude(a, x) /\ Conclude(a, x)
  <2> DEFINE m == Head(uplink[i])
  <2>1. m \in Envelope
    BY <1>1, <1>2, TakeKeeps DEF Route
  <2>2. PICK x \in RouteEffects(m) : Conclude(m.id, x)
    BY <1>2 DEF Route
  <2> HIDE DEF m
  <2>3. m.id \in Subject /\ x \in Effects /\ AtMostOne(x) /\ Tells(m.id, x)
    BY <1>1, <2>1, RouteEffectsType, RouteTells DEF Envelope
  <2>4. Apart => Narrows(m.id, x)
    BY <1>1, <2>1, <2>2, <2>3, RouteNarrows DEF Apart
  <2> QED
    BY <2>2, <2>3, <2>4 DEF MayConclude
<1>3. ASSUME NEW a \in Subject, Tick(a)
      PROVE  \E x \in Effects : MayConclude(a, x) /\ Conclude(a, x)
  <2>1. PICK x \in TickEffects(a) : Conclude(a, x)
    BY <1>3 DEF Tick
  <2>2. x \in Effects /\ AtMostOne(x) /\ Tells(a, x)
    BY <1>1, TickEffectsType, TickTells
  <2>3. Apart => Narrows(a, x)
    BY <1>1, TickNarrows DEF Apart
  <2> QED
    BY <2>1, <2>2, <2>3 DEF MayConclude
<1> QED
  BY <1>2, <1>3

-----------------------------------------------------------------------------
(* The theorems                                                            *)

\* The constructor establishes the invariant.
LEMMA InitEstablishes == Init => Inv
<1> SUFFICES ASSUME Init PROVE Inv
  OBVIOUS
<1>1. CoordTypeOK /\ OneDict
  BY NothingThereType, NobodyAsked DEF Init, CoordInit, CoordTypeOK, OneDict, HasElection
<1>2. RespondersTypeOK
  BY DEF Init, RespondersInit, RespondersTypeOK, Idle, Holding
<1>3. DomainTypeOK
  BY LinkManagerAssumption DEF Init, DomainTypeOK
<1>4. OneToOne /\ LinkedIsEngaged /\ LinkedNotOffered
  BY HandshakeAssumption DEF Init, OneToOne, LinkedIsEngaged, LinkedNotOffered, Linked
<1> QED
  BY <1>1, <1>2, <1>3, <1>4 DEF Inv, TypeOK

\* Every step keeps it.
LEMMA NextKeeps == Inv /\ [Next]_vars => Inv'
<1> SUFFICES ASSUME Inv, [Next]_vars PROVE Inv'
  OBVIOUS
<1>1. ASSUME NEW i \in Instance, Route(i) PROVE Inv'
  <2>1. RespondersTypeOK'
    BY <1>1, TakeKeeps DEF Route, Inv, TypeOK
  <2> QED
    BY <1>1, <2>1, ConcludedBy, ConcludeKeeps DEF MayConclude
<1>2. ASSUME NEW a \in Subject, Tick(a) PROVE Inv'
  <2>1. RespondersTypeOK'
    BY <1>2, RespondersAlone DEF Tick
  <2> QED
    BY <1>2, <2>1, ConcludedBy, ConcludeKeeps DEF MayConclude
<1>3. CASE UNCHANGED vars
  BY <1>3 DEF vars, coordVars, responderVars, domainVars, poolVars, guiVars, fleetVars,
              Inv, TypeOK, CoordTypeOK, RespondersTypeOK, DomainTypeOK, OneDict, HasHandshake,
              HasElection, OneToOne, LinkedIsEngaged, LinkedNotOffered, Linked
<1> QED
  BY <1>1, <1>2, <1>3, OperatorKeeps, DiscoveryKeeps, LivenessKeeps, WorldKeeps DEF Next

\* Every reachable state of the link manager, its pools and the fleet is well typed.
THEOREM TypeCorrect == Spec => []TypeOK
<1>1. Inv => TypeOK
  BY DEF Inv
<1> QED
  BY <1>1, InitEstablishes, NextKeeps, PTL DEF Spec

\* The two dicts of FleetRegistry always say the same.
THEOREM OneToOneHolds == Spec => []OneToOne
<1>1. Inv => OneToOne
  BY DEF Inv
<1> QED
  BY <1>1, InitEstablishes, NextKeeps, PTL DEF Spec

\* A pair of the fleet always has its conversation, so it can always be released.
THEOREM LinkedIsEngagedHolds == Spec => []LinkedIsEngaged
<1>1. Inv => LinkedIsEngaged
  BY DEF Inv
<1> QED
  BY <1>1, InitEstablishes, NextKeeps, PTL DEF Spec

\* A linked instance is no candidate for anybody else.
THEOREM LinkedNotOfferedHolds == Spec => []LinkedNotOffered
<1>1. Inv => LinkedNotOffered
  BY DEF Inv
<1> QED
  BY <1>1, InitEstablishes, NextKeeps, PTL DEF Spec

\* The fleet changes by linking two free sides or by dissolving a pair.
LEMMA FleetSteps ==
    ASSUME Inv, [Next]_vars
    PROVE  \/ UNCHANGED fleetVars
           \/ \E a \in Subject, i \in Instance : ~Linked(a) /\ agentOf[i] = None /\ Register(a, i)
           \/ \E a \in Subject : Linked(a) /\ Unregister(a)
<1> DEFINE Step == \/ UNCHANGED fleetVars
                   \/ \E a \in Subject, i \in Instance : ~Linked(a) /\ agentOf[i] = None /\ Register(a, i)
                   \/ \E a \in Subject : Linked(a) /\ Unregister(a)
<1>1. ASSUME NEW a \in Subject, NEW x \in Effects, Tells(a, x), Conclude(a, x) PROVE Step
  <2>1. CASE UNCHANGED domainVars
    BY <2>1 DEF domainVars
  <2>2. CASE x.act = "LINK" /\ TakeUp(a, x.by) /\ agentOf[x.by] = None
    <3>1. ~Linked(a) /\ x.by \in Instance
      BY <1>1, <2>2 DEF Inv, LinkedIsEngaged, Tells, Told, Held
    <3>2. UNCHANGED fleetVars \/ Register(a, x.by)
      BY <2>2 DEF TakeUp
    <3> QED
      BY <2>2, <3>1, <3>2
  <2>3. CASE Linked(a) /\ OnRelease(a, x.by)
    BY <2>3 DEF OnRelease
  <2> QED
    BY <1>1, <2>1, <2>2, <2>3 DEF Conclude, OnLink
<1>2. CASE \/ \E i \in Instance : Route(i)
           \/ \E a \in Subject : Tick(a)
  <2>1. PICK a \in Subject, x \in Effects : Tells(a, x) /\ Conclude(a, x)
    BY <1>2, ConcludedBy DEF MayConclude
  <2> QED
    BY <1>1, <2>1
<1>3. CASE \/ Link \/ Sweep \/ World
           \/ \E m \in LinkingModes : SetLinkingMode(m)
           \/ \E n \in Node : Touch(n) \/ GoesQuiet(n)
           \/ \E i \in Instance : OnInstanceDiscovered(i) \/ TwinState(i)
  BY <1>3 DEF Link, Sweep, World, SetLinkingMode, Touch, GoesQuiet, OnInstanceDiscovered, JoinPool,
              TwinState, domainVars
<1>4. CASE \E a \in Subject :
             \/ OnAgentDiscovered(a) \/ OnAgentIncomplete(a) \/ GuiConfirmAgent(a)
             \/ GuiRejectAgent(a) \/ Release(a) \/ \E i \in Instance : GuiChooseInstance(a, i)
  BY <1>4 DEF OnAgentDiscovered, OnAgentIncomplete, GuiConfirmAgent, GuiRejectAgent, Release,
              GuiChooseInstance, domainVars
<1>5. CASE UNCHANGED vars
  BY <1>5 DEF vars, domainVars
<1> QED
  BY <1>2, <1>3, <1>4, <1>5 DEF Next

FleetPairs == {p \in Subject \X Instance : instanceOf[p[1]] = p[2]}

\* The link manager implements Pairing: whatever is lost, restarted or timed out, two
\* free sides link and a pair dissolves as a whole.
THEOREM Refinement == Spec => PairsKeepTheirWord
<1>1. Init => Pairs!Init
  BY HandshakeAssumption DEF Init, Pairs!Init
<1>2. Inv /\ [Next]_vars => [Pairs!Next]_FleetPairs
  <2> SUFFICES ASSUME Inv, [Next]_vars PROVE [Pairs!Next]_FleetPairs
    OBVIOUS
  <2> USE DEF FleetPairs
  <2>1. /\ instanceOf \in [Subject -> Instance \cup {None}]
        /\ agentOf \in [Instance -> Subject \cup {None}]
        /\ OneToOne
    BY DEF Inv, TypeOK, DomainTypeOK
  <2>2. CASE UNCHANGED fleetVars
    BY <2>2 DEF fleetVars
  <2>3. ASSUME NEW a \in Subject, NEW i \in Instance, ~Linked(a), agentOf[i] = None, Register(a, i)
        PROVE  Pairs!Link(a, i)
    <3>1. \A p \in FleetPairs : p[1] # a /\ p[2] # i
      BY <2>1, <2>3, HandshakeAssumption DEF Linked, OneToOne
    <3>2. FleetPairs' = FleetPairs \cup {<<a, i>>}
      BY <2>1, <2>3, HandshakeAssumption DEF Linked, Register
    <3> QED
      BY <3>1, <3>2 DEF Pairs!Link
  <2>4. ASSUME NEW a \in Subject, Linked(a), Unregister(a)
        PROVE  \E p \in FleetPairs : Pairs!Unlink(p)
    <3>1. <<a, instanceOf[a]>> \in FleetPairs
      BY <2>1, <2>4 DEF Linked
    <3>2. FleetPairs' = FleetPairs \ {<<a, instanceOf[a]>>}
      BY <2>1, <2>4, HandshakeAssumption DEF Linked, Unregister
    <3> QED
      BY <3>1, <3>2 DEF Pairs!Unlink
  <2> QED
    BY <2>2, <2>3, <2>4, FleetSteps DEF Pairs!Next
<1> QED
  BY <1>1, <1>2, InitEstablishes, NextKeeps, PTL
     DEF Spec, PairsKeepTheirWord, Pairs!Spec, FleetPairs
-----------------------------------------------------------------------------
(* A confirmed conversation is a pair.  on_link may refuse a confirmation: *)
(* the instance has an agent, or the agent is no longer in its pool.  When *)
(* everybody is asked by name and known in full, neither ever happens.     *)

\* No broadcasts, and no announcement that lacks configuration.
Directed == "POOLED" \notin LinkingModes /\ Underspecified = {}

\* A conversation that may link is about a waiting agent, with pooled instances.
FromPool == \A a \in Subject : Open(handshakes[a], elections[a]) =>
    waiting[a] = "ready" /\ Engaged(a) \subseteq pooled

\* The agents of a pool are in line.
InLine(w, order) == \A a, b \in Subject :
    a # b /\ w[a] # "absent" /\ w[b] # "absent" => <<a, b>> \in order \/ <<b, a>> \in order

\* Whoever is in a pool is listened to.
Heard == /\ \A a \in Subject : waiting[a] # "absent" => a \in subscribed
         /\ pooled \subseteq subscribed

\* The operator is asked nothing.
NothingAsked == questions = {} /\ \A a \in Subject : waiting[a] # "incomplete"

\* A linked agent waits in no pool, and both halves of a pair are listened to.
LinkedIsSettled == \A a \in Subject : Linked(a) =>
    waiting[a] = "absent" /\ {a, instanceOf[a]} \subseteq subscribed

LinkInv == /\ Apart /\ FromPool /\ InLine(waiting, joined) /\ Heard /\ NothingAsked
           /\ mode \in LinkingModes
           /\ ConfirmedIsLinked /\ LinkedIsSettled

\* What a pass opens: conversations about ready agents, with instances of the pool.
Opens(w, pool) == \A a \in Subject :
    \/ handshakes'[a] = handshakes[a] /\ elections'[a] = elections[a]
    \/ w[a] = "ready" /\ handshakes'[a].state # "CONFIRMED" /\ Engaged(a)' \subseteq pool

\* Whoever is not in flight engages nobody.
LEMMA IdleEngagesNobody ==
    ASSUME Apart, NEW a \in Subject, ~InFlight(a)
    PROVE  Engaged(a) = {} /\ Specific(handshakes[a]) /\ Counted(elections[a])
<1>1. Specific(handshakes[a]) /\ Counted(elections[a])
  BY DEF Apart
<1> QED
  BY <1>1 DEF Specific, Counted, InFlight, HasHandshake, HasElection, Engaged, EngagedBy

\* A directed pass asks nobody for two agents, and nobody who is engaged.
LEMMA LinkPassOpens ==
    ASSUME CoordTypeOK, OneDict, Apart, NEW m, m # "POOLED", NEW w, NEW pool \in SUBSET Instance,
           NEW order, InLine(w, order), NEW picks, LinkPass(m, w, pool, order, picks)
    PROVE  Apart' /\ Opens(w, pool)
<1> DEFINE free == FreeInstances(pool)
<1>1. \A a \in Ready(w) : a \in Subject /\ w[a] = "ready" /\ Engaged(a) = {}
  BY IdleEngagesNobody DEF Ready
<1>2. free \subseteq pool /\ free \cap EngagedInstances = {} /\ free \in SUBSET Instance
  BY DEF FreeInstances
<1> HIDE DEF free
<1>3. CASE m = "AUCTION"
  <2>1. CASE UNCHANGED coordVars
    BY <2>1, ApartAlone DEF coordVars, Opens
  <2>2. ASSUME NEW a \in FirstOf(Ready(w), order), Elect(a, free)
        PROVE  Apart' /\ Opens(w, pool)
    <3> DEFINE cands == [x \in Subject |-> IF x = a THEN free \ EngagedInstances ELSE {}]
    <3>1. /\ OpenElections(cands) /\ a \in Ready(w)
          /\ cands \in [Subject -> SUBSET Instance] /\ cands[a] \subseteq free
          /\ \A x \in Subject : x # a => cands[x] = {}
      BY <1>1, <1>2, <2>2 DEF Elect, FirstOf
    <3>2. ASSUME NEW x \in Subject
          PROVE  /\ Engaged(x)' \subseteq Engaged(x) \cup cands[x]
                 /\ Counted(elections[x]) => Counted(elections'[x])
                 /\ handshakes'[x] = handshakes[x]
                 /\ cands[x] = {} => elections'[x] = elections[x]
      <4> HIDE DEF cands
      <4> QED
        BY <3>1, OpenElectionsEngages
    <3>3. /\ \A x \in Subject : cands[x] \cap EngagedInstances = {}
          /\ \A x, y \in Subject : x # y => cands[x] \cap cands[y] = {}
      OBVIOUS
    <3> HIDE DEF cands
    <3>4. Apart'
      BY <3>1, <3>2, <3>3, ApartAfter DEF Apart
    <3>5. handshakes'[a].state # "CONFIRMED" /\ Engaged(a)' \subseteq pool
      BY <1>1, <1>2, <2>2, <3>1, <3>2 DEF Elect, InFlight, HasHandshake
    <3> QED
      BY <1>1, <3>1, <3>2, <3>4, <3>5 DEF Opens
  <2> QED
    BY <1>3, <2>1, <2>2 DEF LinkPass, AuctionPass, free
<1>4. CASE m # "AUCTION"
  <2>1. DirectedPass(m, w, pool, order, picks)
    BY <1>4 DEF LinkPass
  <2>2. PICK ask \in [Subject -> SUBSET Instance] :
           /\ \A a \in Subject : a \notin Ready(w) => ask[a] = {}
           /\ \A a \in Subject : ask[a] \subseteq free
           /\ \A a, b \in Subject : b \in Ready(w) /\ <<b, a>> \in order => ask[a] \cap ask[b] = {}
           /\ OpenRequests({a \in Subject : ask[a] # {}}, ask)
    <3> DEFINE Left(ask, a) == FreeInstances(pool)
                                 \ UNION {ask[b] : b \in {x \in Ready(w) : <<x, a>> \in order}}
               Wanted(ask, a) == IF m = "GUI" THEN {picks[a]} \cap Left(ask, a)
                                 ELSE FirstOf(Left(ask, a), order)
    <3>1. PICK ask \in [Subject -> SUBSET Instance] :
             /\ \A a \in Subject :
                   ask[a] = IF a \in Ready(w) THEN {i \in Wanted(ask, a) : <<a, i>> \notin cooling}
                            ELSE {}
             /\ OpenRequests({a \in Subject : ask[a] # {}}, ask)
      BY <2>1 DEF DirectedPass
    <3>2. \A a \in Subject : Wanted(ask, a) \subseteq Left(ask, a)
      BY DEF FirstOf
    <3>3. \A a \in Subject : ask[a] \subseteq Left(ask, a)
      <4> HIDE DEF Left, Wanted
      <4> QED
        BY <3>1, <3>2
    <3>4. \A a \in Subject : a \notin Ready(w) => ask[a] = {}
      BY <3>1
    <3>5. ASSUME NEW a \in Subject, NEW b \in Ready(w), <<b, a>> \in order
          PROVE  ask[a] \cap ask[b] = {}
      <4>1. b \in {x \in Ready(w) : <<x, a>> \in order}
        BY <3>5
      <4>2. Left(ask, a) \cap ask[b] = {}
        BY <4>1
      <4> QED
        BY <3>3, <4>2
    <3> QED
      BY <3>1, <3>3, <3>4, <3>5 DEF free
  <2> DEFINE who == {a \in Subject : ask[a] # {}}
  <2>3. who \in SUBSET Subject /\ OpenRequests(who, ask) /\ who \subseteq Ready(w)
    BY <2>2
  <2>4. \A a \in Subject : a \in who <=> ask[a] # {}
    OBVIOUS
  <2> HIDE DEF who
  <2>5. ASSUME NEW a \in Subject, NEW b \in Subject, a # b PROVE ask[a] \cap ask[b] = {}
    BY <1>1, <2>2, <2>5 DEF InLine
  <2>6. ASSUME NEW a \in Subject
        PROVE  /\ a \in who => Engaged(a)' \subseteq Engaged(a) \cup ask[a] /\ Specific(handshakes'[a])
               /\ a \notin who => handshakes'[a] = handshakes[a] /\ Engaged(a)' = Engaged(a)
               /\ elections'[a] = elections[a]
    BY <2>3, <2>4, OpenRequestsEngages
  <2>7. Apart'
    <3>1. \A a \in Subject : ask[a] \cap EngagedInstances = {}
      BY <1>2, <2>2
    <3>2. \A a \in Subject : /\ Specific(handshakes'[a]) /\ Counted(elections'[a])
                             /\ Engaged(a)' \subseteq Engaged(a) \cup ask[a]
      BY <2>6 DEF Apart
    <3> QED
      BY <2>5, <3>1, <3>2, ApartAfter
  <2>8. \A a \in who : handshakes'[a].state # "CONFIRMED"
    BY <2>3 DEF OpenRequests, Requested
  <2> QED
    BY <1>1, <1>2, <2>2, <2>3, <2>6, <2>7, <2>8 DEF Opens
<1> QED
  BY <1>3, <1>4

\* A step that leaves the pairs alone and lets in whom the transport listens to.
LEMMA PoolGrows ==
    ASSUME LinkInv, Apart', UNCHANGED <<fleetVars, questions>>, mode' \in LinkingModes,
           Opens(waiting', pooled'),
           pooled \subseteq pooled', pooled' \subseteq subscribed',
           subscribed \subseteq subscribed', InLine(waiting', joined'),
           \A a \in Subject : \/ waiting'[a] = waiting[a]
                              \/ waiting'[a] = "ready" /\ a \in subscribed' /\ ~Linked(a)
    PROVE  LinkInv'
<1>1. FromPool'
  <2> SUFFICES ASSUME NEW a \in Subject, Open(handshakes'[a], elections'[a])
               PROVE  waiting'[a] = "ready" /\ Engaged(a)' \subseteq pooled'
    BY DEF FromPool
  <2>1. CASE handshakes'[a] = handshakes[a] /\ elections'[a] = elections[a]
    BY <2>1 DEF LinkInv, FromPool, Engaged
  <2> QED
    BY <2>1 DEF Opens
<1>2. Heard' /\ NothingAsked'
  BY DEF LinkInv, Heard, NothingAsked
<1>3. ConfirmedIsLinked'
  BY DEF LinkInv, ConfirmedIsLinked, Opens, fleetVars
<1>4. LinkedIsSettled'
  BY DEF LinkInv, LinkedIsSettled, Linked, fleetVars
<1> QED
  BY <1>1, <1>2, <1>3, <1>4 DEF LinkInv

\* Discovery and the operator.
LEMMA MatchingLinks ==
    ASSUME Directed, Inv, LinkInv,
           \/ Link
           \/ \E a \in Subject : \/ OnAgentDiscovered(a) \/ OnAgentIncomplete(a)
                                \/ GuiConfirmAgent(a) \/ GuiRejectAgent(a)
                                \/ \E i \in Instance : GuiChooseInstance(a, i)
           \/ \E i \in Instance : OnInstanceDiscovered(i)
           \/ \E m \in LinkingModes : SetLinkingMode(m)
    PROVE  LinkInv'
<1>1. /\ CoordTypeOK /\ OneDict /\ pooled \in SUBSET Instance
      /\ waiting \in [Subject -> {"absent", "incomplete", "ready"}]
      /\ Apart /\ InLine(waiting, joined) /\ Heard /\ mode \in LinkingModes
  BY DEF Inv, TypeOK, DomainTypeOK, LinkInv
<1>2. \A m \in LinkingModes : m # "POOLED"
  BY DEF Directed
<1>3. ASSUME NEW m \in LinkingModes, NEW picks, LinkPass(m, waiting, pooled, joined, picks),
             mode' = m, UNCHANGED <<poolVars, fleetVars, questions>>
      PROVE  LinkInv'
  <2>1. Apart' /\ Opens(waiting, pooled)
    BY <1>1, <1>2, <1>3, LinkPassOpens
  <2> QED
    BY <1>1, <1>3, <2>1, PoolGrows DEF poolVars, Heard
<1>4. ASSUME NEW a \in Subject, OnAgentDiscovered(a) PROVE LinkInv'
  <2>1. /\ waiting' = [waiting EXCEPT ![a] = "ready"] /\ joined' = Join(a, joined)
        /\ LinkPass(mode, waiting', pooled, joined', choice)
        /\ ~Linked(a) /\ subscribed' = subscribed \cup {a}
        /\ UNCHANGED <<fleetVars, pooled, mode, questions>>
    BY <1>4 DEF OnAgentDiscovered, Wait, AlreadyHandled
  <2>2. InLine(waiting', joined')
    <3>1. joined' = IF waiting[a] # "absent" THEN joined
                    ELSE joined \cup {<<n, a>> : n \in {x \in Node : InPool(x) /\ x \in Subject}}
      BY <2>1 DEF Join, InPool
    <3>2. \A b \in Subject : b \in Node /\ (waiting[b] # "absent" => InPool(b))
      BY DEF Node, InPool
    <3> QED
      BY <1>1, <2>1, <3>1, <3>2 DEF InLine
  <2>3. Apart' /\ Opens(waiting', pooled)
    BY <1>1, <1>2, <2>1, <2>2, LinkPassOpens
  <2> QED
    BY <1>1, <2>1, <2>2, <2>3, PoolGrows DEF Heard
<1>5. ASSUME NEW i \in Instance, OnInstanceDiscovered(i) PROVE LinkInv'
  <2>1. /\ pooled' = pooled \cup {i} /\ joined' = Join(i, joined)
        /\ subscribed' = IF i \in pooled THEN subscribed ELSE subscribed \cup {i}
        /\ LinkPass(mode, waiting, pooled', joined', choice)
        /\ UNCHANGED <<fleetVars, waiting, mode, questions>>
    BY <1>5 DEF OnInstanceDiscovered, JoinPool
  <2>2. InLine(waiting, joined') /\ pooled' \in SUBSET Instance
    BY <1>1, <2>1 DEF InLine, Join
  <2>3. Apart' /\ Opens(waiting, pooled')
    BY <1>1, <1>2, <2>1, <2>2, LinkPassOpens
  <2> QED
    BY <1>1, <2>1, <2>2, <2>3, PoolGrows DEF Heard
<1>6. ASSUME NEW a \in Subject, OnAgentIncomplete(a) \/ GuiConfirmAgent(a) \/ GuiRejectAgent(a)
      PROVE  FALSE
  BY <1>6 DEF Directed, LinkInv, NothingAsked, OnAgentIncomplete, GuiConfirmAgent, GuiRejectAgent
<1>7. CASE \/ Link
           \/ \E a \in Subject, i \in Instance : GuiChooseInstance(a, i)
           \/ \E m \in LinkingModes : SetLinkingMode(m)
  BY <1>1, <1>3, <1>7 DEF Link, GuiChooseInstance, SetLinkingMode
<1> QED
  BY <1>4, <1>5, <1>6, <1>7

\* Withdrawing: whoever leaves a pool takes the open conversations about it along.
LEMMA WithdrawingLinks ==
    ASSUME Inv, LinkInv, Sweep \/ \E a \in Subject : Release(a)
    PROVE  LinkInv'
<1>1. CoordTypeOK /\ Apart
  BY DEF Inv, TypeOK, LinkInv
<1>2. ASSUME NEW who \in SUBSET Subject, NEW gone, CancelAndForget(who, gone)
      PROVE  /\ Apart' /\ \A a \in Subject : Engaged(a)' \subseteq Engaged(a)
             /\ \A a \in Subject : Open(handshakes'[a], elections'[a]) =>
                   a \notin who /\ Open(handshakes[a], elections[a])
             /\ \A a \in Subject : handshakes'[a].state = "CONFIRMED" =>
                   handshakes'[a] = handshakes[a]
  <2>1. /\ Apart'
        /\ \A a \in Subject : /\ Engaged(a)' \subseteq Engaged(a)
                              /\ a \in who => ~Open(handshakes'[a], elections'[a])
                              /\ a \notin who => /\ handshakes'[a] = handshakes[a]
                                                 /\ elections'[a] = elections[a]
    BY <1>1, <1>2, CancelAndForgetApart
  <2>2. \A a \in who : handshakes'[a].state # "CONFIRMED"
    BY <1>1, <1>2, CancelEnds DEF CancelAndForget
  <2> QED
    BY <2>1, <2>2
<1>3. ASSUME NEW a \in Subject, Release(a) PROVE LinkInv'
  <2>1. CancelAndForget({a}, {}) /\ UNCHANGED domainVars /\ {a} \in SUBSET Subject
    BY <1>3 DEF Release, Cancel
  <2>2. /\ Apart' /\ \A b \in Subject : Engaged(b)' \subseteq Engaged(b)
        /\ \A b \in Subject : Open(handshakes'[b], elections'[b]) =>
              Open(handshakes[b], elections[b])
        /\ \A b \in Subject : handshakes'[b].state = "CONFIRMED" =>
              handshakes'[b] = handshakes[b]
    BY <1>2, <2>1
  <2> QED
    BY <2>1, <2>2 DEF LinkInv, domainVars, poolVars, guiVars, fleetVars, FromPool, InLine, Heard,
                      NothingAsked, ConfirmedIsLinked, LinkedIsSettled, Linked
<1>4. CASE Sweep
  <2>1. /\ CancelAndForget(Abandoned, StaleInPool \cap Subject) /\ Abandoned \in SUBSET Subject
        /\ waiting' = [a \in Subject |-> IF a \in StaleInPool THEN "absent" ELSE waiting[a]]
        /\ pooled' = pooled \ StaleInPool
        /\ joined' = Leave(StaleInPool, joined)
        /\ questions' = questions \ (StaleInPool \cap Subject)
        /\ subscribed' = subscribed \ StaleInPool
        /\ UNCHANGED <<fleetVars, mode>>
    BY <1>4 DEF Sweep, Abandoned, StalePairs, SubjectsOn, Inv, TypeOK, DomainTypeOK
  <2>2. /\ Apart' /\ \A a \in Subject : Engaged(a)' \subseteq Engaged(a)
        /\ \A a \in Subject : Open(handshakes'[a], elections'[a]) =>
              a \notin Abandoned /\ Open(handshakes[a], elections[a])
        /\ \A a \in Subject : handshakes'[a].state = "CONFIRMED" =>
              handshakes'[a] = handshakes[a]
    BY <1>2, <2>1
  <2>3. FromPool'
    <3> SUFFICES ASSUME NEW a \in Subject, Open(handshakes'[a], elections'[a])
                 PROVE  waiting'[a] = "ready" /\ Engaged(a)' \subseteq pooled'
      BY DEF FromPool
    <3>1. waiting[a] = "ready" /\ Engaged(a) \subseteq pooled /\ a \notin Abandoned
      BY <2>2 DEF LinkInv, FromPool
    <3>2. a \notin StaleInPool /\ Engaged(a) \cap (StaleInPool \cap Instance) = {}
      BY <3>1 DEF Abandoned, SubjectsOn
    <3> QED
      BY <2>1, <2>2, <3>1, <3>2 DEF Inv, TypeOK, DomainTypeOK
  <2>4. InLine(waiting', joined')
    BY <2>1 DEF LinkInv, InLine, Leave
  <2>5. Heard' /\ NothingAsked' /\ mode' \in LinkingModes
    BY <2>1 DEF LinkInv, Heard, NothingAsked
  <2>6. ConfirmedIsLinked'
    BY <2>1, <2>2 DEF LinkInv, ConfirmedIsLinked, fleetVars
  <2>7. LinkedIsSettled'
    <3> SUFFICES ASSUME NEW a \in Subject, Linked(a)
                 PROVE  waiting'[a] = "absent" /\ {a, instanceOf[a]} \subseteq subscribed'
      BY <2>1 DEF LinkedIsSettled, Linked, fleetVars
    <3>1. waiting[a] = "absent" /\ {a, instanceOf[a]} \subseteq subscribed
      BY DEF LinkInv, LinkedIsSettled
    <3>2. instanceOf[a] \in Instance /\ instanceOf[a] \notin pooled
      BY HandshakeAssumption DEF Linked, Inv, TypeOK, DomainTypeOK, OneToOne, LinkedNotOffered
    <3>3. ~InPool(a) /\ ~InPool(instanceOf[a])
      BY <3>1, <3>2, LinkManagerAssumption DEF InPool
    <3> QED
      BY <2>1, <3>1, <3>3 DEF StaleInPool
  <2> QED
    BY <2>2, <2>3, <2>4, <2>5, <2>6, <2>7 DEF LinkInv
<1> QED
  BY <1>3, <1>4

\* on_link is handed an agent of the pool and an instance of the pool without an agent.
LEMMA ConfirmedIsWanted ==
    ASSUME Inv, LinkInv, NEW a \in Subject, NEW x \in Effects, Tells(a, x), Narrows(a, x),
           x.act = "LINK"
    PROVE  /\ x.by \in Instance /\ ~Linked(a) /\ agentOf[x.by] = None
           /\ waiting[a] = "ready" /\ x.by \in pooled /\ x.by \in Engaged(a)
<1>1. x.by \in Instance /\ ~Held(handshakes[a]) /\ x.hs.receiver = x.by
  BY DEF Tells, Told
<1>2. ~Linked(a)
  BY <1>1 DEF Inv, LinkedIsEngaged, Held
<1>3. x.by \in Engaged(a)
  BY <1>1, HandshakeAssumption DEF Narrows, EngagedBy
<1>4. waiting[a] = "ready" /\ x.by \in pooled
  BY <1>3 DEF Narrows, LinkInv, FromPool
<1>5. agentOf[x.by] = None
  BY <1>1, <1>4 DEF Inv, LinkedNotOffered
<1> QED
  BY <1>1, <1>2, <1>3, <1>4, <1>5

\* The hooks: a confirmation takes both out of their pools, a release puts both back.
LEMMA ConcludeLinks ==
    ASSUME Inv, LinkInv, NEW a \in Subject, NEW x \in Effects, MayConclude(a, x), Conclude(a, x)
    PROVE  LinkInv'
<1>1. /\ CoordTypeOK /\ Apart /\ AtMostOne(x) /\ Tells(a, x) /\ Narrows(a, x)
      /\ waiting \in [Subject -> {"absent", "incomplete", "ready"}]
      /\ instanceOf \in [Subject -> Instance \cup {None}]
  BY DEF Inv, TypeOK, DomainTypeOK, LinkInv, MayConclude
<1>2. /\ handshakes' \in {[handshakes EXCEPT ![a] = x.hs], [handshakes EXCEPT ![a] = Retire(x.hs)]}
      /\ elections' = [elections EXCEPT ![a] = x.el]
  BY DEF Conclude, Perform, Interrupted, Effects
<1>3. /\ Apart' /\ \A b \in Subject : Engaged(b)' \subseteq Engaged(b)
      /\ \A b \in Subject : Open(handshakes'[b], elections'[b]) => Open(handshakes[b], elections[b])
  BY <1>1, <1>2, EffectApart
<1>4. /\ \A b \in Subject \ {a} : handshakes'[b] = handshakes[b]
      /\ handshakes'[a] \in {x.hs, Retire(x.hs)} /\ elections'[a] = x.el
  BY <1>1, <1>2 DEF CoordTypeOK
<1>5. handshakes'[a].state = "CONFIRMED" => handshakes'[a] = x.hs /\ x.hs.state = "CONFIRMED"
  BY <1>4 DEF Retire, NoInitiator
<1>6. CASE UNCHANGED domainVars /\ x.act # "LINK"
  <2>1. handshakes'[a].state = "CONFIRMED" =>
           handshakes[a].state = "CONFIRMED" /\ handshakes'[a].receiver = handshakes[a].receiver
    <3>1. x.act \in {"NOTHING", "RELEASE"}
      BY <1>6 DEF Conclude
    <3> QED
      BY <1>1, <1>5, <1>6, <3>1 DEF Narrows, Tells, Told, Held
  <2> QED
    BY <1>3, <1>4, <1>6, <2>1
       DEF LinkInv, domainVars, poolVars, guiVars, fleetVars, FromPool, InLine, Heard, NothingAsked,
           ConfirmedIsLinked, LinkedIsSettled, Linked
<1>7. CASE x.act = "LINK" /\ OnLink(a, x.by)
  <2> DEFINE i == x.by
  <2>1. /\ i \in Instance /\ ~Linked(a) /\ agentOf[i] = None
        /\ waiting[a] = "ready" /\ i \in pooled /\ i \in Engaged(a)
    BY <1>1, <1>7, ConfirmedIsWanted
  <2>2. /\ waiting' = [waiting EXCEPT ![a] = "absent"] /\ pooled' = pooled \ {i}
        /\ joined' = Leave({a, i}, joined) /\ instanceOf' = [instanceOf EXCEPT ![a] = i]
        /\ UNCHANGED <<questions, mode, subscribed>>
    BY <1>7, <2>1 DEF OnLink, TakeUp, Register, guiVars
  <2>3. x.hs.state = "CONFIRMED" /\ x.hs.receiver = i /\ x.el.candidates = {}
    BY <1>1, <1>7 DEF Tells, Told, AtMostOne
  <2> HIDE DEF i
  <2>4. handshakes'[a] = x.hs
    BY <1>4, <2>3 DEF Retire
  <2>5. FromPool'
    <3> SUFFICES ASSUME NEW b \in Subject, Open(handshakes'[b], elections'[b])
                 PROVE  waiting'[b] = "ready" /\ Engaged(b)' \subseteq pooled'
      BY DEF FromPool
    <3>1. b # a
      BY <1>4, <2>3, <2>4 DEF Open
    <3>2. waiting[b] = "ready" /\ Engaged(b) \subseteq pooled
      BY <1>3 DEF LinkInv, FromPool
    <3>3. i \notin Engaged(b)
      BY <1>1, <2>1, <3>1 DEF Apart
    <3> QED
      BY <1>1, <1>3, <2>2, <3>1, <3>2, <3>3
  <2>6. InLine(waiting', joined')
    BY <1>1, <2>1, <2>2, LinkManagerAssumption DEF LinkInv, InLine, Leave
  <2>7. Heard' /\ NothingAsked' /\ mode' \in LinkingModes
    BY <1>1, <2>2 DEF LinkInv, Heard, NothingAsked
  <2>8. ConfirmedIsLinked'
    BY <1>1, <1>4, <2>2, <2>3, <2>4 DEF LinkInv, ConfirmedIsLinked
  <2>9. LinkedIsSettled'
    BY <1>1, <2>1, <2>2 DEF LinkInv, LinkedIsSettled, Linked, Heard
  <2> QED
    BY <1>3, <2>5, <2>6, <2>7, <2>8, <2>9 DEF LinkInv
<1>8. CASE x.act = "RELEASE" /\ Linked(a) /\ OnRelease(a, x.by)
  <2> DEFINE alive == <<"fleet", a>> \notin stale
             order == IF alive THEN joined ELSE Leave({a}, joined)
             i == x.by
  <2>1. i \in Instance /\ i = instanceOf[a] /\ handshakes'[a].state # "CONFIRMED"
    BY <1>1, <1>5, <1>8 DEF Tells, Told, Inv, LinkedIsEngaged
  <2>2. waiting[a] = "absent" /\ {a, i} \subseteq subscribed /\ a \notin Instance
    BY <1>8, <2>1, LinkManagerAssumption DEF LinkInv, LinkedIsSettled
  <2>3. i \notin StaleInstances
    BY <2>1, LinkManagerAssumption DEF StaleInstances, Inv, TypeOK, DomainTypeOK
  <2>4. /\ waiting' = [waiting EXCEPT ![a] = IF alive THEN "ready" ELSE "absent"]
        /\ pooled' = pooled \cup {i}
        /\ instanceOf' = [instanceOf EXCEPT ![a] = None]
        /\ subscribed' = IF alive THEN subscribed ELSE subscribed \ {a}
        /\ UNCHANGED <<questions, mode>>
    BY <1>8, <2>3 DEF OnRelease, Unregister, guiVars
  <2>5. \A b, c \in Subject : b # a /\ c # a /\ <<b, c>> \in joined => <<b, c>> \in joined'
    BY <1>8, <2>3 DEF OnRelease, Join, Leave
  <2>6. alive => \A b \in Subject : waiting[b] # "absent" => <<b, a>> \in joined'
    <3> HAVE alive
    <3> TAKE b \in Subject
    <3> HAVE waiting[b] # "absent"
    <3>1. InPool(b) /\ ~InPool(a) /\ b \in Node
      BY <2>2 DEF InPool, Node
    <3>2. \A o : <<b, a>> \in Join(a, o)
      BY <3>1 DEF Join
    <3> QED
      BY <1>8, <3>2 DEF OnRelease
  <2> HIDE DEF i, alive
  <2>7. FromPool'
    <3> SUFFICES ASSUME NEW b \in Subject, Open(handshakes'[b], elections'[b])
                 PROVE  waiting'[b] = "ready" /\ Engaged(b)' \subseteq pooled'
      BY DEF FromPool
    <3>1. waiting[b] = "ready" /\ Engaged(b) \subseteq pooled
      BY <1>3 DEF LinkInv, FromPool
    <3> QED
      BY <1>1, <1>3, <2>2, <2>4, <3>1
  <2>8. InLine(waiting', joined')
    BY <1>1, <2>4, <2>5, <2>6 DEF LinkInv, InLine
  <2>9. Heard' /\ NothingAsked' /\ mode' \in LinkingModes
    BY <1>1, <2>1, <2>2, <2>4 DEF LinkInv, Heard, NothingAsked, Inv, TypeOK, DomainTypeOK
  <2>10. ConfirmedIsLinked'
    BY <1>1, <1>4, <2>1, <2>4 DEF LinkInv, ConfirmedIsLinked
  <2>11. LinkedIsSettled'
    BY <1>1, <2>2, <2>4, HandshakeAssumption, LinkManagerAssumption
       DEF LinkInv, LinkedIsSettled, Linked
  <2> QED
    BY <1>3, <2>7, <2>8, <2>9, <2>10, <2>11 DEF LinkInv
<1> QED
  BY <1>6, <1>7, <1>8 DEF Conclude

\* Every step keeps it.
LEMMA NextLinks == Directed /\ Inv /\ LinkInv /\ [Next]_vars => LinkInv'
<1> SUFFICES ASSUME Directed, Inv, LinkInv, [Next]_vars PROVE LinkInv'
  OBVIOUS
<1>1. CASE \/ \E i \in Instance : Route(i)
           \/ \E a \in Subject : Tick(a)
  <2>1. PICK a \in Subject, x \in Effects : MayConclude(a, x) /\ Conclude(a, x)
    BY <1>1, ConcludedBy
  <2> QED
    BY <2>1, ConcludeLinks
<1>2. CASE \/ World \/ UNCHANGED vars
           \/ \E n \in Node : Touch(n) \/ GoesQuiet(n)
           \/ \E i \in Instance : TwinState(i)
  <2>1. /\ handshakes' = handshakes /\ elections' = elections
        /\ UNCHANGED <<mode, questions, fleetVars, waiting, pooled, joined, subscribed>>
    <3>1. CASE World \/ UNCHANGED vars
      BY <3>1 DEF World, Environment, InstanceStep, Receive, Revoke, Complete, Announce,
                  ReservationLapses, Restart, Lose, LoseUp, LoseDown, CooldownOver, coordVars,
                  vars, domainVars, poolVars, guiVars
    <3>2. CASE (\E n \in Node : Touch(n) \/ GoesQuiet(n)) \/ (\E i \in Instance : TwinState(i))
      BY <3>2 DEF Touch, GoesQuiet, TwinState, coordVars, guiVars
    <3> QED
      BY <1>2, <3>1, <3>2
  <2>2. Apart' /\ \A a \in Subject : Engaged(a)' = Engaged(a)
    BY <2>1, ApartAlone DEF LinkInv
  <2> QED
    BY <2>1, <2>2 DEF LinkInv, fleetVars, FromPool, InLine, Heard, NothingAsked, ConfirmedIsLinked,
                      LinkedIsSettled, Linked
<1> QED
  BY <1>1, <1>2, MatchingLinks, WithdrawingLinks DEF Next

\* The constructor establishes it.
LEMMA InitLinks == Init => LinkInv
<1> SUFFICES ASSUME Init PROVE LinkInv
  OBVIOUS
<1>1. Apart /\ \A a \in Subject : handshakes[a] = NoInitiator /\ elections[a] = NoElection
  BY InitApart DEF Init, CoordInit
<1> QED
  BY <1>1, NobodyEngaged DEF Init, LinkInv, FromPool, InLine, Heard, NothingAsked,
     ConfirmedIsLinked, LinkedIsSettled, Linked, NoInitiator

\* No confirmation is ever refused: whatever is lost, restarted or goes quiet, a confirmed
\* conversation is a pair of the fleet.
THEOREM ConfirmedIsLinkedHolds ==
    ASSUME Directed
    PROVE  Spec => []ConfirmedIsLinked
<1>1. LinkInv => ConfirmedIsLinked
  BY DEF LinkInv
<1>2. Init => Inv /\ LinkInv
  BY InitEstablishes, InitLinks
<1>3. Inv /\ LinkInv /\ [Next]_vars => (Inv /\ LinkInv)'
  BY NextKeeps, NextLinks
<1> QED
  BY <1>1, <1>2, <1>3, PTL DEF Spec

\* Matching leaves everybody alone who is not ready.
LEMMA LinkPassSkips ==
    ASSUME CoordTypeOK, NEW m, NEW w, NEW pool \in SUBSET Instance, NEW order, NEW picks,
           LinkPass(m, w, pool, order, picks), NEW b \in Subject, w[b] # "ready"
    PROVE  handshakes'[b] = handshakes[b] /\ elections'[b] = elections[b]
<1>1. b \notin Ready(w)
  BY DEF Ready
<1>2. CASE m = "POOLED"
  BY <1>1, <1>2 DEF LinkPass, PooledPass, OpenRequests
<1>3. CASE m = "AUCTION"
  <2>1. AuctionPass(w, pool, order, picks)
    BY <1>3 DEF LinkPass
  <2>2. CASE UNCHANGED coordVars
    BY <2>2 DEF coordVars
  <2>3. ASSUME NEW a \in FirstOf(Ready(w), order), Elect(a, FreeInstances(pool))
        PROVE  handshakes'[b] = handshakes[b] /\ elections'[b] = elections[b]
    <3>1. a # b
      BY <1>1 DEF FirstOf
    <3> QED
      BY <2>3, <3>1 DEF Elect, OpenElections
  <2> QED
    BY <2>1, <2>2, <2>3 DEF AuctionPass
<1>4. CASE m \notin {"POOLED", "AUCTION"}
  <2>1. DirectedPass(m, w, pool, order, picks)
    BY <1>4 DEF LinkPass
  <2>2. PICK ask \in [Subject -> SUBSET Instance] :
           /\ \A a \in Subject : a \notin Ready(w) => ask[a] = {}
           /\ OpenRequests({a \in Subject : ask[a] # {}}, ask)
    BY <2>1 DEF DirectedPass
  <2> QED
    BY <1>1, <2>2 DEF OpenRequests
<1> QED
  BY <1>2, <1>3, <1>4

\* Whoever loses a confirmed conversation loses it to the operator or to a death.
LEMMA WithdrawnForAReason ==
    ASSUME Directed, Inv, LinkInv, Next, NEW a \in Subject,
           handshakes[a].state = "CONFIRMED", handshakes'[a].state = "CANCELLED"
    PROVE  Release(a) \/ a \in StalePairs
<1>1. /\ CoordTypeOK /\ handshakes[a].state # "NONE" /\ InFlight(a)
      /\ Linked(a) /\ instanceOf[a] \in Instance
  BY HandshakeAssumption
     DEF Inv, TypeOK, DomainTypeOK, LinkInv, ConfirmedIsLinked, InFlight, HasHandshake,
         CoordTypeOK, Initiator, InitiatorRecord, Linked
<1>2. waiting[a] = "absent" /\ ~InPool(a) /\ instanceOf[a] \notin pooled
  <2>1. waiting[a] = "absent"
    BY <1>1 DEF LinkInv, LinkedIsSettled
  <2>2. agentOf[instanceOf[a]] = a
    BY <1>1 DEF Inv, OneToOne
  <2> QED
    BY <1>1, <2>1, <2>2, HandshakeAssumption DEF InPool, Inv, LinkedNotOffered
<1>3. CASE \/ \E i \in Instance : Route(i)
           \/ \E b \in Subject : Tick(b)
  <2>1. PICK b \in Subject, x \in Effects : Tells(b, x) /\ Conclude(b, x)
    BY <1>3, ConcludedBy DEF MayConclude
  <2>2. handshakes' \in {[handshakes EXCEPT ![b] = x.hs], [handshakes EXCEPT ![b] = Retire(x.hs)]}
    BY <2>1 DEF Conclude, Perform, Interrupted, Effects
  <2>3. a = b /\ handshakes'[a] \in {x.hs, Retire(x.hs)}
    BY <1>1, <2>2 DEF CoordTypeOK
  <2>4. x.hs.state = "CANCELLED"
    BY <2>3 DEF Retire, NoInitiator
  <2> QED
    BY <2>1, <2>3, <2>4 DEF Conclude, Tells, Told, Held
<1>4. CASE Sweep
  <2>1. CancelAndForget(Abandoned, StaleInPool \cap Subject)
    BY <1>4 DEF Sweep
  <2>2. a \in Abandoned
    BY <2>1 DEF CancelAndForget
  <2>3. a \notin StaleInPool
    BY <1>2 DEF StaleInPool
  <2>4. ASSUME NEW i \in StaleInPool \cap Instance PROVE a \notin SubjectsOn(i)
    <3>1. i \in pooled
      BY LinkManagerAssumption DEF StaleInPool, InPool
    <3>2. EngagedBy(handshakes[a]) \subseteq {instanceOf[a]}
      BY <1>1, HandshakeAssumption DEF EngagedBy, Inv, LinkedIsEngaged
    <3>3. EngagedIn(elections[a]) = {}
      <4>1. ~HasElection(a)
        BY <1>1 DEF Inv, OneDict, HasHandshake
      <4> QED
        BY <1>1, <4>1 DEF EngagedIn, HasElection, LinkInv, Apart, Counted
    <3> QED
      BY <1>2, <3>1, <3>2, <3>3 DEF SubjectsOn, Engaged
  <2> QED
    BY <2>2, <2>3, <2>4 DEF Abandoned
<1>5. ASSUME NEW b \in Subject, Release(b) PROVE Release(a)
  BY <1>5 DEF Release, Cancel, CancelAndForget
<1>6. CASE \/ Link
           \/ \E b \in Subject, i \in Instance : GuiChooseInstance(b, i)
           \/ \E m \in LinkingModes : SetLinkingMode(m)
           \/ \E b \in Subject : OnAgentDiscovered(b)
           \/ \E i \in Instance : OnInstanceDiscovered(i)
  <2>1. /\ pooled \in SUBSET Instance
        /\ waiting \in [Subject -> {"absent", "incomplete", "ready"}]
    BY DEF Inv, TypeOK, DomainTypeOK
  <2>2. ASSUME NEW m, NEW w, NEW pool \in SUBSET Instance, NEW order, NEW picks,
               LinkPass(m, w, pool, order, picks), w[a] # "ready"
        PROVE  FALSE
    BY <1>1, <2>2, LinkPassSkips
  <2>3. ASSUME NEW m, NEW picks, LinkPass(m, waiting, pooled, joined, picks)
        PROVE  FALSE
    BY <1>2, <2>1, <2>2, <2>3
  <2>4. ASSUME NEW b \in Subject, OnAgentDiscovered(b) PROVE FALSE
    <3>1. waiting'[a] # "ready" /\ LinkPass(mode, waiting', pooled, joined', choice)
      BY <1>1, <1>2, <2>1, <2>4 DEF OnAgentDiscovered, AlreadyHandled, Wait
    <3> QED
      BY <2>1, <2>2, <3>1
  <2>5. ASSUME NEW i \in Instance, OnInstanceDiscovered(i) PROVE FALSE
    <3>1. pooled' \in SUBSET Instance /\ LinkPass(mode, waiting, pooled', joined', choice)
      BY <2>1, <2>5 DEF OnInstanceDiscovered, JoinPool
    <3> QED
      BY <1>2, <2>2, <3>1
  <2> QED
    BY <1>6, <2>3, <2>4, <2>5 DEF Link, GuiChooseInstance, SetLinkingMode
<1>7. ASSUME NEW b \in Subject, OnAgentIncomplete(b) \/ GuiConfirmAgent(b) \/ GuiRejectAgent(b)
      PROVE  FALSE
  BY <1>7 DEF Directed, LinkInv, NothingAsked, OnAgentIncomplete, GuiConfirmAgent, GuiRejectAgent
<1>8. CASE \/ World
           \/ \E n \in Node : Touch(n) \/ GoesQuiet(n)
           \/ \E i \in Instance : TwinState(i)
  BY <1>8 DEF World, Environment, InstanceStep, Receive, Revoke, Complete, Announce,
              ReservationLapses, Restart, Lose, LoseUp, LoseDown, CooldownOver, coordVars,
              Touch, GoesQuiet, TwinState
<1> QED
  BY <1>3, <1>4, <1>5, <1>6, <1>7, <1>8 DEF Next

\* The aggregate never gives up a confirmed pair of its own accord: it was told to, or a
\* half of the pair went quiet in the fleet.
THEOREM HealthyPairsKeptHolds ==
    ASSUME Directed
    PROVE  Spec => HealthyPairsKept
<1>1. Init => Inv /\ LinkInv
  BY InitEstablishes, InitLinks
<1>2. Inv /\ LinkInv /\ [Next]_vars => (Inv /\ LinkInv)'
  BY NextKeeps, NextLinks
<1>3. Inv /\ LinkInv /\ [Next]_vars =>
        [\A a \in Subject : handshakes[a].state = "CONFIRMED" /\ handshakes'[a].state = "CANCELLED"
            => Release(a) \/ a \in StalePairs]_vars
  BY WithdrawnForAReason
<1> QED
  BY <1>1, <1>2, <1>3, PTL DEF Spec, HealthyPairsKept

\* A pass that takes a pick off the list has directed a request at it, or would have
\* but for the cooldown.
LEMMA PassHonours ==
    ASSUME NEW m, NEW w, NEW pool, NEW order, NEW picks, LinkPass(m, w, pool, order, picks),
           NEW a \in Subject, choice'[a] = None, picks[a] # None
    PROVE  \/ handshakes'[a].state = "REQUESTED" /\ handshakes'[a].asked = {picks[a]}
           \/ <<a, picks[a]>> \in cooling
<1>1. m \notin {"POOLED", "AUCTION"}
  BY DEF LinkPass, PooledPass, AuctionPass
<1>2. DirectedPass(m, w, pool, order, picks)
  BY <1>1 DEF LinkPass
<1> DEFINE Left(ask, b) == FreeInstances(pool)
                             \ UNION {ask[c] : c \in {x \in Ready(w) : <<x, b>> \in order}}
           Wanted(ask, b) == IF m = "GUI" THEN {picks[b]} \cap Left(ask, b)
                             ELSE FirstOf(Left(ask, b), order)
<1>3. PICK ask \in [Subject -> SUBSET Instance] :
         /\ \A b \in Subject :
               ask[b] = IF b \in Ready(w) THEN {i \in Wanted(ask, b) : <<b, i>> \notin cooling}
                        ELSE {}
         /\ OpenRequests({b \in Subject : ask[b] # {}}, ask)
         /\ choice' = [b \in Subject |-> IF m = "GUI" /\ b \in Ready(w) /\ Wanted(ask, b) # {}
                                         THEN None ELSE picks[b]]
  BY <1>2 DEF DirectedPass
<1>4. m = "GUI" /\ a \in Ready(w) /\ Wanted(ask, a) # {}
  <2> HIDE DEF Wanted
  <2> QED
    BY <1>3
<1>5. Wanted(ask, a) = {picks[a]} \cap Left(ask, a)
  BY <1>4
<1> HIDE DEF Wanted, Left
<1>6. Wanted(ask, a) = {picks[a]}
  BY <1>4, <1>5
<1>7. ask[a] = {i \in {picks[a]} : <<a, i>> \notin cooling}
  BY <1>3, <1>4, <1>6
<1>8. CASE <<a, picks[a]>> \notin cooling
  <2>1. ask[a] = {picks[a]}
    BY <1>7, <1>8
  <2> QED
    BY <1>3, <2>1 DEF OpenRequests, Requested
<1> QED
  BY <1>4, <1>8

\* One step at a time: only matching takes picks away.
LEMMA StepHonours ==
    ASSUME TypeOK, Next, NEW a \in Subject, choice[a] # None, choice'[a] = None, mode' = "GUI"
    PROVE  \E i \in Instance :
              /\ Pick(a, i)
              /\ \/ handshakes'[a].state = "REQUESTED" /\ handshakes'[a].asked = {i}
                 \/ <<a, i>> \in cooling
<1> DEFINE Honoured(i) == \/ handshakes'[a].state = "REQUESTED" /\ handshakes'[a].asked = {i}
                          \/ <<a, i>> \in cooling
<1>1. ASSUME NEW m, NEW w, NEW pool, NEW order, LinkPass(m, w, pool, order, choice)
      PROVE  choice[a] \in Instance /\ Honoured(choice[a])
  BY <1>1, PassHonours DEF TypeOK, DomainTypeOK
<1>2. CASE \/ Link
           \/ \E b \in Subject : OnAgentDiscovered(b) \/ GuiConfirmAgent(b)
           \/ \E i \in Instance : OnInstanceDiscovered(i)
           \/ \E m \in LinkingModes : SetLinkingMode(m)
  <2>1. \E m, w, pool, order : LinkPass(m, w, pool, order, choice)
    BY <1>2 DEF Link, OnAgentDiscovered, GuiConfirmAgent, OnInstanceDiscovered, SetLinkingMode,
                Wait, JoinPool
  <2> QED
    BY <1>1, <2>1 DEF Pick
<1>3. ASSUME NEW b \in Subject, NEW i \in Instance, GuiChooseInstance(b, i)
      PROVE  \E j \in Instance : Pick(a, j) /\ Honoured(j)
  <2> DEFINE picks == [choice EXCEPT ![b] = i]
  <2>1. LinkPass(mode, waiting, pooled, joined, picks)
    BY <1>3 DEF GuiChooseInstance
  <2>2. picks[a] = choice[a] \/ (a = b /\ picks[a] = i)
    OBVIOUS
  <2>3. picks[a] # None
    BY <2>2, HandshakeAssumption
  <2> HIDE DEF picks
  <2>4. Honoured(picks[a])
    BY <2>1, <2>3, PassHonours
  <2>5. picks[a] \in Instance
    BY <2>2 DEF TypeOK, DomainTypeOK
  <2> QED
    BY <1>3, <2>2, <2>4, <2>5 DEF Pick
<1>4. CASE \/ Sweep \/ World
           \/ \E b \in Subject : OnAgentIncomplete(b) \/ GuiRejectAgent(b) \/ Release(b)
           \/ \E n \in Node : Touch(n) \/ GoesQuiet(n)
           \/ \E i \in Instance : TwinState(i)
  <2>1. UNCHANGED choice \/ UNCHANGED guiVars \/ UNCHANGED domainVars
    BY <1>4 DEF Sweep, World, OnAgentIncomplete, GuiRejectAgent, Release, Touch, GoesQuiet,
                TwinState
  <2> QED
    BY <2>1 DEF domainVars, guiVars
<1>5. CASE \/ \E i \in Instance : Route(i)
           \/ \E b \in Subject : Tick(b)
  <2>1. PICK b, x : Conclude(b, x)
    BY <1>5 DEF Route, Tick
  <2>2. UNCHANGED domainVars \/ UNCHANGED guiVars
    BY <2>1, Zenon DEF Conclude, OnLink, TakeUp, OnRelease
  <2> QED
    BY <2>2 DEF domainVars, guiVars
<1> QED
  BY <1>2, <1>3, <1>4, <1>5 DEF Next

\* Nobody's pick is lost on the way: in every mode, with any number of agents waiting for
\* any number of instances, it is asked for, replaced, dropped with the mode or cooling.
THEOREM PicksAreHonouredHolds == Spec => PicksAreHonoured
<1>1. TypeOK /\ [Next]_vars =>
        [\A a \in Subject : choice[a] # None /\ choice'[a] = None =>
            \/ mode' # "GUI"
            \/ \E i \in Instance :
                  /\ Pick(a, i)
                  /\ \/ handshakes'[a].state = "REQUESTED" /\ handshakes'[a].asked = {i}
                     \/ <<a, i>> \in cooling]_vars
  BY StepHonours
<1> QED
  BY <1>1, TypeCorrect, PTL DEF Spec, PicksAreHonoured

-----------------------------------------------------------------------------
(* Behind the console: any number of threads, commands and agents, and     *)
(* everything the theorems above leave possible underneath.                *)

Verdict == {"approve", "reject"}

\* What the HTTP threads queue: every verb with the arguments its method takes.
Commanded ==
    {c \in [verb : Verdict \cup {"choose", "release", "mode"}, agent : Subject \cup {None},
            arg : Instance \cup LinkingModes \cup {None}] :
        /\ c.verb # "mode" => c.agent \in Subject
        /\ c.verb = "mode" => c.arg \in LinkingModes
        /\ c.verb = "choose" => c.arg \in Instance}

GatewayTypeOK ==
    /\ autocomplete \in BOOLEAN
    /\ reviews \in [Thread -> [agents : SUBSET Subject, verdict : Verdict \cup {"none", "all"}]]
    /\ \A t \in Thread : reviews[t].agents # {} => reviews[t].verdict \in Verdict
    /\ commands \in Seq(Commanded)

MonitorTypeOK ==
    /\ phase = [a \in Subject |-> phase[a]]
    /\ interrupted \in SUBSET Subject

\* An agent that waits for the operator is idle: a conversation, or a pair, found
\* when its question was raised has been noted.
IncompleteIsIdle == \A a \in Subject : waiting[a] = "incomplete" =>
    a \in interrupted \/ (~AlreadyHandled(a) /\ (a \in questions \/ VerdictDue(a)))

\* Nobody is linked and on offer.
LinkedNotReady == \A a \in Subject : Linked(a) => waiting[a] # "ready"

ConsoleInv == /\ Inv /\ GatewayTypeOK /\ MonitorTypeOK
              /\ IncompleteIsIdle /\ LinkedNotReady /\ PhasesAreTrue

\* The announcement being handled is an agent's.
HandlingTypeOK == handling # None => handling \in [agent : Subject, complete : BOOLEAN]

-----------------------------------------------------------------------------
(* Commands                                                                *)

\* A command joins the end of the queue: no verdict gets lost.
LEMMA QueueKeeps ==
    ASSUME commands \in Seq(Commanded), NEW c \in Commanded, Queue(c)
    PROVE  /\ commands' \in Seq(Commanded)
           /\ \A a \in Subject : VerdictDue(a) => VerdictDue(a)'
           /\ c.agent \in Subject /\ c.verb \in Verdict => VerdictDue(c.agent)'
<1>1. /\ commands' = Append(commands, c) /\ commands' \in Seq(Commanded)
      /\ DOMAIN commands = 1 .. Len(commands) /\ DOMAIN commands' = 1 .. (Len(commands) + 1)
      /\ Len(commands) \in Nat
  BY DEF Queue
<1>2. \A k \in 1 .. Len(commands) : commands'[k] = commands[k]
  BY <1>1
<1>3. commands'[Len(commands) + 1] = c /\ Len(commands) + 1 \in DOMAIN commands'
  BY <1>1
<1>4. ASSUME NEW a \in Subject, VerdictDue(a) PROVE VerdictDue(a)'
  <2>1. PICK k \in 1 .. Len(commands) : commands[k].agent = a /\ commands[k].verb \in Verdict
    BY <1>1, <1>4 DEF VerdictDue, Verdict
  <2>2. k \in DOMAIN commands' /\ commands'[k] = commands[k]
    BY <1>1, <1>2, <2>1
  <2> QED
    BY <2>1, <2>2 DEF VerdictDue, Verdict
<1>5. c.verb \in Verdict => VerdictDue(c.agent)'
  BY <1>3 DEF VerdictDue, Verdict
<1> QED
  BY <1>1, <1>4, <1>5

\* The command that runs leaves the queue: the verdicts about others stay.
LEMMA DueKeeps ==
    ASSUME commands \in Seq(Commanded), NEW verb, Due(verb)
    PROVE  /\ commands' \in Seq(Commanded)
           /\ Head(commands) \in Commanded /\ Head(commands).verb = verb
           /\ \A a \in Subject : VerdictDue(a) =>
                 VerdictDue(a)' \/ (a = Head(commands).agent /\ verb \in Verdict)
<1>1. /\ commands' = Tail(commands) /\ commands' \in Seq(Commanded)
      /\ Len(commands) \in Nat \ {0} /\ Head(commands) = commands[1]
      /\ DOMAIN commands = 1 .. Len(commands) /\ DOMAIN commands' = 1 .. (Len(commands) - 1)
      /\ Head(commands) \in Commanded /\ Head(commands).verb = verb
  BY DEF Due
<1>2. \A k \in 1 .. (Len(commands) - 1) : commands'[k] = commands[k + 1]
  BY <1>1
<1>3. ASSUME NEW a \in Subject, VerdictDue(a), ~(a = Head(commands).agent /\ verb \in Verdict)
      PROVE  VerdictDue(a)'
  <2>1. PICK k \in 1 .. Len(commands) : commands[k].agent = a /\ commands[k].verb \in Verdict
    BY <1>1, <1>3 DEF VerdictDue, Verdict
  <2>2. k # 1
    BY <1>1, <1>3, <2>1
  <2>3. k - 1 \in 1 .. (Len(commands) - 1) /\ commands'[k - 1] = commands[k]
    BY <1>1, <1>2, <2>1, <2>2
  <2> QED
    BY <1>1, <2>1, <2>3 DEF VerdictDue, Verdict
<1> QED
  BY <1>1, <1>3

-----------------------------------------------------------------------------
(* Whoever waits for the operator stays idle                               *)

\* A step that starts no conversation with an agent that waits for the operator, and
\* takes its question off the list only with a verdict, keeps IncompleteIsIdle.
LEMMA WaitersKept ==
    ASSUME IncompleteIsIdle,
           \A a \in Subject : waiting'[a] = "incomplete" =>
              \/ /\ waiting[a] = "incomplete"
                 /\ a \in interrupted => a \in interrupted'
                 /\ ~AlreadyHandled(a) => ~AlreadyHandled(a)'
                 /\ a \in questions \/ VerdictDue(a) => a \in questions' \/ VerdictDue(a)'
              \/ a \in interrupted'
              \/ ~AlreadyHandled(a)' /\ a \in questions'
    PROVE  IncompleteIsIdle'
BY DEF IncompleteIsIdle

\* A step keeps LinkedNotReady unless it offers a linked agent or links an offered one.
LEMMA OfferedKept ==
    ASSUME LinkedNotReady,
           \A a \in Subject : waiting'[a] = "ready" =>
              ~Linked(a)' \/ (waiting[a] = "ready" /\ (Linked(a)' => Linked(a)))
    PROVE  LinkedNotReady'
BY DEF LinkedNotReady

\* cancel() and forget() begin nothing.
LEMMA CancelBeginsNothing ==
    ASSUME CoordTypeOK, NEW who, NEW gone, CancelAndForget(who, gone),
           NEW b \in Subject, ~InFlight(b)
    PROVE  ~InFlight(b)'
<1>1. CancelEffect(b).hs = handshakes[b] /\ handshakes[b].state = "NONE"
  BY DEF CancelEffect, InFlight, HasHandshake, Effect
<1>2. handshakes'[b] = handshakes[b]
  BY <1>1 DEF CancelAndForget, Retire, InFlight, HasHandshake
<1>3. elections'[b] = elections[b] \/ elections'[b] = NoElection
  BY DEF CancelAndForget
<1> QED
  BY <1>2, <1>3, NobodyAsked DEF InFlight, HasHandshake, HasElection

-----------------------------------------------------------------------------
(* What the hooks make of a step                                           *)

\* The phase a hook gives an agent stands, unless its request goes out.
LEMMA SeesTheTruth ==
    ASSUME NEW moved, Sees(moved),
           \A a \in Subject :
              LET seen == IF a \in DOMAIN moved THEN moved[a] ELSE phase[a]
              IN  /\ seen = "linked" => Linked(a)'
                  /\ Linked(a)' => seen = "linked" \/ a \in interrupted'
    PROVE  PhasesAreTrue' /\ phase' = [a \in Subject |-> phase'[a]]
<1> DEFINE seen(a) == IF a \in DOMAIN moved THEN moved[a] ELSE phase[a]
<1>1. phase' = [a \in Subject |-> IF RequestGoesOut(a) /\ seen(a) # "linked" THEN "requested"
                                  ELSE seen(a)]
  BY DEF Sees
<1>2. \A a \in Subject : /\ seen(a) = "linked" => Linked(a)'
                         /\ Linked(a)' => seen(a) = "linked" \/ a \in interrupted'
  OBVIOUS
<1> HIDE DEF seen
<1>3. \A a \in Subject : (phase'[a] = "requested" /\ seen(a) # "linked")
                           \/ phase'[a] = seen(a)
  BY <1>1
<1>4. \A a \in Subject : /\ phase'[a] = "linked" => Linked(a)'
                         /\ Linked(a)' => phase'[a] = "linked" \/ a \in interrupted'
  BY <1>2, <1>3
<1> QED
  BY <1>1, <1>4 DEF PhasesAreTrue

\* A step that leaves the fleet alone, and that no hook takes notice of.
LEMMA NothingSeen ==
    ASSUME PhasesAreTrue, UNCHANGED instanceOf, interrupted \subseteq interrupted', SeesNothing
    PROVE  PhasesAreTrue' /\ phase' = [a \in Subject |-> phase'[a]]
BY SeesTheTruth DEF SeesNothing, PhasesAreTrue, Linked

\* Whatever a conversation told the link manager, the phase is right afterwards, and
\* nobody else's pool entry or pair was touched.
LEMMA ConcludeSeen ==
    ASSUME ConsoleInv, RespondersTypeOK', NEW a \in Subject, NEW x \in Effects,
           AtMostOne(x), Tells(a, x), Conclude(a, x), Sees(Concluded(a, x)),
           UNCHANGED <<gatewayVars, interrupted>>,
           InFlight(a) \/ (x.act = "NOTHING" /\ x.hs = NoInitiator /\ x.el = NoElection)
    PROVE  ConsoleInv'
<1>1. Inv' /\ Inv /\ CoordTypeOK /\ DomainTypeOK
  BY ConcludeKeeps DEF ConsoleInv, Inv, TypeOK
<1>2. /\ questions' = questions
      /\ \A b \in Subject \ {a} : waiting'[b] = waiting[b] /\ instanceOf'[b] = instanceOf[b]
      /\ waiting'[a] = "incomplete" => waiting[a] = "incomplete"
      /\ waiting'[a] = "ready" => instanceOf'[a] = None \/ (UNCHANGED instanceOf /\ waiting[a] = "ready")
      /\ \/ UNCHANGED instanceOf
         \/ x.act = "LINK" /\ instanceOf'[a] = x.by
         \/ x.act = "RELEASE" /\ instanceOf'[a] = None
  <2>1. CASE UNCHANGED domainVars
    BY <2>1 DEF domainVars, poolVars, guiVars, fleetVars
  <2>2. CASE x.act = "LINK" /\ TakeUp(a, x.by)
    BY <1>1, <2>2 DEF TakeUp, Register, guiVars, fleetVars, DomainTypeOK
  <2>3. CASE x.act = "RELEASE" /\ OnRelease(a, x.by)
    BY <1>1, <2>3 DEF OnRelease, Unregister, guiVars, DomainTypeOK
  <2> QED
    BY <2>1, <2>2, <2>3 DEF Conclude, OnLink
<1>3. /\ \A b \in Subject \ {a} : InFlight(b)' <=> InFlight(b)
      /\ x.hs = NoInitiator /\ x.el = NoElection => ~InFlight(a)'
  <2>1. CASE Interrupted(a, x)
    BY <1>1, <2>1, NobodyAsked
       DEF Interrupted, CoordTypeOK, InFlight, HasHandshake, HasElection, NoInitiator
  <2>2. CASE Perform(a, x)
    <3>1. /\ handshakes' = [handshakes EXCEPT ![a] = Retire(x.hs)]
          /\ elections' = [elections EXCEPT ![a] = x.el]
      BY <2>2 DEF Perform, Interrupted, Effects
    <3>2. Retire(NoInitiator).state = "NONE"
      BY DEF Retire, NoInitiator
    <3> QED
      BY <1>1, <3>1, <3>2, NobodyAsked DEF CoordTypeOK, InFlight, HasHandshake, HasElection
  <2> QED
    BY <2>1, <2>2 DEF Conclude
<1>4. IncompleteIsIdle'
  <2>1. \A b \in Subject : VerdictDue(b)' <=> VerdictDue(b)
    BY DEF VerdictDue, gatewayVars
  <2>2. ASSUME NEW b \in Subject, waiting'[b] = "incomplete"
        PROVE  \/ /\ waiting[b] = "incomplete"
                  /\ b \in interrupted => b \in interrupted'
                  /\ ~AlreadyHandled(b) => ~AlreadyHandled(b)'
                  /\ b \in questions \/ VerdictDue(b) => b \in questions' \/ VerdictDue(b)'
               \/ b \in interrupted'
               \/ ~AlreadyHandled(b)' /\ b \in questions'
    <3>1. waiting[b] = "incomplete"
      BY <1>2, <2>2
    <3>2. CASE b # a
      BY <1>2, <1>3, <2>1, <3>1, <3>2 DEF AlreadyHandled, Linked
    <3>3. CASE b = a /\ InFlight(a)
      BY <3>1, <3>3 DEF ConsoleInv, IncompleteIsIdle, AlreadyHandled
    <3>4. CASE b = a /\ x.act = "NOTHING" /\ x.hs = NoInitiator /\ x.el = NoElection
      BY <1>2, <1>3, <2>1, <3>1, <3>4 DEF AlreadyHandled, Linked
    <3> QED
      BY <3>2, <3>3, <3>4
  <2> QED
    BY <2>2, WaitersKept DEF ConsoleInv
<1>5. PhasesAreTrue' /\ phase' = [b \in Subject |-> phase'[b]]
  <2> DEFINE moved == Concluded(a, x)
             seen(b) == IF b \in DOMAIN moved THEN moved[b] ELSE phase[b]
  <2>1. PhasesAreTrue
    BY DEF ConsoleInv
  <2>2. ASSUME NEW b \in Subject \ {a}
        PROVE  seen(b) = phase[b] /\ (Linked(b)' <=> Linked(b))
    BY <1>2, <2>2 DEF Concluded, Linked
  <2>3. x.act = "LINK" => /\ x.by \in Instance /\ ~Linked(a)
                          /\ seen(a) = IF instanceOf'[a] = x.by THEN "linked" ELSE phase[a]
    BY DEF Concluded, ConsoleInv, Inv, LinkedIsEngaged, Tells, Told, Held
  <2>4. x.act = "RELEASE" => seen(a) = "released" /\ instanceOf'[a] = None
    <3>1. ASSUME ~Linked(a), UNCHANGED domainVars PROVE instanceOf'[a] = None
      BY <3>1 DEF Linked, domainVars, fleetVars
    <3>2. ASSUME OnRelease(a, x.by) PROVE instanceOf'[a] = None
      BY <1>1, <3>2 DEF OnRelease, Unregister, DomainTypeOK
    <3>3. x.act = "RELEASE" => (~Linked(a) /\ UNCHANGED domainVars) \/ OnRelease(a, x.by)
      BY DEF Conclude
    <3>4. x.act = "RELEASE" => seen(a) = "released"
      BY DEF Concluded
    <3> QED
      BY <3>1, <3>2, <3>3, <3>4
  <2>5. x.act \notin {"LINK", "RELEASE"} => seen(a) = phase[a] /\ UNCHANGED instanceOf
    BY <1>2 DEF Concluded
  <2> HIDE DEF seen
  <2>6. /\ seen(a) = "linked" => Linked(a)'
        /\ Linked(a)' => seen(a) = "linked" \/ a \in interrupted'
    <3>1. CASE x.act = "LINK"
      BY <1>2, <2>1, <2>3, <3>1, HandshakeAssumption DEF PhasesAreTrue, Linked
    <3>2. CASE x.act = "RELEASE"
      BY <2>4, <3>2 DEF Linked
    <3>3. CASE x.act \notin {"LINK", "RELEASE"}
      BY <2>1, <2>5, <3>3 DEF PhasesAreTrue, Linked
    <3> QED
      BY <3>1, <3>2, <3>3
  <2>7. \A b \in Subject : /\ seen(b) = "linked" => Linked(b)'
                           /\ Linked(b)' => seen(b) = "linked" \/ b \in interrupted'
    BY <2>1, <2>2, <2>6 DEF PhasesAreTrue
  <2> USE DEF seen
  <2> HIDE DEF moved
  <2> QED
    BY <2>7, SeesTheTruth DEF moved
<1>6. GatewayTypeOK' /\ MonitorTypeOK'
  BY <1>5 DEF ConsoleInv, GatewayTypeOK, MonitorTypeOK, gatewayVars
<1>7. LinkedNotReady'
  BY <1>2, OfferedKept DEF ConsoleInv, Linked
<1> QED
  BY <1>1, <1>4, <1>5, <1>6, <1>7 DEF ConsoleInv

-----------------------------------------------------------------------------
(* The HTTP threads                                                        *)

\* Reading, refusing, answering and queueing on any thread at any moment.
LEMMA ThreadsKeep ==
    ASSUME ConsoleInv,
           \/ \E t \in Thread :
                 \/ \E a \in Subject, verdict \in Verdict : ReadReview(t, a, verdict)
                 \/ Refuse(t) \/ Submit(t) \/ ListQuestions(t)
                 \/ \E enabled \in BOOLEAN : SetAutocomplete(t, enabled)
           \/ \E a \in Subject : ReleasePair(a) \/ \E i \in Instance : LinkPair(a, i)
           \/ \E m \in LinkingModes : ChangeMode(m)
    PROVE  ConsoleInv'
<1>1. /\ GatewayTypeOK /\ MonitorTypeOK /\ IncompleteIsIdle /\ LinkedNotReady
      /\ PhasesAreTrue /\ Inv /\ DomainTypeOK
  BY DEF ConsoleInv, Inv, TypeOK
<1>2. UNCHANGED <<monitorVars, coordVars, responderVars, poolVars, fleetVars, mode, choice, upsets>>
  BY DEF ReadReview, Refuse, Submit, SetAutocomplete, ListQuestions, ReleasePair, LinkPair, ChangeMode,
         vars, domainVars, guiVars
<1>3. MonitorTypeOK' /\ LinkedNotReady' /\ PhasesAreTrue'
  BY <1>1, <1>2 DEF MonitorTypeOK, LinkedNotReady, PhasesAreTrue, Linked, monitorVars, poolVars,
                    fleetVars
<1>4. ASSUME questions' \subseteq questions PROVE Inv'
  BY <1>1, <1>2, <1>4
     DEF Inv, TypeOK, CoordTypeOK, RespondersTypeOK, DomainTypeOK, OneDict, HasHandshake,
         HasElection, OneToOne, LinkedIsEngaged, LinkedNotOffered, Linked, coordVars,
         responderVars, poolVars, fleetVars
<1>5. \A a \in Subject : AlreadyHandled(a)' <=> AlreadyHandled(a)
  BY <1>2 DEF AlreadyHandled, Linked, InFlight, HasHandshake, HasElection, coordVars, fleetVars
<1>6. ASSUME \A a \in Subject : \/ a \in questions \/ VerdictDue(a)
                                => a \in questions' \/ VerdictDue(a)'
      PROVE  IncompleteIsIdle'
  BY <1>1, <1>2, <1>5, <1>6, WaitersKept DEF poolVars, monitorVars
<1>7. ASSUME UNCHANGED <<questions, commands>> PROVE IncompleteIsIdle' /\ Inv'
  BY <1>4, <1>6, <1>7 DEF VerdictDue
<1>8. ASSUME NEW c \in Commanded, Queue(c), UNCHANGED <<questions, reviews, autocomplete>>
      PROVE  ConsoleInv'
  <2>1. /\ commands' \in Seq(Commanded)
        /\ \A a \in Subject : VerdictDue(a) => VerdictDue(a)'
    BY <1>1, <1>8, QueueKeeps DEF GatewayTypeOK
  <2>2. IncompleteIsIdle' /\ Inv'
    BY <1>4, <1>6, <1>8, <2>1
  <2> QED
    BY <1>1, <1>3, <1>8, <2>1, <2>2 DEF ConsoleInv, GatewayTypeOK
<1>9. ASSUME NEW t \in Thread, NEW a \in Subject, NEW verdict \in Verdict, ReadReview(t, a, verdict)
      PROVE  ConsoleInv'
  <2>1. /\ reviews' = [reviews EXCEPT ![t] = [agents |-> {a}, verdict |-> verdict]]
        /\ UNCHANGED <<questions, commands, autocomplete>>
    BY <1>9 DEF ReadReview, vars, domainVars, guiVars
  <2>2. GatewayTypeOK'
    BY <1>1, <2>1 DEF GatewayTypeOK
  <2> QED
    BY <1>3, <1>7, <2>1, <2>2 DEF ConsoleInv
<1>10. ASSUME NEW t \in Thread, Refuse(t) PROVE ConsoleInv'
  <2>1. /\ reviews' = [reviews EXCEPT ![t] = NoReview]
        /\ UNCHANGED <<questions, commands, autocomplete>>
    BY <1>10 DEF Refuse, vars, domainVars, guiVars
  <2>2. GatewayTypeOK'
    BY <1>1, <2>1 DEF GatewayTypeOK, NoReview
  <2> QED
    BY <1>3, <1>7, <2>1, <2>2 DEF ConsoleInv
<1>11. ASSUME NEW t \in Thread, Submit(t) PROVE ConsoleInv'
  <2>1. PICK a \in reviews[t].agents :
           /\ questions' = questions \ {a}
           /\ Queue(Command(reviews[t].verdict, a, None))
           /\ reviews' = [reviews EXCEPT ![t] = IF reviews[t].agents = {a} THEN NoReview
                                                ELSE [reviews[t] EXCEPT !.agents = @ \ {a}]]
           /\ UNCHANGED autocomplete
    BY <1>11 DEF Submit
  <2>2. /\ a \in Subject /\ reviews[t].verdict \in Verdict
        /\ Command(reviews[t].verdict, a, None) \in Commanded
    BY <1>1, <2>1 DEF GatewayTypeOK, Command, Commanded, Verdict
  <2>3. /\ commands' \in Seq(Commanded) /\ VerdictDue(a)'
        /\ \A b \in Subject : VerdictDue(b) => VerdictDue(b)'
    <3> DEFINE c == Command(reviews[t].verdict, a, None)
    <3>1. c.agent = a /\ c.verb = reviews[t].verdict
      BY DEF Command
    <3> HIDE DEF c
    <3> QED
      BY <1>1, <2>1, <2>2, <3>1, QueueKeeps DEF GatewayTypeOK, c
  <2>4. IncompleteIsIdle' /\ Inv'
    BY <1>4, <1>6, <2>1, <2>3
  <2>5. GatewayTypeOK'
    <3>1. reviews[t] \in [agents : SUBSET Subject, verdict : Verdict \cup {"none", "all"}]
      BY <1>1 DEF GatewayTypeOK
    <3>2. [reviews[t] EXCEPT !.agents = @ \ {a}]
             = [agents |-> reviews[t].agents \ {a}, verdict |-> reviews[t].verdict]
      BY <3>1
    <3>3. \/ reviews' = [reviews EXCEPT ![t] = NoReview]
          \/ reviews' = [reviews EXCEPT ![t] = [agents |-> reviews[t].agents \ {a},
                                                verdict |-> reviews[t].verdict]]
      BY <2>1, <3>2
    <3>4. PICK r \in [agents : SUBSET Subject, verdict : Verdict \cup {"none", "all"}] :
             reviews' = [reviews EXCEPT ![t] = r] /\ (r.agents # {} => r.verdict \in Verdict)
      BY <2>2, <3>1, <3>3 DEF NoReview
    <3>5. reviews' \in [Thread -> [agents : SUBSET Subject, verdict : Verdict \cup {"none", "all"}]]
      BY <1>1, <3>4 DEF GatewayTypeOK
    <3>6. \A u \in Thread : reviews'[u] = IF u = t THEN r ELSE reviews[u]
      BY <1>1, <3>4 DEF GatewayTypeOK
    <3>7. \A u \in Thread : reviews'[u].agents # {} => reviews'[u].verdict \in Verdict
      BY <1>1, <3>4, <3>6 DEF GatewayTypeOK
    <3> QED
      BY <1>1, <2>1, <2>3, <3>5, <3>7 DEF GatewayTypeOK
  <2> QED
    BY <1>3, <2>4, <2>5 DEF ConsoleInv
<1>12. ASSUME NEW t \in Thread, NEW enabled \in BOOLEAN, SetAutocomplete(t, enabled)
       PROVE  ConsoleInv'
  <2>1. /\ autocomplete' = enabled
        /\ reviews' = IF enabled THEN [reviews EXCEPT ![t] = [agents |-> {}, verdict |-> "all"]]
                      ELSE reviews
        /\ UNCHANGED <<questions, commands>>
    BY <1>12 DEF SetAutocomplete, vars, domainVars, guiVars
  <2>2. reviews' \in {reviews, [reviews EXCEPT ![t] = [agents |-> {}, verdict |-> "all"]]}
    BY <2>1
  <2>3. GatewayTypeOK'
    BY <1>1, <2>1, <2>2 DEF GatewayTypeOK
  <2> QED
    BY <1>3, <1>7, <2>1, <2>3 DEF ConsoleInv
<1>13. ASSUME NEW a \in Subject, ReleasePair(a) PROVE ConsoleInv'
  <2>1. Command("release", a, None) \in Commanded
    BY DEF Command, Commanded
  <2> QED
    BY <1>8, <1>13, <2>1 DEF ReleasePair, vars, domainVars, guiVars
<1>14. ASSUME NEW a \in Subject, NEW i \in Instance, LinkPair(a, i) PROVE ConsoleInv'
  <2>1. Command("choose", a, i) \in Commanded
    BY DEF Command, Commanded
  <2> QED
    BY <1>8, <1>14, <2>1 DEF LinkPair, vars, domainVars, guiVars
<1>15. ASSUME NEW m \in LinkingModes, ChangeMode(m) PROVE ConsoleInv'
  <2>1. Command("mode", None, m) \in Commanded
    BY DEF Command, Commanded
  <2> QED
    BY <1>8, <1>15, <2>1 DEF ChangeMode, vars, domainVars, guiVars
<1>16. ASSUME NEW t \in Thread, ListQuestions(t) PROVE ConsoleInv'
  <2>1. /\ reviews' = [reviews EXCEPT ![t] =
                          IF questions = {} THEN NoReview
                          ELSE [agents |-> questions, verdict |-> "approve"]]
        /\ UNCHANGED <<autocomplete, questions, commands>>
    BY <1>16 DEF ListQuestions, vars, domainVars, guiVars
  <2>2. PICK r \in [agents : SUBSET Subject, verdict : Verdict \cup {"none", "all"}] :
           /\ reviews' = [reviews EXCEPT ![t] = r]
           /\ r.agents # {} => r.verdict \in Verdict
    <3>1. questions \in SUBSET Subject
      BY <1>1 DEF DomainTypeOK
    <3>2. /\ NoReview \in [agents : SUBSET Subject, verdict : Verdict \cup {"none", "all"}]
          /\ NoReview.agents = {}
      BY DEF NoReview
    <3>3. /\ [agents |-> questions, verdict |-> "approve"]
                \in [agents : SUBSET Subject, verdict : Verdict \cup {"none", "all"}]
          /\ [agents |-> questions, verdict |-> "approve"].verdict \in Verdict
      BY <3>1 DEF Verdict
    <3> QED
      BY <2>1, <3>2, <3>3
  <2>3. GatewayTypeOK'
    BY <1>1, <2>1, <2>2 DEF GatewayTypeOK
  <2> QED
    BY <1>3, <1>7, <2>1, <2>3 DEF ConsoleInv
<1> QED
  BY <1>9, <1>10, <1>11, <1>12, <1>13, <1>14, <1>15, <1>16

-----------------------------------------------------------------------------
(* The step thread                                                         *)

\* A pass of link(), whoever ordered it.
LEMMA MatchingSeen ==
    ASSUME ConsoleInv, NEW m \in Modes, NEW picks \in [Subject -> Instance \cup {None}],
           LinkPass(m, waiting, pooled, joined, picks), mode' = m, SeesNothing,
           UNCHANGED <<responderVars, poolVars, fleetVars, questions, upsets, interrupted>>,
           GatewayTypeOK',
           \A b \in Subject : VerdictDue(b) => VerdictDue(b)'
    PROVE  ConsoleInv'
<1>1. CoordTypeOK /\ OneDict /\ DomainTypeOK /\ Inv /\ IncompleteIsIdle /\ pooled \in SUBSET Instance
  BY DEF ConsoleInv, Inv, TypeOK, DomainTypeOK
<1>2. Inv'
  <2>1. /\ CoordTypeOK' /\ OneDict' /\ EngagementsKept
        /\ choice' \in [Subject -> Instance \cup {None}]
    BY <1>1, LinkPassKeeps
  <2>2. DomainTypeOK'
    BY <1>1, <2>1 DEF DomainTypeOK, poolVars, fleetVars
  <2>3. RespondersTypeOK' /\ OneToOne' /\ LinkedIsEngaged' /\ LinkedNotOffered'
    BY <1>1, <2>1, FleetAlone, RespondersAlone DEF poolVars
  <2> QED
    BY <2>1, <2>2, <2>3 DEF Inv, TypeOK
<1>3. ASSUME NEW b \in Subject, waiting[b] = "incomplete", ~AlreadyHandled(b)
      PROVE  ~AlreadyHandled(b)'
  <2>1. handshakes'[b] = handshakes[b] /\ elections'[b] = elections[b]
    BY <1>1, <1>3, LinkPassSkips
  <2> QED
    BY <1>3, <2>1 DEF AlreadyHandled, Linked, InFlight, HasHandshake, HasElection, fleetVars
<1>4. IncompleteIsIdle'
  BY <1>1, <1>3, WaitersKept DEF poolVars
<1>5. PhasesAreTrue' /\ phase' = [a \in Subject |-> phase'[a]]
  BY NothingSeen DEF ConsoleInv, fleetVars
<1>6. LinkedNotReady'
  BY OfferedKept DEF ConsoleInv, Linked, poolVars, fleetVars
<1> QED
  BY <1>2, <1>4, <1>5, <1>6 DEF ConsoleInv, MonitorTypeOK

\* A completed agent joins its pool and is matched: whoever else waits is left alone,
\* and the agent waits for nobody any more.
LEMMA CompletedSeen ==
    ASSUME ConsoleInv, NEW a \in Subject,
           IF AlreadyHandled(a) THEN UNCHANGED <<coordVars, waiting, joined, stale, choice>>
           ELSE Wait(a),
           Sees(Completed(a)),
           UNCHANGED <<responderVars, fleetVars, pooled, mode, upsets>>,
           questions \ {a} \subseteq questions', questions' \subseteq questions,
           subscribed \subseteq subscribed', subscribed' \in SUBSET Node,
           interrupted \ {a} \subseteq interrupted', interrupted' \subseteq interrupted,
           AlreadyHandled(a) => interrupted' = interrupted,
           GatewayTypeOK',
           \A b \in Subject \ {a} : VerdictDue(b) => VerdictDue(b)'
    PROVE  ConsoleInv'
<1>1. CoordTypeOK /\ OneDict /\ DomainTypeOK /\ Inv /\ IncompleteIsIdle
  BY DEF ConsoleInv, Inv, TypeOK
<1>2. Inv'
  <2>1. /\ CoordTypeOK' /\ OneDict' /\ EngagementsKept
        /\ waiting' \in [Subject -> {"absent", "incomplete", "ready"}]
        /\ joined' \in SUBSET (Node \X Node)
        /\ stale' \in SUBSET ({"pool", "fleet"} \X Node)
        /\ choice' \in [Subject -> Instance \cup {None}]
    <3>1. CASE AlreadyHandled(a)
      BY <1>1, <3>1, CoordAlone DEF coordVars, DomainTypeOK
    <3>2. CASE ~AlreadyHandled(a)
      BY <1>1, <3>2, WaitKeeps
    <3> QED
      BY <3>1, <3>2
  <2>2. DomainTypeOK'
    BY <1>1, <2>1 DEF DomainTypeOK, fleetVars
  <2>3. RespondersTypeOK' /\ OneToOne' /\ LinkedIsEngaged' /\ LinkedNotOffered'
    BY <1>1, <2>1, FleetAlone, RespondersAlone
  <2> QED
    BY <2>1, <2>2, <2>3 DEF Inv, TypeOK
<1>3. IncompleteIsIdle'
  <2>1. CASE AlreadyHandled(a)
    <3>1. UNCHANGED <<coordVars, waiting, instanceOf, interrupted>>
      BY <2>1 DEF fleetVars
    <3>2. \A b \in Subject : AlreadyHandled(b)' <=> AlreadyHandled(b)
      BY <3>1 DEF AlreadyHandled, Linked, InFlight, HasHandshake, HasElection, coordVars
    <3>3. \A b \in Subject \ {a} : b \in questions \/ VerdictDue(b) =>
                                   b \in questions' \/ VerdictDue(b)'
      OBVIOUS
    <3> QED
      BY <1>1, <2>1, <3>1, <3>2, <3>3 DEF IncompleteIsIdle
  <2>2. CASE ~AlreadyHandled(a)
    <3>1. waiting'[a] = "ready" /\ \A b \in Subject \ {a} : waiting'[b] = waiting[b]
      BY <1>1, <2>2 DEF Wait, DomainTypeOK
    <3>2. LinkPass(mode, waiting', pooled, joined', choice)
      BY <2>2 DEF Wait
    <3>3. ASSUME NEW b \in Subject \ {a}, waiting[b] = "incomplete", ~AlreadyHandled(b)
          PROVE  ~AlreadyHandled(b)'
      <4>1. handshakes'[b] = handshakes[b] /\ elections'[b] = elections[b]
        <5>1. pooled \in SUBSET Instance /\ waiting'[b] # "ready"
          BY <1>1, <3>1, <3>3 DEF DomainTypeOK
        <5> QED
          BY <1>1, <3>2, <5>1, LinkPassSkips
      <4> QED
        BY <3>3, <4>1 DEF AlreadyHandled, Linked, InFlight, HasHandshake, HasElection, fleetVars
    <3> QED
      BY <1>1, <3>1, <3>3, WaitersKept
  <2> QED
    BY <2>1, <2>2
<1>4. PhasesAreTrue' /\ phase' = [b \in Subject |-> phase'[b]]
  <2> DEFINE moved == Completed(a)
             seen(b) == IF b \in DOMAIN moved THEN moved[b] ELSE phase[b]
  <2>1. \A b \in Subject \ {a} : seen(b) = phase[b]
    BY DEF Completed
  <2>2. \/ seen(a) = phase[a]
        \/ phase[a] # "linked" /\ seen(a) = "discovered"
    BY DEF Completed
  <2> HIDE DEF seen
  <2>3. \A b \in Subject : Linked(b)' <=> Linked(b)
    BY DEF Linked, fleetVars
  <2>4. \A b \in Subject : Linked(b) /\ b \in interrupted => b \in interrupted'
    BY DEF AlreadyHandled
  <2>5. \A b \in Subject : /\ seen(b) = "linked" => Linked(b)'
                           /\ Linked(b)' => seen(b) = "linked" \/ b \in interrupted'
    BY <2>1, <2>2, <2>3, <2>4 DEF ConsoleInv, PhasesAreTrue
  <2> USE DEF seen
  <2> HIDE DEF moved
  <2> QED
    BY <2>5, SeesTheTruth DEF moved
<1>5. LinkedNotReady'
  <2>1. \A b \in Subject : waiting'[b] = "ready" => waiting[b] = "ready" \/ (b = a /\ ~AlreadyHandled(a))
    BY <1>1 DEF Wait, DomainTypeOK
  <2>2. \A b \in Subject : Linked(b)' <=> Linked(b)
    BY DEF Linked, fleetVars
  <2> QED
    BY <2>1, <2>2, OfferedKept DEF ConsoleInv, AlreadyHandled
<1> QED
  BY <1>2, <1>3, <1>4, <1>5 DEF ConsoleInv, MonitorTypeOK

\* Commands run when what was checked may be over.
LEMMA CommandsKeep ==
    ASSUME ConsoleInv, RunCommand
    PROVE  ConsoleInv'
<1>1. CoordTypeOK /\ OneDict /\ DomainTypeOK /\ GatewayTypeOK /\ MonitorTypeOK
      /\ Inv /\ IncompleteIsIdle /\ LinkedNotReady /\ PhasesAreTrue /\ commands \in Seq(Commanded)
  BY DEF ConsoleInv, Inv, TypeOK, GatewayTypeOK
<1>2. ASSUME NEW verb, Due(verb), UNCHANGED <<autocomplete, reviews>>
      PROVE  /\ GatewayTypeOK'
             /\ Head(commands) \in Commanded /\ Head(commands).verb = verb
             /\ \A b \in Subject : VerdictDue(b) =>
                   VerdictDue(b)' \/ (b = Head(commands).agent /\ verb \in Verdict)
  BY <1>1, <1>2, DueKeeps DEF GatewayTypeOK
<1>3. ASSUME RunApprove PROVE ConsoleInv'
  <2> DEFINE a == Head(commands).agent
  <2>1. a \in Subject /\ GatewayTypeOK' /\ \A b \in Subject \ {a} : VerdictDue(b) => VerdictDue(b)'
    BY <1>2, <1>3 DEF RunApprove, Commanded
  <2>2. /\ questions' = questions \ {a}
        /\ IF AlreadyHandled(a) THEN UNCHANGED <<coordVars, waiting, joined, stale, choice>>
           ELSE Wait(a)
        /\ Sees(Completed(a))
        /\ UNCHANGED <<responderVars, fleetVars, pooled, subscribed, mode, upsets, interrupted>>
    BY <1>3 DEF RunApprove
  <2>3. subscribed \in SUBSET Node
    BY <1>1 DEF DomainTypeOK
  <2> HIDE DEF a
  <2> QED
    BY <2>1, <2>2, <2>3, CompletedSeen
<1>4. ASSUME RunReject PROVE ConsoleInv'
  <2> DEFINE a == Head(commands).agent
  <2>1. a \in Subject /\ GatewayTypeOK' /\ \A b \in Subject \ {a} : VerdictDue(b) => VerdictDue(b)'
    BY <1>2, <1>4 DEF RunReject, Commanded
  <2>2. /\ questions' = questions \ {a}
        /\ IF waiting[a] = "incomplete"
           THEN /\ waiting' = [waiting EXCEPT ![a] = "absent"]
                /\ joined' = Leave({a}, joined)
                /\ stale' = Fresh("pool", {a})
                /\ subscribed' = subscribed \ {a}
           ELSE UNCHANGED <<waiting, joined, stale, subscribed>>
        /\ Forget(a)
        /\ Sees([b \in {a} |-> "rejected"])
        /\ interrupted' = IF AlreadyHandled(a) THEN interrupted \cup {a} ELSE interrupted
        /\ UNCHANGED <<responderVars, fleetVars, pooled, mode, choice, upsets>>
    BY <1>4 DEF RunReject
  <2> HIDE DEF a
  <2>3. \A b \in Subject : handshakes'[b] = handshakes[b] /\ elections'[b] = elections[b]
    BY <2>2 DEF Forget, CancelAndForget
  <2>4. Inv'
    <3>1. CoordTypeOK' /\ OneDict'
      BY <1>1, <2>1, <2>2, CancelAndForgetKeeps DEF Forget
    <3>2. EngagementsKept
      BY <2>3 DEF EngagementsKept
    <3>3. a \in Node /\ joined \in SUBSET (Node \X Node)
      BY <1>1, <2>1 DEF Node, DomainTypeOK
    <3>4. joined' \in SUBSET (Node \X Node) /\ stale' \in SUBSET ({"pool", "fleet"} \X Node)
      BY <1>1, <2>2, <3>3, PoolTypes DEF DomainTypeOK
    <3>5. DomainTypeOK'
      BY <1>1, <2>1, <2>2, <3>4 DEF DomainTypeOK, fleetVars
    <3>6. RespondersTypeOK' /\ OneToOne' /\ LinkedIsEngaged' /\ LinkedNotOffered'
      BY <1>1, <2>2, <3>2, FleetAlone, RespondersAlone
    <3> QED
      BY <3>1, <3>5, <3>6 DEF Inv, TypeOK
  <2>5. IncompleteIsIdle'
    <3>1. \A b \in Subject : AlreadyHandled(b)' <=> AlreadyHandled(b)
      BY <2>2, <2>3 DEF AlreadyHandled, Linked, InFlight, HasHandshake, HasElection, fleetVars
    <3>2. /\ waiting'[a] # "incomplete"
          /\ \A b \in Subject \ {a} : waiting'[b] = waiting[b]
      BY <1>1, <2>1, <2>2 DEF DomainTypeOK
    <3> QED
      BY <1>1, <2>1, <2>2, <3>1, <3>2, WaitersKept
  <2>6. PhasesAreTrue' /\ phase' = [b \in Subject |-> phase'[b]]
    <3> DEFINE moved == [b \in {a} |-> "rejected"]
    <3>1. \A b \in Subject : Linked(b)' <=> Linked(b)
      BY <2>2 DEF Linked, fleetVars
    <3>2. Linked(a) => a \in interrupted'
      BY <2>2 DEF AlreadyHandled
    <3>3. \A b \in Subject :
             LET seen == IF b \in DOMAIN moved THEN moved[b] ELSE phase[b]
             IN  /\ seen = "linked" => Linked(b)'
                 /\ Linked(b)' => seen = "linked" \/ b \in interrupted'
      BY <1>1, <2>2, <3>1, <3>2 DEF PhasesAreTrue
    <3>4. Sees(moved)
      BY <2>2
    <3> HIDE DEF moved
    <3> QED
      BY <3>3, <3>4, SeesTheTruth
  <2>7. MonitorTypeOK'
    BY <1>1, <2>1, <2>2, <2>6 DEF MonitorTypeOK
  <2>8. LinkedNotReady'
    BY <1>1, <2>1, <2>2, OfferedKept DEF DomainTypeOK, Linked, fleetVars
  <2> QED
    BY <2>1, <2>4, <2>5, <2>6, <2>7, <2>8 DEF ConsoleInv
<1>5. ASSUME RunChoose PROVE ConsoleInv'
  <2> DEFINE picks == [choice EXCEPT ![Head(commands).agent] = Head(commands).arg]
  <2>1. /\ GatewayTypeOK' /\ \A b \in Subject : VerdictDue(b) => VerdictDue(b)'
        /\ Head(commands).agent \in Subject /\ Head(commands).arg \in Instance
    BY <1>2, <1>5 DEF RunChoose, Commanded, Verdict
  <2>2. picks \in [Subject -> Instance \cup {None}] /\ mode \in Modes
    BY <1>1, <2>1 DEF DomainTypeOK
  <2>3. /\ LinkPass(mode, waiting, pooled, joined, picks) /\ SeesNothing
        /\ UNCHANGED <<responderVars, poolVars, fleetVars, mode, questions, upsets, interrupted>>
    BY <1>5 DEF RunChoose
  <2> HIDE DEF picks
  <2> QED
    BY <2>1, <2>2, <2>3, MatchingSeen
<1>6. ASSUME RunMode PROVE ConsoleInv'
  <2> DEFINE m == Head(commands).arg
             picks == IF m = "GUI" THEN choice ELSE [a \in Subject |-> None]
  <2>1. /\ GatewayTypeOK' /\ \A b \in Subject : VerdictDue(b) => VerdictDue(b)'
        /\ m \in LinkingModes
    BY <1>2, <1>6 DEF RunMode, Commanded, Verdict
  <2>2. picks \in [Subject -> Instance \cup {None}] /\ m \in Modes
    BY <1>1, <2>1, LinkManagerAssumption DEF DomainTypeOK
  <2>3. /\ LinkPass(m, waiting, pooled, joined, picks) /\ SeesNothing /\ mode' = m
        /\ UNCHANGED <<responderVars, poolVars, fleetVars, questions, upsets, interrupted>>
    BY <1>6 DEF RunMode, SetLinkingMode
  <2> HIDE DEF m, picks
  <2> QED
    BY <2>1, <2>2, <2>3, MatchingSeen
<1>7. ASSUME RunRelease PROVE ConsoleInv'
  <2> DEFINE a == Head(commands).agent
  <2>1. /\ GatewayTypeOK' /\ \A b \in Subject : VerdictDue(b) => VerdictDue(b)'
        /\ a \in Subject /\ SeesNothing /\ UNCHANGED interrupted
        /\ IF InFlight(a) THEN Release(a) ELSE UNCHANGED vars
    BY <1>2, <1>7 DEF RunRelease, Commanded, Verdict
  <2> HIDE DEF a
  <2>2. Inv'
    BY <1>1, <2>1, OperatorKeeps, NextKeeps
  <2>3. UNCHANGED domainVars
    BY <2>1 DEF Release, vars
  <2>4. \A b \in Subject : ~InFlight(b) => ~InFlight(b)'
    <3>1. CASE Release(a)
      BY <1>1, <3>1, CancelBeginsNothing DEF Release, Cancel
    <3>2. CASE UNCHANGED vars
      BY <3>2 DEF vars, coordVars, InFlight, HasHandshake, HasElection
    <3> QED
      BY <2>1, <3>1, <3>2
  <2>5. IncompleteIsIdle'
    BY <1>1, <2>1, <2>3, <2>4, WaitersKept
       DEF AlreadyHandled, Linked, domainVars, poolVars, guiVars, fleetVars
  <2>6. PhasesAreTrue' /\ phase' = [b \in Subject |-> phase'[b]]
    BY <1>1, <2>1, <2>3, NothingSeen DEF domainVars, fleetVars
  <2>7. LinkedNotReady'
    BY <1>1, <2>3, OfferedKept DEF Linked, domainVars, poolVars, fleetVars
  <2> QED
    BY <1>1, <2>1, <2>2, <2>5, <2>6, <2>7 DEF ConsoleInv, MonitorTypeOK
<1> QED
  BY <1>3, <1>4, <1>5, <1>6, <1>7 DEF RunCommand

\* Announcements, with and without the operator's help.
LEMMA AnnouncementsKeep ==
    ASSUME ConsoleInv, HandlingTypeOK, HandleDiscovery
    PROVE  ConsoleInv'
<1>0. PICK a \in Subject : handling.agent = a
  BY DEF HandleDiscovery, HandlingTypeOK
<1>1. CoordTypeOK /\ OneDict /\ DomainTypeOK /\ GatewayTypeOK /\ MonitorTypeOK
      /\ Inv /\ IncompleteIsIdle /\ LinkedNotReady /\ PhasesAreTrue /\ a \in Node
  BY <1>0 DEF ConsoleInv, Inv, TypeOK, Node
<1>2. GatewayTypeOK' /\ \A b \in Subject : VerdictDue(b)' <=> VerdictDue(b)
  BY <1>1 DEF HandleDiscovery, gatewayVars, GatewayTypeOK, VerdictDue
<1>3. interrupted' = IF ~AlreadyHandled(a) THEN interrupted \ {a}
                     ELSE IF handling.complete THEN interrupted ELSE interrupted \cup {a}
  BY <1>0 DEF HandleDiscovery
<1>4. CASE handling.complete
  <2>1. /\ IF AlreadyHandled(a)
           THEN UNCHANGED <<coordVars, waiting, joined, stale, choice, subscribed>>
           ELSE Wait(a) /\ subscribed' = subscribed \cup {a}
        /\ UNCHANGED <<responderVars, fleetVars, pooled, mode, questions, upsets>>
        /\ Sees(Completed(a))
    BY <1>0, <1>4 DEF HandleDiscovery
  <2>2. subscribed \subseteq subscribed' /\ subscribed' \in SUBSET Node
    BY <1>1, <2>1 DEF DomainTypeOK
  <2> QED
    BY <1>0, <1>2, <1>3, <1>4, <2>1, <2>2, CompletedSeen
<1>5. CASE ~handling.complete
  <2>1. /\ waiting' = [waiting EXCEPT ![a] = "incomplete"]
        /\ joined' = Join(a, joined)
        /\ stale' = Fresh("pool", {a})
        /\ subscribed' = subscribed \cup {a}
        /\ questions' = questions \cup {a}
        /\ UNCHANGED <<coordVars, responderVars, fleetVars, pooled, mode, choice, upsets>>
        /\ Sees([b \in {a} |-> "review"])
    BY <1>0, <1>5 DEF HandleDiscovery
  <2>9. interrupted' = IF AlreadyHandled(a) THEN interrupted \cup {a} ELSE interrupted \ {a}
    BY <1>3, <1>5
  <2>2. CoordTypeOK' /\ OneDict' /\ EngagementsKept
    BY <1>1, <2>1, CoordAlone DEF coordVars
  <2>3. Inv'
    <3>1. joined' \in SUBSET (Node \X Node) /\ stale' \in SUBSET ({"pool", "fleet"} \X Node)
      BY <1>0, <1>1, <2>1, PoolTypes DEF DomainTypeOK
    <3>2. DomainTypeOK'
      BY <1>0, <1>1, <2>1, <3>1 DEF DomainTypeOK, fleetVars
    <3>3. RespondersTypeOK' /\ OneToOne' /\ LinkedIsEngaged' /\ LinkedNotOffered'
      BY <1>1, <2>1, <2>2, FleetAlone, RespondersAlone
    <3> QED
      BY <2>2, <3>2, <3>3 DEF Inv, TypeOK
  <2>4. \A b \in Subject : AlreadyHandled(b)' <=> AlreadyHandled(b)
    BY <2>1 DEF AlreadyHandled, Linked, InFlight, HasHandshake, HasElection, fleetVars, coordVars
  <2>5. IncompleteIsIdle'
    <3>1. \A b \in Subject \ {a} : waiting'[b] = waiting[b]
      BY <1>0, <1>1, <2>1 DEF DomainTypeOK
    <3>2. a \in interrupted' \/ (~AlreadyHandled(a)' /\ a \in questions')
      BY <1>0, <2>1, <2>4, <2>9
    <3> QED
      BY <1>0, <1>1, <1>2, <2>1, <2>4, <2>9, <3>1, <3>2, WaitersKept
  <2>6. PhasesAreTrue' /\ phase' = [b \in Subject |-> phase'[b]]
    <3> DEFINE moved == [b \in {a} |-> "review"]
    <3>1. \A b \in Subject : Linked(b)' <=> Linked(b)
      BY <2>1 DEF Linked, fleetVars
    <3>2. Linked(a) => a \in interrupted'
      BY <2>9 DEF AlreadyHandled
    <3>3. \A b \in Subject :
             LET seen == IF b \in DOMAIN moved THEN moved[b] ELSE phase[b]
             IN  /\ seen = "linked" => Linked(b)'
                 /\ Linked(b)' => seen = "linked" \/ b \in interrupted'
      BY <1>1, <2>9, <3>1, <3>2 DEF PhasesAreTrue
    <3>4. Sees(moved)
      BY <2>1
    <3> HIDE DEF moved
    <3> QED
      BY <3>3, <3>4, SeesTheTruth
  <2>7. MonitorTypeOK'
    BY <1>0, <1>1, <2>9, <2>6 DEF MonitorTypeOK
  <2>8. LinkedNotReady'
    BY <1>0, <1>1, <2>1, OfferedKept DEF DomainTypeOK, Linked, fleetVars
  <2> QED
    BY <1>2, <2>3, <2>5, <2>6, <2>7, <2>8 DEF ConsoleInv
<1> QED
  BY <1>4, <1>5

\* route() and tick(), as the hooks saw them.
LEMMA ConversationsKeep ==
    ASSUME ConsoleInv, \/ \E i \in Instance : RouteSeen(i)
                       \/ \E a \in Subject : TickSeen(a)
    PROVE  ConsoleInv'
<1>1. CoordTypeOK /\ OneDict /\ RespondersTypeOK /\ Inv
  BY DEF ConsoleInv, Inv, TypeOK
<1>2. ASSUME NEW i \in Instance, RouteSeen(i) PROVE ConsoleInv'
  <2> DEFINE m == Head(uplink[i])
  <2>1. m \in Envelope /\ RespondersTypeOK'
    BY <1>1, <1>2, TakeKeeps DEF RouteSeen
  <2>2. PICK x \in RouteEffects(m) : Conclude(m.id, x) /\ Sees(Concluded(m.id, x))
    BY <1>2 DEF RouteSeen
  <2>3. UNCHANGED <<gatewayVars, interrupted>>
    BY <1>2 DEF RouteSeen
  <2> HIDE DEF m
  <2>4. m.id \in Subject /\ x \in Effects /\ AtMostOne(x) /\ Tells(m.id, x)
    BY <1>1, <2>1, <2>2, RouteEffectsType, RouteTells DEF Envelope
  <2>5. InFlight(m.id) \/ (x.act = "NOTHING" /\ x.hs = NoInitiator /\ x.el = NoElection)
    BY <2>2 DEF RouteEffects, InFlight, Effect
  <2> QED
    BY <2>1, <2>2, <2>3, <2>4, <2>5, ConcludeSeen
<1>3. ASSUME NEW a \in Subject, TickSeen(a) PROVE ConsoleInv'
  <2>1. PICK x \in TickEffects(a) : Conclude(a, x) /\ Sees(Concluded(a, x))
    BY <1>3 DEF TickSeen
  <2>2. x \in Effects /\ AtMostOne(x) /\ Tells(a, x)
    BY <1>1, <1>3, <2>1, TickEffectsType, TickTells DEF TickSeen
  <2>3. RespondersTypeOK' /\ InFlight(a) /\ UNCHANGED <<gatewayVars, interrupted>>
    BY <1>1, <1>3, RespondersAlone DEF TickSeen
  <2> QED
    BY <2>1, <2>2, <2>3, ConcludeSeen
<1> QED
  BY <1>2, <1>3

\* Matching, the sweep, the instances and the passing of time.
LEMMA UnhookedKeeps ==
    ASSUME ConsoleInv, Unhooked \/ Outside
    PROVE  ConsoleInv'
<1>1. /\ CoordTypeOK /\ DomainTypeOK /\ Inv /\ IncompleteIsIdle
      /\ GatewayTypeOK /\ MonitorTypeOK /\ LinkedNotReady /\ PhasesAreTrue
  BY DEF ConsoleInv, Inv, TypeOK
<1>2. SeesNothing /\ UNCHANGED <<gatewayVars, interrupted>>
  BY DEF Unhooked, Outside
<1>3. GatewayTypeOK' /\ \A b \in Subject : VerdictDue(b)' <=> VerdictDue(b)
  BY <1>1, <1>2 DEF gatewayVars, GatewayTypeOK, VerdictDue
<1>4. Inv'
  BY <1>1, OperatorKeeps, LivenessKeeps, WorldKeeps, DiscoveryKeeps DEF Unhooked, Outside
<1>5. /\ UNCHANGED instanceOf
      /\ \A b \in Subject : waiting'[b] = "incomplete" =>
            waiting[b] = "incomplete" /\ (b \in questions => b \in questions')
      /\ \A b \in Subject : waiting'[b] = "ready" => waiting[b] = "ready"
  <2>1. CASE Sweep
    BY <1>1, <2>1 DEF Sweep, fleetVars, DomainTypeOK
  <2>2. CASE Link \/ World \/ \E i \in Instance : OnInstanceDiscovered(i) \/ TwinState(i)
    BY <2>2 DEF Link, World, OnInstanceDiscovered, JoinPool, TwinState, domainVars, poolVars,
                guiVars, fleetVars
  <2>3. CASE \E n \in Node : Touch(n) \/ GoesQuiet(n)
    BY <2>3 DEF Touch, GoesQuiet, guiVars, fleetVars
  <2> QED
    BY <2>1, <2>2, <2>3 DEF Unhooked, Outside
<1>6. ASSUME NEW b \in Subject, waiting[b] = "incomplete", ~InFlight(b) PROVE ~InFlight(b)'
  <2>1. CASE handshakes'[b] = handshakes[b] /\ elections'[b] = elections[b]
    BY <1>6, <2>1 DEF InFlight, HasHandshake, HasElection
  <2>2. CASE Sweep
    BY <1>1, <1>6, <2>2, CancelBeginsNothing DEF Sweep
  <2>3. ASSUME NEW pool \in SUBSET Instance, NEW order, LinkPass(mode, waiting, pool, order, choice)
        PROVE  ~InFlight(b)'
    <3>1. waiting[b] # "ready"
      BY <1>6
    <3> QED
      BY <1>1, <2>1, <2>3, <3>1, LinkPassSkips
  <2>4. CASE Link
    BY <1>1, <2>3, <2>4 DEF Link, DomainTypeOK
  <2>5. ASSUME NEW i \in Instance, OnInstanceDiscovered(i) PROVE ~InFlight(b)'
    <3>1. /\ pooled' \in SUBSET Instance
          /\ LinkPass(mode, waiting, pooled', joined', choice)
      BY <1>1, <2>5 DEF OnInstanceDiscovered, JoinPool, DomainTypeOK
    <3> QED
      BY <2>3, <3>1
  <2>6. CASE World
    BY <2>1, <2>6 DEF World, Environment, InstanceStep, Receive, Revoke, Complete, Announce,
         ReservationLapses, Restart, Lose, LoseUp, LoseDown, CooldownOver, coordVars
  <2>7. CASE \/ \E i \in Instance : TwinState(i)
             \/ \E n \in Node : Touch(n) \/ GoesQuiet(n)
    BY <2>1, <2>7 DEF TwinState, Touch, GoesQuiet, coordVars
  <2> QED
    BY <2>2, <2>4, <2>5, <2>6, <2>7 DEF Unhooked, Outside
<1>7. IncompleteIsIdle'
  BY <1>1, <1>2, <1>3, <1>5, <1>6, WaitersKept DEF AlreadyHandled, Linked
<1>8. PhasesAreTrue' /\ phase' = [a \in Subject |-> phase'[a]]
  BY <1>1, <1>2, <1>5, NothingSeen
<1>9. LinkedNotReady'
  BY <1>1, <1>5, OfferedKept DEF Linked
<1> QED
  BY <1>1, <1>2, <1>3, <1>4, <1>7, <1>8, <1>9 DEF ConsoleInv, MonitorTypeOK

-----------------------------------------------------------------------------
(* The theorems                                                            *)

\* The constructors establish the invariant.
LEMMA ConsoleInitEstablishes == ConsoleInit => ConsoleInv /\ HandlingTypeOK
<1> SUFFICES ASSUME ConsoleInit PROVE ConsoleInv /\ HandlingTypeOK
  OBVIOUS
<1>1. Inv
  BY InitEstablishes DEF ConsoleInit
<1>2. GatewayTypeOK /\ MonitorTypeOK
  <2>1. commands \in Seq(Commanded)
    BY DEF ConsoleInit
  <2>2. autocomplete \in BOOLEAN
    BY DEF ConsoleInit
  <2>3. /\ reviews \in [Thread -> [agents : SUBSET Subject, verdict : Verdict \cup {"none", "all"}]]
        /\ \A t \in Thread : reviews[t].agents = {}
    BY DEF ConsoleInit, NoReview
  <2>4. MonitorTypeOK
    BY DEF ConsoleInit, MonitorTypeOK
  <2> QED
    BY <2>1, <2>2, <2>3, <2>4 DEF GatewayTypeOK
<1>3. IncompleteIsIdle /\ LinkedNotReady /\ PhasesAreTrue
  BY DEF ConsoleInit, Init, IncompleteIsIdle, LinkedNotReady, PhasesAreTrue, Linked
<1> QED
  BY <1>1, <1>2, <1>3 DEF ConsoleInv, ConsoleInit, HandlingTypeOK

\* Nothing it speaks of changes.
LEMMA StandsStill ==
    ASSUME ConsoleInv, UNCHANGED <<vars, gatewayVars, monitorVars>>
    PROVE  ConsoleInv'
<1>1. Inv'
  BY NextKeeps DEF ConsoleInv
<1>2. \A a \in Subject : /\ AlreadyHandled(a)' <=> AlreadyHandled(a)
                         /\ Linked(a)' <=> Linked(a)
                         /\ VerdictDue(a)' <=> VerdictDue(a)
  BY DEF vars, coordVars, domainVars, fleetVars, gatewayVars, AlreadyHandled, Linked, InFlight,
         HasHandshake, HasElection, VerdictDue
<1>3. UNCHANGED <<waiting, questions, phase, interrupted, autocomplete, reviews, commands>>
  BY DEF vars, domainVars, poolVars, guiVars, gatewayVars, monitorVars
<1> QED
  BY <1>1, <1>2, <1>3 DEF ConsoleInv, GatewayTypeOK, MonitorTypeOK, IncompleteIsIdle,
                          LinkedNotReady, PhasesAreTrue

\* Every step keeps it.
LEMMA ConsoleNextKeeps ==
    ConsoleInv /\ HandlingTypeOK /\ [ConsoleNext]_consoleVars => (ConsoleInv /\ HandlingTypeOK)'
<1> SUFFICES ASSUME ConsoleInv, HandlingTypeOK, [ConsoleNext]_consoleVars
             PROVE  ConsoleInv' /\ HandlingTypeOK'
  OBVIOUS
<1>1. CASE UNCHANGED consoleVars
  BY <1>1, StandsStill DEF consoleVars, HandlingTypeOK
<1>2. ASSUME NEW a \in Subject, CheckDiscovery(a) PROVE ConsoleInv' /\ HandlingTypeOK'
  <2>1. /\ UNCHANGED <<vars, gatewayVars, monitorVars>>
        /\ handling' = [agent |-> a, complete |-> autocomplete]
    BY <1>2 DEF CheckDiscovery
  <2>2. ConsoleInv'
    BY <2>1, StandsStill
  <2>3. autocomplete \in BOOLEAN
    BY DEF ConsoleInv, GatewayTypeOK
  <2> QED
    BY <1>2, <2>1, <2>2, <2>3 DEF HandlingTypeOK
<1>3. CASE HandleDiscovery
  BY <1>3, AnnouncementsKeep DEF HandleDiscovery, HandlingTypeOK
<1>4. CASE StepThread \/ Outside
  <2>1. UNCHANGED handling
    BY <1>4 DEF StepThread, Outside
  <2> QED
    BY <1>4, <2>1, CommandsKeep, ConversationsKeep, UnhookedKeeps DEF StepThread, HandlingTypeOK
<1>5. CASE \/ \E t \in Thread :
                 \/ \E a \in Subject, verdict \in Verdict : ReadReview(t, a, verdict)
                 \/ Refuse(t) \/ Submit(t) \/ ListQuestions(t)
                 \/ \E enabled \in BOOLEAN : SetAutocomplete(t, enabled)
           \/ \E a \in Subject : ReleasePair(a) \/ \E i \in Instance : LinkPair(a, i)
           \/ \E m \in LinkingModes : ChangeMode(m)
  <2>1. UNCHANGED handling
    BY <1>5 DEF ReadReview, Refuse, Submit, ListQuestions, SetAutocomplete, ReleasePair, LinkPair,
                ChangeMode
  <2> QED
    BY <1>5, <2>1, ThreadsKeep DEF HandlingTypeOK
<1> QED
  BY <1>1, <1>2, <1>3, <1>4, <1>5 DEF ConsoleNext, Verdict

\* An agent that waits for the operator, whatever threads, commands and announcements do
\* to each other, has its question on the list or a verdict on its way.
THEOREM ReviewsAreOpenHolds == ConsoleSpec => []ReviewsAreOpen
<1>1. ConsoleInv => ReviewsAreOpen
  BY DEF ConsoleInv, IncompleteIsIdle, ReviewsAreOpen
<1> QED
  BY <1>1, ConsoleInitEstablishes, ConsoleNextKeeps, PTL DEF ConsoleSpec

\* However often and however late an agent is confirmed: linked, it is not on offer.
THEOREM LinkedIsNotPooledHolds == ConsoleSpec => []LinkedIsNotPooled
<1>1. ConsoleInv => LinkedIsNotPooled
  <2> SUFFICES ASSUME ConsoleInv, NEW a \in Subject, Linked(a)
               PROVE  waiting[a] = "absent" \/ (waiting[a] = "incomplete" /\ a \in interrupted)
    BY DEF LinkedIsNotPooled
  <2>1. waiting[a] \in {"absent", "incomplete", "ready"}
    BY DEF ConsoleInv, Inv, TypeOK, DomainTypeOK
  <2> QED
    BY <2>1 DEF ConsoleInv, IncompleteIsIdle, LinkedNotReady, AlreadyHandled
<1> QED
  BY <1>1, ConsoleInitEstablishes, ConsoleNextKeeps, PTL DEF ConsoleSpec

\* The console calls linked who is linked, and nobody else.
THEOREM PhasesAreTrueHolds == ConsoleSpec => []PhasesAreTrue
<1>1. ConsoleInv => PhasesAreTrue
  BY DEF ConsoleInv
<1> QED
  BY <1>1, ConsoleInitEstablishes, ConsoleNextKeeps, PTL DEF ConsoleSpec

\* Commands that were checked on one thread and run on another, out of date or twice, do
\* the fleet no harm: the two dicts agree, every pair has its conversation, and no linked
\* instance is on offer.
THEOREM ConsoleIsHarmless ==
    ConsoleSpec => [](OneDict /\ OneToOne /\ LinkedIsEngaged /\ LinkedNotOffered)
<1>1. ConsoleInv => OneDict /\ OneToOne /\ LinkedIsEngaged /\ LinkedNotOffered
  BY DEF ConsoleInv, Inv
<1> QED
  BY <1>1, ConsoleInitEstablishes, ConsoleNextKeeps, PTL DEF ConsoleSpec
=============================================================================
