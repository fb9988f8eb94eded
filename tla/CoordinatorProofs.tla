-------------------------- MODULE CoordinatorProofs --------------------------
(***************************************************************************)
(* Theorems about one coordinator and its responders (CoordinatorSystem),  *)
(* for any number of subjects, instances and attempts.  Whatever the bus   *)
(* loses and instances forget: what the coordinator keeps is well formed.  *)
(* Where instances neither restart nor let a reservation lapse early: what *)
(* the aggregate believes about them is what they have agreed to.  Where   *)
(* the bus loses nothing: no holder of a subject is forgotten.             *)
(***************************************************************************)
EXTENDS CoordinatorSystem, CoordinatorLemmas

\* The invariant is inductive: types carry the names the envelopes need, and one
\* dict per subject is what makes the effect of route() well defined.
Inv == TypeOK /\ OneDict

\* The constructor establishes it.
LEMMA InitEstablishes == Init => Inv
<1> SUFFICES ASSUME Init PROVE Inv
  OBVIOUS
<1>1. CoordTypeOK /\ OneDict
  BY NothingThereType, NobodyAsked DEF Init, CoordInit, CoordTypeOK, OneDict, HasElection
<1>2. RespondersTypeOK
  BY DEF Init, RespondersInit, RespondersTypeOK, Idle, Holding
<1> QED
  BY <1>1, <1>2 DEF Inv, TypeOK

\* Every step keeps it.
LEMMA NextKeeps == Inv /\ [Next]_vars => Inv'
<1> SUFFICES ASSUME Inv, [Next]_vars PROVE Inv'
  OBVIOUS
<1> USE DEF Inv, TypeOK
<1>1. ASSUME UNCHANGED responderVars PROVE RespondersTypeOK'
  BY <1>1 DEF responderVars, RespondersTypeOK
<1>2. ASSUME NEW s \in Subject, Request(s) PROVE Inv'
  <2>1. ASSUME NEW targets \in [Subject -> SUBSET Instance], ~InFlight(s),
               OpenRequests({s}, targets)
        PROVE  CoordTypeOK' /\ OneDict'
    BY <2>1, OpenRequestsKeeps
  <2>2. ASSUME RequestPooled(s) PROVE CoordTypeOK' /\ OneDict'
    BY <2>1, <2>2 DEF RequestPooled
  <2>3. ASSUME NEW i \in Instance, RequestDirected(s, i) PROVE CoordTypeOK' /\ OneDict'
    BY <2>1, <2>3 DEF RequestDirected, MayRequest
  <2> QED
    BY <1>1, <1>2, <2>2, <2>3 DEF Request
<1>3. ASSUME NEW s \in Subject, StartElection(s) PROVE Inv'
  <2>1. PICK hints \in SUBSET Instance : Elect(s, hints)
    BY <1>3 DEF StartElection
  <2> DEFINE cands == [x \in Subject |-> IF x = s THEN hints \ EngagedInstances ELSE {}]
  <2>2. cands \in [Subject -> SUBSET Instance] /\ OpenElections(cands) /\ ~InFlight(s)
    BY <2>1 DEF Elect
  <2>3. \A x \in Subject : cands[x] # {} => ~InFlight(x)
    BY <2>2
  <2> HIDE DEF cands
  <2>4. CoordTypeOK' /\ OneDict'
    BY <2>2, <2>3, OpenElectionsKeeps
  <2> QED
    BY <1>1, <1>3, <2>4 DEF StartElection
<1>4. ASSUME NEW s \in Subject, CancelSubject(s) PROVE Inv'
  <2>1. CoordTypeOK' /\ OneDict'
    BY <1>4, CancelAndForgetKeeps DEF CancelSubject, Cancel
  <2> QED
    BY <1>1, <1>4, <2>1 DEF CancelSubject
<1>5. ASSUME NEW s \in Subject, Tick(s) PROVE Inv'
  <2>1. PICK x \in TickEffects(s) : Perform(s, x)
    BY <1>5 DEF Tick
  <2>2. x \in Effects /\ AtMostOne(x)
    BY TickEffectsType
  <2>3. CoordTypeOK' /\ OneDict'
    BY <2>1, <2>2, PerformKeeps
  <2> QED
    BY <1>1, <1>5, <2>3 DEF Tick
<1>6. ASSUME NEW i \in Instance, Route(i) PROVE Inv'
  <2> DEFINE m == Head(uplink[i])
  <2>1. RespondersTypeOK' /\ m \in Envelope
    BY <1>6, TakeKeeps DEF Route
  <2>2. PICK x \in RouteEffects(m) : Perform(m.id, x)
    BY <1>6 DEF Route
  <2> HIDE DEF m
  <2>3. m.id \in Subject /\ x \in Effects /\ AtMostOne(x)
    BY <2>1, RouteEffectsType DEF Envelope
  <2>4. CoordTypeOK' /\ OneDict'
    BY <2>2, <2>3, PerformKeeps
  <2> QED
    BY <2>1, <2>4
<1>7. CASE Cool
  <2>1. CoordTypeOK' /\ OneDict'
    BY <1>7 DEF Cool, CooldownOver, CoordTypeOK, OneDict, HasHandshake, HasElection
  <2> QED
    BY <1>1, <1>7, <2>1 DEF Cool
<1>8. CASE Environment
  BY <1>8, EnvironmentKeeps
<1>9. CASE UNCHANGED vars
  BY <1>9 DEF vars, coordVars, responderVars, CoordTypeOK, RespondersTypeOK, OneDict,
              HasHandshake, HasElection
<1> QED
  BY <1>2, <1>3, <1>4, <1>5, <1>6, <1>7, <1>8, <1>9 DEF Next

\* Every reachable state of the coordinator and its responders is well typed: in
\* particular whoever was awarded, holds or is giving back a subject has a name.
THEOREM TypeCorrect == Spec => []TypeOK
<1>1. Inv => TypeOK
  BY DEF Inv
<1> QED
  BY <1>1, InitEstablishes, NextKeeps, PTL DEF Spec

\* "A subject is in at most one of them", handshakes and elections, whatever the
\* order of calls, answers, losses and restarts.
THEOREM OneDictHolds == Spec => []OneDict
<1>1. Inv => OneDict
  BY DEF Inv
<1> QED
  BY <1>1, InitEstablishes, NextKeeps, PTL DEF Spec

-----------------------------------------------------------------------------
(* Epochs                                                                  *)

\* The epochs dict covers everything that is said or remembered about a subject: both
\* conversations, the envelopes under way in both directions, and what the instances
\* hold.  Only then is the next epoch above all of them.
ConversationsCovered == \A s \in Subject :
    handshakes[s].epoch <= epochs[s] /\ elections[s].epoch <= epochs[s]

DownCovered == \A p \in Subject \X Instance : \A m \in Elements(net[p]) :
    m.id = p[1] /\ m.epoch <= epochs[p[1]]

UpCovered == \A i \in Instance : \A m \in Elements(uplink[i]) :
    m.inst = i /\ m.epoch <= epochs[m.id]

HoldersCovered == \A i \in Instance :
    inst[i].active # None => inst[i].epoch <= epochs[inst[i].active]

Covered == ConversationsCovered /\ DownCovered /\ UpCovered /\ HoldersCovered

\* What a step about s leaves and sends is covered.
EffectCovered(s, x) ==
    /\ x.hs.epoch <= epochs[s] /\ x.el.epoch <= epochs[s]
    /\ \A m \in x.out : m.id = s /\ m.epoch <= epochs[s]

\* Queues: what is in them after a step was in them before, or has been appended.
LEMMA QueueElements ==
    ASSUME NEW q \in Seq(Envelope), NEW m \in Envelope
    PROVE  /\ Elements(Append(q, m)) \subseteq Elements(q) \cup {m}
           /\ q # <<>> => Elements(Tail(q)) \subseteq Elements(q) /\ Head(q) \in Elements(q)
<1>1. \A k \in 1 .. Len(q) : Append(q, m)[k] = q[k]
  OBVIOUS
<1>2. Append(q, m)[Len(q) + 1] = m /\ DOMAIN Append(q, m) = 1 .. Len(q) + 1 /\ DOMAIN q = 1 .. Len(q)
  OBVIOUS
<1>3. Elements(Append(q, m)) \subseteq Elements(q) \cup {m}
  BY <1>1, <1>2 DEF Elements
<1>4. ASSUME q # <<>>
      PROVE  Elements(Tail(q)) \subseteq Elements(q) /\ Head(q) \in Elements(q)
  <2>1. DOMAIN Tail(q) = 1 .. Len(q) - 1 /\ \A k \in 1 .. Len(q) - 1 : Tail(q)[k] = q[k + 1]
    BY <1>4
  <2>2. Head(q) = q[1] /\ 1 \in DOMAIN q /\ \A k \in 1 .. Len(q) - 1 : k + 1 \in DOMAIN q
    BY <1>4
  <2> QED
    BY <2>1, <2>2 DEF Elements
<1> QED
  BY <1>3, <1>4

\* Sending covered envelopes.
LEMMA SendCovers ==
    ASSUME CoordTypeOK, DownCovered, NEW out \in SUBSET Envelope, Send(out),
           epochs' \in [Subject -> Nat], \A s \in Subject : epochs[s] <= epochs'[s],
           \A m \in out : m.epoch <= epochs'[m.id]
    PROVE  DownCovered'
<1> SUFFICES ASSUME NEW p \in Subject \X Instance, NEW m \in Elements(net'[p])
             PROVE  m.id = p[1] /\ m.epoch <= epochs'[p[1]]
  BY DEF DownCovered
<1> DEFINE new == {e \in out : e.id = p[1] /\ e.inst = p[2]}
<1>1. net'[p] = net[p] \/ (\E e \in new : net'[p] = Append(net[p], e))
  <2>1. net'[p] = Sent(out, p)
    BY DEF Send
  <2>2. CASE new = {}
    BY <2>1, <2>2 DEF Sent
  <2>3. CASE new # {}
    <3>1. (CHOOSE e \in new : TRUE) \in new
      BY <2>3
    <3> QED
      BY <2>1, <3>1 DEF Sent
  <2> QED
    BY <2>2, <2>3
<1>2. net[p] \in Seq(Envelope)
  BY DEF CoordTypeOK
<1>3. m \in Elements(net[p]) \/ m \in new
  <2>1. CASE net'[p] = net[p]
    BY <2>1
  <2>2. ASSUME NEW e \in new, net'[p] = Append(net[p], e)
        PROVE  m \in Elements(net[p]) \/ m \in new
    <3>1. e \in Envelope
      OBVIOUS
    <3> QED
      BY <1>2, <2>2, <3>1, QueueElements
  <2> QED
    BY <1>1, <2>1, <2>2
<1>4. p[1] \in Subject
  OBVIOUS
<1>5. CASE m \in Elements(net[p])
  <2>1. m.id = p[1] /\ m.epoch <= epochs[p[1]] /\ m \in Envelope
    BY <1>2, <1>5 DEF DownCovered, Elements
  <2> QED
    BY <1>4, <2>1 DEF CoordTypeOK, Envelope
<1>6. CASE m \in new
  BY <1>6
<1> QED
  BY <1>3, <1>5, <1>6

\* handle(), tick() and cancel() of an initiator speak of its own attempt, or of the one
\* the envelope is about.
LEMMA InitiatorCovers ==
    ASSUME NEW s \in Subject, NEW h \in Initiator, NEW e \in Nat, h.epoch <= e
    PROVE  /\ \A m \in Envelope : m.id = s /\ m.epoch <= e =>
                 LET o == Handle(h, m)
                 IN  o.next.epoch <= e /\ \A n \in o.out : n.id = s /\ n.epoch <= e
           /\ LET o == Overdue(s, h)
              IN  o.next.epoch <= e /\ \A n \in o.out : n.id = s /\ n.epoch <= e
           /\ LET o == Withdraw(s, h)
              IN  o.next.epoch <= e /\ \A n \in o.out : n.id = s /\ n.epoch <= e
<1>1. ASSUME NEW m \in Envelope, m.id = s, m.epoch <= e
      PROVE  LET o == Handle(h, m)
             IN  o.next.epoch <= e /\ \A n \in o.out : n.id = s /\ n.epoch <= e
  <2> DEFINE linked == [h EXCEPT !.state = "CONFIRMED", !.receiver = m.inst, !.asked = {}]
  <2>1. linked.epoch = h.epoch /\ Finished(h).epoch = h.epoch
    BY DEF Finished, Initiator, InitiatorRecord
  <2> HIDE DEF linked
  <2>2. Handle(h, m).next \in {h, linked, Finished(h)}
    BY DEF Handle, Quietly, Outcome, linked
  <2>3. Handle(h, m).out \subseteq {Env("CANCEL", m.id, m.inst, m.epoch),
                                    Env("COMPLETE_ACK", m.id, m.inst, m.epoch)}
    BY DEF Handle, Quietly, Outcome, LetGo
  <2> QED
    BY <1>1, <2>1, <2>2, <2>3 DEF Env
<1>2. LET o == Overdue(s, h)
      IN  o.next.epoch <= e /\ \A n \in o.out : n.id = s /\ n.epoch <= e
  <2> DEFINE again == [h EXCEPT !.tries = @ + 1]
             ending == [h EXCEPT !.state = "CANCELLED"]
  <2>1. again.epoch = h.epoch /\ ending.epoch = h.epoch /\ Finished(h).epoch = h.epoch
    BY DEF Finished, Initiator, InitiatorRecord
  <2> HIDE DEF again, ending
  <2>2. Overdue(s, h).next \in {h, again, ending, Finished(h)}
    BY DEF Overdue, Quietly, Outcome, again, ending
  <2>3. Overdue(s, h).out \subseteq {Env("CANCEL", s, h.receiver, h.epoch)}
    BY DEF Overdue, Quietly, Outcome
  <2> QED
    BY <2>1, <2>2, <2>3 DEF Env
<1>3. LET o == Withdraw(s, h)
      IN  o.next.epoch <= e /\ \A n \in o.out : n.id = s /\ n.epoch <= e
  BY DEF Withdraw, Quietly, Outcome, Finished, ToEach, Env, Initiator, InitiatorRecord
<1> QED
  BY <1>1, <1>2, <1>3

\* Settling a round speaks of that round.
LEMMA SettledCovers ==
    ASSUME NEW s \in Subject, NEW el \in Election, NEW e \in Nat, el.epoch <= e,
           NEW x \in Settled(s, el)
    PROVE  /\ x.hs.epoch <= e /\ x.el.epoch <= e
           /\ \A m \in x.out : m.id = s /\ m.epoch <= e
<1>1. PICK w \in Winners(el) :
         x = Effect(Settle(s, el, w), NoElection, AwardOut(s, el, w), "NOTHING", None)
  BY DEF Settled
<1>2. x.hs = Settle(s, el, w) /\ x.el = NoElection /\ x.out = AwardOut(s, el, w)
  BY <1>1 DEF Effect
<1>3. x.hs.epoch <= e /\ x.el.epoch <= e
  BY <1>2 DEF Settle, NoInitiator, NoElection, Awarded, Election
<1>4. \A m \in x.out : m.id = s /\ m.epoch <= e
  BY <1>2 DEF AwardOut, ToEach, Env
<1> QED
  BY <1>3, <1>4

\* So do route(), tick() and cancel().
LEMMA MethodsCover ==
    ASSUME CoordTypeOK, ConversationsCovered
    PROVE  /\ \A m \in Envelope : m.epoch <= epochs[m.id] =>
                 \A x \in RouteEffects(m) : EffectCovered(m.id, x)
           /\ \A s \in Subject : \A x \in TickEffects(s) : EffectCovered(s, x)
           /\ \A s \in Subject : EffectCovered(s, CancelEffect(s))
<1>1. ASSUME NEW s \in Subject
      PROVE  /\ handshakes[s] \in Initiator /\ elections[s] \in Election /\ epochs[s] \in Nat
             /\ handshakes[s].epoch <= epochs[s] /\ elections[s].epoch <= epochs[s]
  BY DEF CoordTypeOK, ConversationsCovered
<1>2. NoInitiator.epoch = 0 /\ NoElection.epoch = 0
  BY DEF NoInitiator, NoElection
<1>3. ASSUME NEW m \in Envelope, m.epoch <= epochs[m.id], NEW x \in RouteEffects(m)
      PROVE  EffectCovered(m.id, x)
  <2> DEFINE s == m.id
             tallied == Tally(elections[s], m)
  <2>1. s \in Subject
    BY DEF Envelope
  <2>2. \A n \in OrphanReply(m) \cup LetGo(m) : n.id = m.id /\ n.epoch = m.epoch
    <3>1. \A n \in LetGo(m) : n.id = m.id /\ n.epoch = m.epoch
      BY DEF LetGo, Env
    <3>2. \A n \in OrphanReply(m) : n.id = m.id /\ n.epoch = m.epoch
      BY <3>1 DEF OrphanReply, Env
    <3> QED
      BY <3>1, <3>2
  <2>3. tallied \in Election /\ tallied.epoch = elections[s].epoch
    <3>1. tallied \in Election
      BY <1>1, <2>1, TallyType
    <3>2. tallied.epoch = elections[s].epoch
      BY <1>1, <2>1 DEF Tally, Election
    <3> QED
      BY <3>1, <3>2
  <2>4. CASE HasElection(s) /\ tallied.silent = {}
    <3>1. x \in Settled(s, tallied)
      BY <1>3, <2>4 DEF RouteEffects
    <3> HIDE DEF tallied
    <3>2. tallied.epoch <= epochs[s]
      BY <1>1, <2>1, <2>3
    <3>3. x.hs.epoch <= epochs[s] /\ x.el.epoch <= epochs[s]
          /\ \A n \in x.out : n.id = s /\ n.epoch <= epochs[s]
      BY <1>1, <2>1, <2>3, <3>1, <3>2, SettledCovers
    <3> QED
      BY <3>3 DEF EffectCovered
  <2>5. CASE HasElection(s) /\ tallied.silent # {}
    <3>1. x = Effect(handshakes[s], tallied, TallyOut(elections[s], m), "NOTHING", None)
      BY <1>3, <2>5 DEF RouteEffects
    <3>2. x.hs = handshakes[s] /\ x.el = tallied /\ x.out \subseteq LetGo(m)
      BY <3>1 DEF Effect, TallyOut
    <3> QED
      BY <1>1, <1>3, <2>1, <2>2, <2>3, <3>2 DEF EffectCovered
  <2>6. CASE ~HasElection(s) /\ HasHandshake(s)
    <3>1. x = FromInitiator(Handle(handshakes[s], m))
      BY <1>3, <2>6 DEF RouteEffects
    <3>2. x.hs = Handle(handshakes[s], m).next /\ x.el = NoElection
          /\ x.out = Handle(handshakes[s], m).out
      BY <3>1 DEF FromInitiator, Effect
    <3> QED
      BY <1>1, <1>2, <1>3, <2>1, <3>2, InitiatorCovers DEF EffectCovered
  <2>7. CASE ~HasElection(s) /\ ~HasHandshake(s)
    <3>1. x.hs = NoInitiator /\ x.el = NoElection /\ x.out = OrphanReply(m)
      BY <1>3, <2>7 DEF RouteEffects, Effect
    <3> QED
      BY <1>1, <1>2, <1>3, <2>1, <2>2, <3>1 DEF EffectCovered
  <2> QED
    BY <2>4, <2>5, <2>6, <2>7
<1>4. ASSUME NEW s \in Subject, NEW x \in TickEffects(s)
      PROVE  EffectCovered(s, x)
  <2>1. CASE HasElection(s)
    BY <1>1, <1>4, <2>1, SettledCovers DEF TickEffects, EffectCovered
  <2>2. CASE ~HasElection(s)
    <3>1. x.hs = Overdue(s, handshakes[s]).next /\ x.el = NoElection
          /\ x.out = Overdue(s, handshakes[s]).out
      BY <1>4, <2>2 DEF TickEffects, FromInitiator, Effect
    <3> QED
      BY <1>1, <1>2, <3>1, InitiatorCovers DEF EffectCovered
  <2> QED
    BY <2>1, <2>2
<1>5. ASSUME NEW s \in Subject PROVE EffectCovered(s, CancelEffect(s))
  <2> DEFINE o == Withdraw(s, handshakes[s])
             x == CancelEffect(s)
             calls == ToEach("CANCEL", s, EngagedIn(elections[s]), elections[s].epoch)
  <2>1. \/ x.hs = NoInitiator /\ x.el = NoElection /\ x.out \subseteq calls
        \/ x.hs = handshakes[s] /\ x.el = NoElection /\ x.out = {}
        \/ x.hs = o.next /\ x.el = NoElection /\ x.out = o.out
    BY DEF CancelEffect, FromInitiator, Effect
  <2>2. \A n \in calls : n.id = s /\ n.epoch = elections[s].epoch
    BY DEF ToEach, Env
  <2> HIDE DEF o, x, calls
  <2>3. o.next.epoch <= epochs[s] /\ \A n \in o.out : n.id = s /\ n.epoch <= epochs[s]
    BY <1>1, InitiatorCovers DEF o
  <2>4. EffectCovered(s, x)
    BY <1>1, <1>2, <2>1, <2>2, <2>3 DEF EffectCovered
  <2> QED
    BY <2>4 DEF x
<1> QED
  BY <1>3, <1>4, <1>5

\* A coordinator that forgets nobody: epochs only grow.
LEMMA PerformCovers ==
    ASSUME CoordTypeOK, Covered, UNCHANGED inst, UpCovered', NEW s \in Subject,
           NEW x \in Effects, EffectCovered(s, x), Perform(s, x)
    PROVE  Covered'
<1>1. /\ handshakes' = [handshakes EXCEPT ![s] = Retire(x.hs)]
      /\ elections' = [elections EXCEPT ![s] = x.el]
      /\ Send(x.out) /\ epochs' = epochs /\ x.out \in SUBSET Envelope
  BY DEF Perform, Interrupted, Effects
<1>2. Retire(x.hs).epoch <= epochs[s]
  BY DEF Retire, NoInitiator, EffectCovered, CoordTypeOK
<1>3. ConversationsCovered'
  BY <1>1, <1>2 DEF Covered, ConversationsCovered, CoordTypeOK, EffectCovered
<1>4. DownCovered'
  BY <1>1, SendCovers DEF Covered, CoordTypeOK, EffectCovered
<1>5. HoldersCovered'
  BY <1>1 DEF Covered, HoldersCovered
<1> QED
  BY <1>3, <1>4, <1>5 DEF Covered

\* A new attempt is covered by the epoch it opens.
LEMMA StartsCover ==
    ASSUME Inv, Covered, UNCHANGED responderVars, NEW s \in Subject,
           \/ \E targets \in [Subject -> SUBSET Instance] : OpenRequests({s}, targets)
           \/ \E cands \in [Subject -> SUBSET Instance] :
                 (\A t \in Subject \ {s} : cands[t] = {}) /\ OpenElections(cands)
    PROVE  /\ Covered'
           /\ \A t \in Subject \ {s} : handshakes'[t] = handshakes[t] /\ elections'[t] = elections[t]
           /\ HasElection(s)' => elections[s].candidates # {} \/ elections'[s].epoch = epochs[s] + 1
           /\ ~HasElection(s)' => handshakes'[s] = handshakes[s] \/ handshakes'[s].epoch = epochs[s] + 1
<1> USE DEF Inv, TypeOK
<1>0. epochs \in [Subject -> Nat] /\ handshakes \in [Subject -> Initiator]
      /\ elections \in [Subject -> Election]
  BY DEF CoordTypeOK
<1>1. ASSUME epochs' \in [Subject -> Nat], \A t \in Subject : epochs[t] <= epochs'[t]
      PROVE  UpCovered' /\ HoldersCovered'
  <2>1. UpCovered'
    <3> SUFFICES ASSUME NEW i \in Instance, NEW m \in Elements(uplink[i])
                 PROVE  m.inst = i /\ m.epoch <= epochs'[m.id]
      BY DEF responderVars, UpCovered
    <3>1. m \in Envelope /\ m.inst = i /\ m.epoch <= epochs[m.id]
      BY DEF Covered, UpCovered, RespondersTypeOK, Elements
    <3> QED
      BY <1>0, <1>1, <3>1 DEF Envelope
  <2>2. HoldersCovered'
    <3> SUFFICES ASSUME NEW i \in Instance, inst[i].active # None
                 PROVE  inst[i].epoch <= epochs'[inst[i].active]
      BY DEF responderVars, HoldersCovered
    <3>1. /\ inst[i].active \in Subject /\ inst[i].epoch \in Nat
          /\ inst[i].epoch <= epochs[inst[i].active]
      BY DEF Covered, HoldersCovered, RespondersTypeOK, Holding
    <3> QED
      BY <1>0, <1>1, <3>1
  <2> QED
    BY <2>1, <2>2
<1>2. ASSUME NEW targets \in [Subject -> SUBSET Instance], OpenRequests({s}, targets)
      PROVE  /\ Covered'
             /\ \A t \in Subject \ {s} : handshakes'[t] = handshakes[t]
             /\ elections' = elections /\ handshakes'[s].epoch = epochs[s] + 1
  <2> DEFINE asked(t) == IF targets[t] = {} THEN Instance ELSE targets[t]
             out == UNION {ToEach("REQUEST", t, asked(t), epochs[t] + 1) : t \in {s}}
  <2>1. /\ handshakes' = [t \in Subject |-> IF t = s THEN Requested(targets[t], epochs[t] + 1)
                                            ELSE handshakes[t]]
        /\ epochs' = [t \in Subject |-> IF t = s THEN epochs[t] + 1 ELSE epochs[t]]
        /\ Send(out) /\ elections' = elections
    BY <1>2 DEF OpenRequests
  <2>2. epochs' \in [Subject -> Nat] /\ \A t \in Subject : epochs[t] <= epochs'[t]
    BY <1>0, <2>1
  <2>3. handshakes'[s].epoch = epochs[s] + 1
    BY <2>1 DEF Requested
  <2>4. ConversationsCovered'
    BY <1>0, <2>1, <2>2, <2>3 DEF Covered, ConversationsCovered, Initiator, InitiatorRecord, Election
  <2>5. out \in SUBSET Envelope /\ \A m \in out : m.epoch <= epochs'[m.id]
    BY <1>0, <2>1 DEF ToEach, Env, Envelope, ToInstance
  <2> HIDE DEF out
  <2>6. DownCovered'
    BY <2>1, <2>2, <2>5, SendCovers DEF Covered
  <2> QED
    BY <1>1, <2>1, <2>2, <2>3, <2>4, <2>6 DEF Covered
<1>3. ASSUME NEW cands \in [Subject -> SUBSET Instance], OpenElections(cands),
             \A t \in Subject \ {s} : cands[t] = {}
      PROVE  /\ Covered'
             /\ \A t \in Subject \ {s} : elections'[t] = elections[t]
             /\ handshakes' = handshakes
             /\ elections'[s] = elections[s] \/ elections'[s].epoch = epochs[s] + 1
  <2> DEFINE who == {t \in Subject : cands[t] # {}}
             out == UNION {ToEach("REQUEST_BID", t, cands[t], epochs[t] + 1) : t \in who}
  <2>1. /\ elections' = [t \in Subject |-> IF t \in who THEN Opened(cands[t], epochs[t] + 1)
                                           ELSE elections[t]]
        /\ epochs' = [t \in Subject |-> IF t \in who THEN epochs[t] + 1 ELSE epochs[t]]
        /\ Send(out) /\ handshakes' = handshakes
    BY <1>3 DEF OpenElections
  <2>2. epochs' \in [Subject -> Nat] /\ \A t \in Subject : epochs[t] <= epochs'[t]
    BY <1>0, <2>1
  <2>3. \A t \in Subject : elections'[t] = elections[t]
                           \/ (t = s /\ elections'[t].epoch = epochs[t] + 1 /\ epochs'[t] = epochs[t] + 1)
    BY <1>3, <2>1 DEF Opened
  <2>4. ConversationsCovered'
    BY <1>0, <2>1, <2>2, <2>3 DEF Covered, ConversationsCovered, Initiator, InitiatorRecord, Election
  <2>5. out \in SUBSET Envelope /\ \A m \in out : m.epoch <= epochs'[m.id]
    BY <1>0, <2>1 DEF ToEach, Env, Envelope, ToInstance
  <2> HIDE DEF out, who
  <2>6. DownCovered'
    BY <2>1, <2>2, <2>5, SendCovers DEF Covered
  <2> QED
    BY <1>1, <2>1, <2>2, <2>3, <2>4, <2>6 DEF Covered
<1> QED
  BY <1>2, <1>3 DEF HasElection

\* Cancelling a conversation speaks of what it was about.
LEMMA CancelCovers ==
    ASSUME Inv, Covered, UNCHANGED responderVars, NEW s \in Subject, Cancel(s)
    PROVE  Covered'
<1> USE DEF Inv, TypeOK
<1>1. CancelEffect(s) \in Effects /\ EffectCovered(s, CancelEffect(s))
  BY CancelEffectType, MethodsCover DEF Covered
<1>2. /\ handshakes' = [t \in Subject |-> IF t = s THEN Retire(CancelEffect(s).hs)
                                          ELSE handshakes[t]]
      /\ elections' = [t \in Subject |-> IF t = s THEN NoElection ELSE elections[t]]
      /\ epochs' = [t \in Subject |-> epochs[t]]
      /\ Send(UNION {CancelEffect(t).out : t \in {s}})
  BY DEF Cancel, CancelAndForget
<1>3. epochs' = epochs /\ Send(CancelEffect(s).out)
  <2>1. UNION {CancelEffect(t).out : t \in {s}} = CancelEffect(s).out
    OBVIOUS
  <2> QED
    BY <1>2, <2>1 DEF CoordTypeOK
<1>4. Retire(CancelEffect(s).hs).epoch <= epochs[s] /\ NoElection.epoch <= epochs[s]
  BY <1>1 DEF Retire, NoInitiator, NoElection, EffectCovered, CoordTypeOK
<1>5. ConversationsCovered'
  BY <1>2, <1>3, <1>4 DEF Covered, ConversationsCovered
<1>6. DownCovered'
  <2> DEFINE out == CancelEffect(s).out
  <2>1. out \in SUBSET Envelope /\ \A m \in out : m.id = s /\ m.epoch <= epochs[s]
    BY <1>1 DEF EffectCovered, Effects
  <2> HIDE DEF out
  <2>2. epochs' \in [Subject -> Nat] /\ \A t \in Subject : epochs[t] <= epochs'[t]
    BY <1>3 DEF CoordTypeOK
  <2>3. Send(out) /\ \A m \in out : m.epoch <= epochs'[m.id]
    BY <1>3, <2>1 DEF out
  <2> QED
    BY <2>1, <2>2, <2>3, SendCovers DEF Covered
<1> QED
  BY <1>3, <1>5, <1>6 DEF Covered, UpCovered, HoldersCovered, responderVars

\* The aggregate reads an envelope: what is left on the bus was covered, and so was m.
LEMMA TakeCovers ==
    ASSUME RespondersTypeOK, UpCovered, NEW i \in Instance, Take(i), epochs' = epochs
    PROVE  /\ UpCovered'
           /\ Head(uplink[i]) \in Envelope /\ Head(uplink[i]).inst = i
           /\ Head(uplink[i]).epoch <= epochs[Head(uplink[i]).id]
<1>1. uplink[i] # <<>> /\ uplink' = [uplink EXCEPT ![i] = Tail(uplink[i])]
      /\ uplink[i] \in Seq(Envelope)
  BY DEF Take, RespondersTypeOK
<1>2. Head(uplink[i]) \in Envelope
  BY <1>1
<1>3. Elements(Tail(uplink[i])) \subseteq Elements(uplink[i])
      /\ Head(uplink[i]) \in Elements(uplink[i])
  BY <1>1, <1>2, QueueElements
<1>4. UpCovered'
  BY <1>1, <1>3 DEF UpCovered, RespondersTypeOK
<1> QED
  BY <1>2, <1>3, <1>4 DEF UpCovered

\* An instance says something about what it was asked or holds.
LEMMA AnswerCovers ==
    ASSUME Inv, Covered, NEW i \in Instance, NEW m \in Envelope, m.epoch <= epochs[m.id],
           NEW holding \in Holding,
           holding.active # None => holding.epoch <= epochs[holding.active],
           epochs' = epochs,
           Read(i, m, holding) \/ \E st \in ToAggregate : Answer(i, m, holding, st)
    PROVE  UpCovered' /\ HoldersCovered'
<1> USE DEF Inv, TypeOK
<1>1. inst' = [inst EXCEPT ![i] = holding]
  BY DEF Read, Answer
<1>2. HoldersCovered'
  BY <1>1 DEF Covered, HoldersCovered, RespondersTypeOK
<1>3. CASE Read(i, m, holding)
  BY <1>2, <1>3 DEF Read, Covered, UpCovered
<1>4. ASSUME NEW st \in ToAggregate, Answer(i, m, holding, st)
      PROVE  UpCovered'
  <2>1. Env(st, m.id, i, m.epoch) \in Envelope
    BY EnvelopeType DEF Envelope
  <2>2. uplink' = [uplink EXCEPT ![i] = Append(uplink[i], Env(st, m.id, i, m.epoch))]
        /\ uplink[i] \in Seq(Envelope)
    BY <1>4 DEF Answer, RespondersTypeOK
  <2>3. Elements(Append(uplink[i], Env(st, m.id, i, m.epoch)))
          \subseteq Elements(uplink[i]) \cup {Env(st, m.id, i, m.epoch)}
    BY <2>1, <2>2, QueueElements
  <2> QED
    BY <2>2, <2>3 DEF Covered, UpCovered, RespondersTypeOK, Env
<1> QED
  BY <1>2, <1>3, <1>4

\* An instance or the network takes the next envelope of a conversation.
LEMMA TailCovers ==
    ASSUME CoordTypeOK, DownCovered, NEW s \in Subject, NEW i \in Instance,
           net[<<s, i>>] # <<>>, net' = [net EXCEPT ![<<s, i>>] = Tail(net[<<s, i>>])],
           epochs' = epochs
    PROVE  /\ DownCovered'
           /\ Head(net[<<s, i>>]) \in Envelope /\ Head(net[<<s, i>>]).id = s
           /\ Head(net[<<s, i>>]).epoch <= epochs[s]
<1> DEFINE p == <<s, i>>
<1>1. p \in Subject \X Instance /\ p[1] = s /\ net[p] \in Seq(Envelope)
  BY DEF CoordTypeOK
<1>2. Head(net[p]) \in Envelope
  BY <1>1
<1>3. Elements(Tail(net[p])) \subseteq Elements(net[p]) /\ Head(net[p]) \in Elements(net[p])
  BY <1>1, <1>2, QueueElements
<1>4. Head(net[p]).id = s /\ Head(net[p]).epoch <= epochs[s]
  BY <1>1, <1>3 DEF DownCovered
<1>5. DownCovered'
  <2> SUFFICES ASSUME NEW q \in Subject \X Instance, NEW m \in Elements(net'[q])
               PROVE  m.id = q[1] /\ m.epoch <= epochs[q[1]]
    BY DEF DownCovered
  <2>1. m \in Elements(net[q])
    BY <1>1, <1>3 DEF CoordTypeOK
  <2> QED
    BY <2>1 DEF DownCovered
<1> QED
  BY <1>2, <1>4, <1>5

\* What an instance ends up with after reading a covered envelope is covered.
LEMMA ReceiveCovers ==
    ASSUME Inv, Covered, NEW i \in Instance, Receive(i)
    PROVE  Covered'
<1> USE DEF Inv, TypeOK
<1> DEFINE Fine(h) == h \in Holding /\ (h.active # None => h.epoch <= epochs[h.active])
<1>1. PICK s \in Subject :
         /\ net[<<s, i>>] # <<>>
         /\ net' = [net EXCEPT ![<<s, i>>] = Tail(@)]
         /\ UNCHANGED <<handshakes, elections, epochs, cooling>>
         /\ LET m == Head(net[<<s, i>>])
            IN  \/ OnRequest(i, m) \/ OnRequestBid(i, m) \/ OnAward(i, m)
                \/ OnCancel(i, m) \/ OnCompleteAck(i, m)
  BY DEF Receive
<1> DEFINE m == Head(net[<<s, i>>])
<1>2. DownCovered' /\ m \in Envelope /\ m.id = s /\ m.epoch <= epochs[m.id]
  BY <1>1, TailCovers DEF Covered
<1>3. OnRequest(i, m) \/ OnRequestBid(i, m) \/ OnAward(i, m)
        \/ OnCancel(i, m) \/ OnCompleteAck(i, m)
  BY <1>1
<1> HIDE DEF m
<1>4. m.id \in Subject /\ m.epoch \in Nat /\ Fine(inst[i])
  BY <1>2 DEF Covered, HoldersCovered, RespondersTypeOK, Envelope
<1>5. Fine([active |-> m.id, epoch |-> m.epoch, reserved |-> {}])
  BY <1>2, <1>4 DEF Holding
<1>6. inst[i].active = m.id => Fine([inst[i] EXCEPT !.epoch = m.epoch])
  BY <1>2, <1>4 DEF Holding
<1>7. Fine([inst[i] EXCEPT !.reserved = {<<m.id, m.epoch>>}])
  BY <1>4 DEF Holding
<1>8. Fine(WithoutActive(i, m))
  BY <1>4 DEF WithoutActive, Holding
<1>9. Fine([WithoutActive(i, m) EXCEPT !.reserved = {r \in @ : r[1] # m.id \/ r[2] > m.epoch}])
  BY <1>8 DEF Holding
<1>10. \E h \in Holding : Fine(h) /\ (Read(i, m, h) \/ \E st \in ToAggregate : Answer(i, m, h, st))
  <2> HIDE DEF Fine
  <2>0. \A h : Fine(h) => h \in Holding
    BY DEF Fine
  <2>1. CASE OnRequest(i, m)
    BY <1>4, <1>5, <1>6, <2>0, <2>1 DEF OnRequest, ToAggregate
  <2>2. CASE OnRequestBid(i, m)
    BY <1>4, <1>7, <2>0, <2>2 DEF OnRequestBid, ToAggregate
  <2>3. CASE OnAward(i, m)
    BY <1>4, <1>5, <2>0, <2>3 DEF OnAward, ToAggregate
  <2>4. CASE OnCancel(i, m)
    BY <1>9, <2>0, <2>4 DEF OnCancel, ToAggregate
  <2>5. CASE OnCompleteAck(i, m)
    BY <1>8, <2>0, <2>5 DEF OnCompleteAck
  <2> QED
    BY <1>3, <2>1, <2>2, <2>3, <2>4, <2>5
<1>11. UpCovered' /\ HoldersCovered'
  BY <1>1, <1>2, <1>10, AnswerCovers
<1> QED
  BY <1>1, <1>2, <1>11 DEF Covered, ConversationsCovered

\* An instance that speaks up by itself speaks of the attempt it holds.
LEMMA AnnounceCovers ==
    ASSUME Inv, Covered, NEW i \in Instance, NEW st \in ToAggregate, NEW holding \in Holding,
           holding.active # None => holding.epoch <= epochs[holding.active],
           Announce(i, st, holding)
    PROVE  Covered'
<1> USE DEF Inv, TypeOK
<1> DEFINE m == Env(st, inst[i].active, i, inst[i].epoch)
<1>1. m \in Envelope /\ m.id = inst[i].active /\ m.epoch = inst[i].epoch
      /\ m.epoch <= epochs[m.id]
  BY DEF Announce, Free, RespondersTypeOK, Holding, Envelope, Env, Covered, HoldersCovered
<1>2. UNCHANGED coordVars /\ inst' = [inst EXCEPT ![i] = holding]
      /\ uplink' = [uplink EXCEPT ![i] = Append(@, m)]
  BY DEF Announce
<1>3. Answer(i, m, holding, st)
  BY <1>1, <1>2 DEF Answer
<1> HIDE DEF m
<1>4. UpCovered' /\ HoldersCovered'
  BY <1>1, <1>2, <1>3, AnswerCovers DEF coordVars
<1> QED
  BY <1>2, <1>4 DEF Covered, ConversationsCovered, DownCovered, coordVars

\* No step of the instances or of the network invents an epoch.
LEMMA EnvironmentCovers ==
    ASSUME Inv, Covered, Environment
    PROVE  Covered'
<1> USE DEF Inv, TypeOK
<1>1. ASSUME UNCHANGED coordVars
      PROVE  ConversationsCovered' /\ DownCovered'
  BY <1>1 DEF coordVars, Covered, ConversationsCovered, DownCovered
<1>2. ASSUME NEW i \in Instance, InstanceStep(i) PROVE Covered'
  <2>1. inst[i] \in Holding /\ (inst[i].active # None => inst[i].epoch <= epochs[inst[i].active])
    BY DEF Covered, HoldersCovered, RespondersTypeOK
  <2>2. CASE Receive(i)
    BY <2>2, ReceiveCovers
  <2>3. CASE Revoke(i)
    <3> DEFINE let == [inst[i] EXCEPT !.active = None, !.epoch = 0]
    <3>1. let \in Holding /\ let.active = None
      BY <2>1 DEF Holding
    <3> QED
      BY <2>3, <3>1, AnnounceCovers DEF Revoke, ToAggregate
  <2>4. CASE Complete(i)
    BY <2>1, <2>4, AnnounceCovers DEF Complete, ToAggregate
  <2>5. ASSUME NEW h \in Holding, inst' = [inst EXCEPT ![i] = h],
               UNCHANGED <<coordVars, uplink>>, h.active \in {None, inst[i].active},
               h.active # None => h.epoch = inst[i].epoch
        PROVE  Covered'
    BY <1>1, <2>1, <2>5 DEF Covered, UpCovered, HoldersCovered, RespondersTypeOK, coordVars
  <2>6. CASE ReservationLapses(i)
    <3>1. [inst[i] EXCEPT !.reserved = {}] \in Holding
      BY <2>1 DEF Holding
    <3> QED
      BY <2>1, <2>5, <2>6, <3>1 DEF ReservationLapses, Holding
  <2>7. CASE Restart(i)
    BY <2>5, <2>7 DEF Restart, Idle, Holding
  <2> QED
    BY <1>2, <2>2, <2>3, <2>4, <2>6, <2>7 DEF InstanceStep
<1>3. ASSUME NEW s \in Subject, NEW i \in Instance, LoseDown(s, i) PROVE Covered'
  <2>1. DownCovered'
    BY <1>3, TailCovers DEF LoseDown, Covered
  <2> QED
    BY <1>3, <2>1 DEF LoseDown, Covered, ConversationsCovered, UpCovered, HoldersCovered
<1>4. ASSUME NEW i \in Instance, LoseUp(i) PROVE Covered'
  <2>1. UpCovered'
    BY <1>4, TakeCovers DEF LoseUp, Covered, coordVars
  <2> QED
    BY <1>1, <1>4, <2>1 DEF LoseUp, Take, Covered, HoldersCovered, coordVars
<1> QED
  BY <1>2, <1>3, <1>4 DEF Environment, Lose

\* request() and elect() open at most one conversation.
LEMMA OpensOne ==
    ASSUME NEW s \in Subject, Request(s) \/ StartElection(s)
    PROVE  /\ UNCHANGED responderVars /\ ~InFlight(s)
           /\ \/ \E targets \in [Subject -> SUBSET Instance] : OpenRequests({s}, targets)
              \/ \E cands \in [Subject -> SUBSET Instance] :
                    (\A t \in Subject \ {s} : cands[t] = {}) /\ OpenElections(cands)
<1>1. CASE Request(s)
  BY <1>1 DEF Request, RequestPooled, RequestDirected, MayRequest
<1>2. CASE StartElection(s)
  <2>1. PICK hints \in SUBSET Instance : Elect(s, hints)
    BY <1>2 DEF StartElection
  <2> DEFINE cands == [x \in Subject |-> IF x = s THEN hints \ EngagedInstances ELSE {}]
  <2>2. cands \in [Subject -> SUBSET Instance] /\ OpenElections(cands) /\ ~InFlight(s)
    BY <2>1 DEF Elect
  <2>3. \A t \in Subject \ {s} : cands[t] = {}
    OBVIOUS
  <2> HIDE DEF cands
  <2> QED
    BY <1>2, <2>2, <2>3 DEF StartElection
<1> QED
  BY <1>1, <1>2

\* No step speaks or remembers beyond the epochs dict.
LEMMA NextCovers == Inv /\ Covered /\ [Next]_vars => Covered'
<1> SUFFICES ASSUME Inv, Covered, [Next]_vars PROVE Covered'
  OBVIOUS
<1> USE DEF Inv, TypeOK
<1>1. ASSUME NEW s \in Subject, Request(s) \/ StartElection(s) PROVE Covered'
  BY <1>1, OpensOne, StartsCover DEF Request, StartElection
<1>2. ASSUME NEW s \in Subject, CancelSubject(s) PROVE Covered'
  BY <1>2, CancelCovers DEF CancelSubject
<1>3. ASSUME NEW s \in Subject, Tick(s) PROVE Covered'
  <2>1. PICK x \in TickEffects(s) : Perform(s, x)
    BY <1>3 DEF Tick
  <2>2. x \in Effects /\ EffectCovered(s, x)
    BY TickEffectsType, MethodsCover DEF Covered
  <2>3. UNCHANGED inst /\ UpCovered'
    BY <1>3, <2>1 DEF Tick, Perform, Interrupted, responderVars, Covered, UpCovered
  <2> QED
    BY <2>1, <2>2, <2>3, PerformCovers
<1>4. ASSUME NEW i \in Instance, Route(i) PROVE Covered'
  <2> DEFINE m == Head(uplink[i])
  <2>1. PICK x \in RouteEffects(m) : Perform(m.id, x)
    BY <1>4 DEF Route
  <2>2. Take(i) /\ epochs' = epochs
    BY <1>4, <2>1 DEF Route, Perform, Interrupted
  <2>3. UpCovered' /\ m \in Envelope /\ m.epoch <= epochs[m.id]
    BY <2>2, TakeCovers DEF Covered
  <2> HIDE DEF m
  <2>4. m.id \in Subject /\ x \in Effects /\ EffectCovered(m.id, x)
    BY <2>1, <2>3, RouteEffectsType, MethodsCover DEF Covered, Envelope
  <2> QED
    BY <2>1, <2>2, <2>3, <2>4, PerformCovers DEF Take
<1>5. CASE Cool
  BY <1>5 DEF Cool, CooldownOver, responderVars, Covered, ConversationsCovered,
              DownCovered, UpCovered, HoldersCovered
<1>6. CASE Environment
  BY <1>6, EnvironmentCovers
<1>7. CASE UNCHANGED vars
  BY <1>7 DEF vars, coordVars, responderVars, Covered, ConversationsCovered,
              DownCovered, UpCovered, HoldersCovered
<1> QED
  BY <1>1, <1>2, <1>3, <1>4, <1>5, <1>6, <1>7 DEF Next

\* Nothing is said yet.
LEMMA InitCovers == Init => Covered
BY DEF Init, CoordInit, RespondersInit, Covered, ConversationsCovered, DownCovered, UpCovered,
       HoldersCovered, NoInitiator, NoElection, Idle, Elements

\* The environment leaves both dicts to the aggregate.
LEMMA EnvironmentLeaves == Environment => UNCHANGED <<handshakes, elections, epochs>>
BY DEF Environment, InstanceStep, Receive, Revoke, Complete, Announce, ReservationLapses,
       Restart, Lose, LoseUp, LoseDown, coordVars

\* Only request() and elect() open a conversation, and with the next epoch.
LEMMA OpensNext ==
    ASSUME Inv, Covered, [Next]_vars, NEW s \in Subject, ~InFlight(s), InFlight(s)'
    PROVE  AttemptEpoch(s)' = epochs[s] + 1
<1> USE DEF Inv, TypeOK, InFlight, HasHandshake, HasElection
<1>0. handshakes \in [Subject -> Initiator] /\ elections \in [Subject -> Election]
  BY DEF CoordTypeOK
<1>1. ~(handshakes'[s] = handshakes[s] /\ elections'[s] = elections[s])
  OBVIOUS
<1>2. ASSUME NEW t \in Subject, Request(t) \/ StartElection(t)
      PROVE  AttemptEpoch(s)' = epochs[s] + 1
  BY <1>1, <1>2, OpensOne, StartsCover DEF AttemptEpoch
<1>3. ASSUME NEW t \in Subject, CancelSubject(t) PROVE FALSE
  BY <1>1, <1>3 DEF CancelSubject, Cancel, CancelAndForget
<1>4. ASSUME NEW t \in Subject, NEW x \in Effects, Perform(t, x), t # s PROVE FALSE
  BY <1>0, <1>1, <1>4 DEF Perform, Interrupted
<1>5. ASSUME NEW t \in Subject, Tick(t) PROVE FALSE
  BY <1>4, <1>5, TickEffectsType DEF Tick
<1>6. ASSUME NEW i \in Instance, Route(i) PROVE FALSE
  <2> DEFINE m == Head(uplink[i])
  <2>1. PICK x \in RouteEffects(m) : Perform(m.id, x)
    BY <1>6 DEF Route
  <2>2. m \in Envelope
    BY <1>6, TakeKeeps DEF Route
  <2> HIDE DEF m
  <2>3. m.id = s /\ x \in Effects
    BY <1>4, <2>1, <2>2, RouteEffectsType DEF Envelope
  <2>4. x.hs = NoInitiator /\ x.el = NoElection
    BY <2>1, <2>3 DEF RouteEffects, Effect
  <2>5. handshakes'[s] = NoInitiator /\ elections'[s] = NoElection
    BY <1>0, <2>1, <2>3, <2>4 DEF Perform, Interrupted, Retire, Effects
  <2> QED
    BY <2>5 DEF NoInitiator, NoElection
<1>7. CASE Cool
  BY <1>1, <1>7 DEF Cool, CooldownOver
<1>8. CASE Environment
  BY <1>1, <1>8, EnvironmentLeaves
<1>9. CASE UNCHANGED vars
  BY <1>1, <1>9 DEF vars, coordVars
<1> QED
  BY <1>2, <1>3, <1>5, <1>6, <1>7, <1>8, <1>9 DEF Next

\* The property the epochs dict exists for: under any losses, restarts and reorderings
\* of conversations, a new attempt at a subject has an epoch above that of every
\* envelope still under way about it, so neither side takes an old answer for a new one.
THEOREM FreshAttemptsHolds == Spec => FreshAttempts
<1>1. Inv /\ Covered /\ [Next]_vars =>
        [\A s \in Subject : OpensFresh(s, ToInstance \cup ToAggregate)]_vars
  <2> SUFFICES ASSUME Inv, Covered, [Next]_vars, NEW s \in Subject, ~InFlight(s), InFlight(s)',
                      NEW m \in InTransit(s)
               PROVE  m.epoch < AttemptEpoch(s)'
    BY DEF OpensFresh
  <2>1. m \in Envelope /\ m.id = s /\ m.epoch <= epochs[s]
    <3>1. ASSUME NEW i \in Instance, m \in Elements(net[<<s, i>>])
          PROVE  m \in Envelope /\ m.id = s /\ m.epoch <= epochs[s]
      <4>1. <<s, i>> \in Subject \X Instance /\ <<s, i>>[1] = s
        OBVIOUS
      <4>2. net[<<s, i>>] \in Seq(Envelope)
        BY <4>1 DEF Inv, TypeOK, CoordTypeOK
      <4>3. m \in Envelope
        BY <3>1, <4>2 DEF Elements
      <4> QED
        BY <3>1, <4>1, <4>3 DEF Covered, DownCovered
    <3>2. ASSUME NEW i \in Instance, m \in Elements(uplink[i]), m.id = s
          PROVE  m \in Envelope /\ m.id = s /\ m.epoch <= epochs[s]
      BY <3>2 DEF Covered, UpCovered, Inv, TypeOK, RespondersTypeOK, Elements
    <3>3. \/ \E i \in Instance : m \in Elements(net[<<s, i>>])
          \/ \E i \in Instance : m \in Elements(uplink[i]) /\ m.id = s
      <4> DEFINE down == UNION {Elements(net[<<s, i>>]) : i \in Instance}
                 up == UNION {Elements(uplink[i]) : i \in Instance}
      <4>1. InTransit(s) = down \cup {e \in up : e.id = s}
        BY DEF InTransit
      <4>2. m \in down => \E i \in Instance : m \in Elements(net[<<s, i>>])
        OBVIOUS
      <4>3. m \in up => \E i \in Instance : m \in Elements(uplink[i])
        OBVIOUS
      <4> HIDE DEF down, up
      <4> QED
        BY <4>1, <4>2, <4>3
    <3> QED
      BY <3>1, <3>2, <3>3
  <2>2. AttemptEpoch(s)' = epochs[s] + 1
    BY OpensNext
  <2>3. m.epoch \in Nat /\ epochs[s] \in Nat
    BY <2>1 DEF Envelope, Inv, TypeOK, CoordTypeOK
  <2> QED
    BY <2>1, <2>2, <2>3
<1> QED
  BY <1>1, InitEstablishes, NextKeeps, InitCovers, NextCovers, PTL DEF Spec, FreshAttempts

-----------------------------------------------------------------------------
(* Letting go                                                              *)

\* A conversation with a holder leaves that state only by the answers and the last
\* retry the property names.
LEMMA StepLetsGo ==
    ASSUME Inv, Covered, [Next]_vars, NEW s \in Subject
    PROVE  /\ handshakes[s].state = "CONFIRMED" /\ handshakes'[s].state # "CONFIRMED" =>
                 handshakes'[s].state = "CANCELLED" \/ HolderSaid(s, {"REVOKE", "COMPLETE"})
           /\ handshakes[s].state = "CANCELLED" /\ handshakes'[s].state # "CANCELLED" =>
                 HolderSaid(s, {"REVOKE", "CANCEL_ACK"}) \/ handshakes[s].tries = MaxTries
<1> USE DEF Inv, TypeOK
<1> DEFINE h == handshakes[s]
           Kept == handshakes'[s].state = h.state
           Goal == /\ h.state = "CONFIRMED" /\ handshakes'[s].state # "CONFIRMED" =>
                        handshakes'[s].state = "CANCELLED" \/ HolderSaid(s, {"REVOKE", "COMPLETE"})
                   /\ h.state = "CANCELLED" /\ handshakes'[s].state # "CANCELLED" =>
                        HolderSaid(s, {"REVOKE", "CANCEL_ACK"}) \/ h.tries = MaxTries
<1> SUFFICES ASSUME h.state \in {"CONFIRMED", "CANCELLED"} PROVE Goal
  OBVIOUS
<1>0. /\ h \in Initiator /\ h.receiver \in Instance /\ h.epoch \in Nat /\ h.tries \in 0 .. MaxTries
      /\ HasHandshake(s) /\ ~HasElection(s) /\ InFlight(s)
  BY DEF CoordTypeOK, Initiator, InitiatorRecord, OneDict, HasHandshake, InFlight
<1>1. Kept => Goal
  OBVIOUS
<1>2. ASSUME NEW t \in Subject, Request(t) \/ StartElection(t) PROVE Kept
  BY <1>0, <1>2, OpensOne, StartsCover
<1>3. ASSUME NEW t \in Subject, CancelSubject(t)
      PROVE  Kept \/ handshakes'[s].state = "CANCELLED"
  <2>1. CASE t # s
    BY <2>1, <1>3 DEF CancelSubject, Cancel, CancelAndForget
  <2>2. CASE t = s
    <3>1. handshakes'[s] = Retire(CancelEffect(s).hs)
      BY <2>2, <1>3 DEF CancelSubject, Cancel, CancelAndForget
    <3>2. CancelEffect(s).hs = h \/ CancelEffect(s).hs = Withdraw(s, h).next
      BY <1>0 DEF CancelEffect, FromInitiator, Effect
    <3>3. Withdraw(s, h).next.state = "CANCELLED"
      BY <1>0, HandshakeAssumption DEF Withdraw, Quietly, Outcome, Initiator, InitiatorRecord
    <3> QED
      BY <3>1, <3>2, <3>3 DEF Retire
  <2> QED
    BY <2>1, <2>2
<1>4. ASSUME NEW t \in Subject, NEW x \in Effects, Perform(t, x), t # s PROVE Kept
  BY <1>4 DEF Perform, Interrupted, CoordTypeOK
<1>5. ASSUME NEW x \in Effects, Perform(s, x)
      PROVE  handshakes'[s] = Retire(x.hs)
  BY <1>5 DEF Perform, Interrupted, CoordTypeOK, Effects
<1>6. ASSUME NEW t \in Subject, Tick(t) PROVE Goal
  <2>1. PICK x \in TickEffects(t) : Perform(t, x)
    BY <1>6 DEF Tick
  <2>2. x \in Effects
    BY TickEffectsType
  <2>3. CASE t # s
    BY <1>1, <1>4, <2>1, <2>2, <2>3
  <2>4. CASE t = s
    <3>1. x.hs = Overdue(s, h).next
      BY <1>0, <2>1, <2>4 DEF TickEffects, FromInitiator, Effect
    <3>2. h.state = "CONFIRMED" => Overdue(s, h).next = h
      BY DEF Overdue, Quietly, Outcome
    <3>3. h.state = "CANCELLED" /\ h.tries # MaxTries => Overdue(s, h).next.state = "CANCELLED"
      BY <1>0, HandshakeAssumption DEF Overdue, Quietly, Outcome, Initiator, InitiatorRecord
    <3> QED
      BY <1>5, <2>1, <2>2, <2>4, <3>1, <3>2, <3>3 DEF Retire
  <2> QED
    BY <2>3, <2>4
<1>7. ASSUME NEW i \in Instance, Route(i) PROVE Goal
  <2> DEFINE m == Head(uplink[i])
  <2>1. PICK x \in RouteEffects(m) : Perform(m.id, x)
    BY <1>7 DEF Route
  <2>2. Take(i) /\ epochs' = epochs
    BY <1>7, <2>1 DEF Route, Perform, Interrupted
  <2>3. m \in Envelope /\ m.inst = i
    BY <2>2, TakeCovers DEF Covered
  <2>4. uplink[i] # <<>> /\ uplink'[i] = Tail(uplink[i])
    BY <2>2 DEF Take, RespondersTypeOK
  <2>5. x \in Effects /\ m.id \in Subject
    BY <2>1, <2>3, RouteEffectsType DEF Envelope
  <2>6. CASE m.id # s
    BY <1>1, <1>4, <2>1, <2>5, <2>6
  <2>7. CASE m.id = s
    <3>1. x = FromInitiator(Handle(h, m))
      BY <1>0, <2>1, <2>7 DEF RouteEffects
    <3>2. handshakes'[s] = Retire(Handle(h, m).next)
      BY <1>5, <2>1, <2>5, <2>7, <3>1 DEF FromInitiator, Effect
    <3>3. ASSUME NEW st, m.status = st, m.epoch = h.epoch, m.inst = h.receiver
          PROVE  /\ uplink[h.receiver] # <<>> /\ uplink'[h.receiver] = Tail(uplink[h.receiver])
                 /\ Head(uplink[h.receiver]) = Env(st, s, h.receiver, h.epoch)
      BY <2>3, <2>4, <2>7, <3>3 DEF Env, Envelope
    <3> HIDE DEF m
    <3>4. \/ Handle(h, m).next = h
          \/ /\ m.epoch = h.epoch /\ m.inst = h.receiver
             /\ \/ m.status = "REVOKE"
                \/ m.status = "CANCEL_ACK" /\ h.state = "CANCELLED"
                \/ m.status = "COMPLETE" /\ h.state = "CONFIRMED"
      BY DEF Handle, Quietly, Outcome, Answers
    <3>5. CASE Handle(h, m).next = h
      BY <1>1, <3>2, <3>5 DEF Retire
    <3>6. CASE Handle(h, m).next # h
      BY <3>3, <3>4, <3>6 DEF HolderSaid
    <3> QED
      BY <3>5, <3>6
  <2> QED
    BY <2>6, <2>7
<1>8. CASE Cool
  BY <1>8 DEF Cool, CooldownOver
<1>9. CASE Environment
  BY <1>9, EnvironmentLeaves
<1>10. CASE UNCHANGED vars
  BY <1>10 DEF vars, coordVars
<1> QED
  BY <1>1, <1>2, <1>3, <1>6, <1>7, <1>8, <1>9, <1>10 DEF Next

\* What _drop_if_unheld and the retries are for: a subject some instance may hold is
\* never forgotten before that instance has let go or the retries are used up.
THEOREM HeldUntilLetGoHolds == Spec => HeldUntilLetGo
<1>1. Inv /\ Covered /\ [Next]_vars => [\A s \in Subject :
        /\ handshakes[s].state = "CONFIRMED" /\ handshakes'[s].state # "CONFIRMED" =>
              handshakes'[s].state = "CANCELLED" \/ HolderSaid(s, {"REVOKE", "COMPLETE"})
        /\ handshakes[s].state = "CANCELLED" /\ handshakes'[s].state # "CANCELLED" =>
              HolderSaid(s, {"REVOKE", "CANCEL_ACK"}) \/ handshakes[s].tries = MaxTries]_vars
  BY StepLetsGo
<1> QED
  BY <1>1, InitEstablishes, NextKeeps, InitCovers, NextCovers, PTL DEF Spec, HeldUntilLetGo

-----------------------------------------------------------------------------
(* One receiver, one subject.  The argument reads each uplink queue as a   *)
(* chain: what the aggregate believes about the instance, then the words   *)
(* of the instance that are not routed yet, then what the instance is      *)
(* pledged to.  Between pledges to two different subjects the chain holds  *)
(* a word that lets the first one go.                                      *)

\* The faults that are left out.
Reliable == ~Lossy /\ ~Lapses /\ ~Restarts

-----------------------------------------------------------------------------
(* The two directions of a conversation                                    *)

\* On its way to instance i, about the current attempt at s.
Coming(s, i, statuses) == \E k \in DOMAIN net[<<s, i>>] :
    net[<<s, i>>][k].epoch = epochs[s] /\ net[<<s, i>>][k].status \in statuses

\* An envelope about the current attempt at s.
About(s, m, statuses) == m.id = s /\ m.epoch = epochs[s] /\ m.status \in statuses

\* The k-th word of instance i not routed yet is about the current attempt at s.
Says(s, i, k, statuses) == k \in DOMAIN uplink[i] /\ About(s, uplink[i][k], statuses)

Said(s, i, statuses) == \E k \in DOMAIN uplink[i] : Says(s, i, k, statuses)

LetGoWords == {"REVOKE", "CANCEL_ACK"}
Openings == {"REQUEST", "REQUEST_BID"}

-----------------------------------------------------------------------------
(* What the aggregate thinks of instance i in the current attempt at s     *)

Asked(s, i) == /\ handshakes[s].state = "REQUESTED"
               /\ handshakes[s].asked = {} \/ i \in handshakes[s].asked
Bidding(s, i) == i \in EngagedIn(elections[s])
Offered(s, i) == i \in elections[s].offers
With(s, i, states) == handshakes[s].state \in states /\ handshakes[s].receiver = i

\* i belongs to s; i may still come to belong to s.
Claimed(s, i) == With(s, i, {"AWARDED", "CONFIRMED", "CANCELLED"}) \/ Offered(s, i)
Wanted(s, i) == Claimed(s, i) \/ Asked(s, i) \/ Bidding(s, i)

(* What instance i has agreed to                                           *)

Holds(s, i) == inst[i].active = s /\ inst[i].epoch = epochs[s]
Reserves(s, i) == <<s, epochs[s]>> \in inst[i].reserved
Pledged(s, i) == Holds(s, i) \/ Reserves(s, i)

-----------------------------------------------------------------------------
(* The invariant                                                           *)

\* Both dicts speak of the current attempt, and hold no leftovers.
Conversation(s) ==
    /\ handshakes[s].state \in {"NONE", "REQUESTED"} => handshakes[s].receiver = None
    /\ handshakes[s].state # "NONE" => handshakes[s].epoch = epochs[s]
    /\ handshakes[s].state # "DONE"
    /\ elections[s].candidates = {} => elections[s] = NoElection
    /\ elections[s].candidates # {} => elections[s].epoch = epochs[s]

\* max_reserved = 1, and nothing reserved beside what is held.
OnePledge(i) ==
    /\ inst[i].active # None => inst[i].reserved = {}
    /\ \A q, r \in inst[i].reserved : q = r
    /\ \A r \in inst[i].reserved : r[2] <= epochs[r[1]]

\* The opening of an attempt is behind everything about earlier attempts, so an
\* instance that answered it meets no older opening.
Ordered(s, i) ==
    LET q == net[<<s, i>>]
    IN  /\ \A j, k \in DOMAIN q : j < k /\ q[k].status \in Openings => q[j].epoch <= q[k].epoch
        /\ Reserves(s, i) => \A k \in DOMAIN q : q[k].status \in Openings => q[k].epoch = epochs[s]

\* An instance is called for bids once per attempt.
CalledOnce(s, i) ==
    LET q == net[<<s, i>>]
    IN  \A j, k \in DOMAIN q :
           /\ q[j].status = "REQUEST_BID" /\ q[j].epoch = epochs[s]
           /\ q[k].status = "REQUEST_BID" /\ q[k].epoch = epochs[s]
           => j = k

\* What can be under way at each stage of an attempt.
Lawful(s, i) ==
    /\ Wanted(s, i) => ~Coming(s, i, {"COMPLETE_ACK"})
    /\ Wanted(s, i) /\ ~Releasing(s) => ~Coming(s, i, {"CANCEL"}) /\ ~Said(s, i, {"CANCEL_ACK"})
    /\ Asked(s, i) => ~Coming(s, i, {"REQUEST_BID"}) /\ ~Said(s, i, {"BID"}) /\ ~Reserves(s, i)
    /\ Bidding(s, i) =>
          /\ ~Coming(s, i, {"REQUEST"}) /\ ~Coming(s, i, {"AWARD"})
          /\ ~Said(s, i, {"REVOKE"}) /\ ~Said(s, i, {"ACK"}) /\ ~Holds(s, i)
          /\ CalledOnce(s, i)
          /\ Coming(s, i, {"REQUEST_BID"}) => ~Offered(s, i) /\ ~Said(s, i, {"BID"})
    /\ With(s, i, {"AWARDED"}) =>
          /\ ~Coming(s, i, {"REQUEST_BID"})
          /\ Holds(s, i) => Said(s, i, {"ACK"})
          /\ \A k \in DOMAIN uplink[i] : Says(s, i, k, {"REVOKE"}) =>
                \E j \in DOMAIN uplink[i] : j < k /\ Says(s, i, j, {"ACK"})
          /\ Said(s, i, {"ACK"}) => ~Reserves(s, i)
    /\ With(s, i, {"CONFIRMED"}) => ~Coming(s, i, {"REQUEST_BID"}) /\ ~Reserves(s, i)

\* The chain of instance i: position 0 is what the aggregate believes.
Chain(i) == 0 .. Len(uplink[i])

Pledge(s, i, k) == IF k = 0 THEN Claimed(s, i) ELSE Wanted(s, i) /\ Says(s, i, k, {"ACK", "BID"})

\* A pledge in the chain is still good at its end, or taken back later on.
Backed(s, i) == \A k \in Chain(i) : Pledge(s, i, k) =>
    Pledged(s, i) \/ \E l \in Chain(i) : k < l /\ Says(s, i, l, LetGoWords)

\* Between the pledges to two subjects the first is taken back.
Exclusive(s, t, i) == \A j, k \in Chain(i) : j <= k /\ Pledge(s, i, j) /\ Pledge(t, i, k) =>
    \E l \in Chain(i) : j < l /\ l < k /\ Says(s, i, l, LetGoWords)

Chained(i) == /\ \A s \in Subject : Backed(s, i)
              /\ \A s, t \in Subject : s # t => Exclusive(s, t, i)

PledgeInv ==
    /\ Inv /\ Covered
    /\ \A s \in Subject : Conversation(s)
    /\ \A i \in Instance : OnePledge(i) /\ Chained(i)
    /\ \A s \in Subject, i \in Instance : Ordered(s, i) /\ Lawful(s, i)

-----------------------------------------------------------------------------
(* Queues                                                                  *)

\* Appending, position by position.
LEMMA Positions ==
    ASSUME NEW q \in Seq(Envelope), NEW w \in Envelope
    PROVE  /\ DOMAIN q = 1 .. Len(q) /\ Len(q) \in Nat
           /\ \A k \in DOMAIN q : q[k] \in Envelope
           /\ DOMAIN Append(q, w) = 1 .. Len(q) + 1 /\ Len(Append(q, w)) = Len(q) + 1
           /\ \A k \in 1 .. Len(q) : Append(q, w)[k] = q[k]
           /\ Append(q, w)[Len(q) + 1] = w
OBVIOUS

\* Taking the first, position by position.
LEMMA TailPositions ==
    ASSUME NEW q \in Seq(Envelope), q # <<>>
    PROVE  /\ DOMAIN q = 1 .. Len(q) /\ Len(q) \in Nat /\ Len(q) >= 1
           /\ Head(q) = q[1] /\ Head(q) \in Envelope
           /\ DOMAIN Tail(q) = 1 .. Len(q) - 1 /\ Len(Tail(q)) = Len(q) - 1
           /\ \A k \in 1 .. Len(q) - 1 : Tail(q)[k] = q[k + 1]
OBVIOUS

\* The aggregate takes the first word of the queue: the others move up.
LEMMA TakeSays ==
    ASSUME RespondersTypeOK, NEW i \in Instance, Take(i), NEW s \in Subject, epochs'[s] = epochs[s]
    PROVE  /\ Len(uplink[i]) \in Nat /\ Len(uplink[i]) >= 1 /\ Len(uplink'[i]) = Len(uplink[i]) - 1
           /\ \A statuses : \A k \in Nat :
                 Says(s, i, k, statuses)' <=> k >= 1 /\ Says(s, i, k + 1, statuses)
           /\ \A statuses : Said(s, i, statuses)' => Said(s, i, statuses)
<1>1. uplink[i] \in Seq(Envelope) /\ uplink[i] # <<>> /\ uplink'[i] = Tail(uplink[i])
  BY DEF Take, RespondersTypeOK
<1>2. /\ DOMAIN uplink[i] = 1 .. Len(uplink[i]) /\ Len(uplink[i]) \in Nat /\ Len(uplink[i]) >= 1
      /\ DOMAIN uplink'[i] = 1 .. Len(uplink[i]) - 1 /\ Len(uplink'[i]) = Len(uplink[i]) - 1
      /\ \A k \in 1 .. Len(uplink[i]) - 1 : uplink'[i][k] = uplink[i][k + 1]
  BY <1>1, TailPositions
<1>3. \A statuses : \A k \in Nat :
         Says(s, i, k, statuses)' <=> k >= 1 /\ Says(s, i, k + 1, statuses)
  BY <1>2 DEF Says, About
<1>4. \A statuses : Said(s, i, statuses)' => Said(s, i, statuses)
  <2> SUFFICES ASSUME NEW statuses, NEW k \in DOMAIN uplink'[i], Says(s, i, k, statuses)'
               PROVE  Said(s, i, statuses)
    BY DEF Said
  <2>1. k \in Nat /\ Says(s, i, k + 1, statuses)
    BY <1>2, <1>3
  <2> QED
    BY <2>1 DEF Said, Says
<1> QED
  BY <1>2, <1>3, <1>4

\* Instance i adds a word.
LEMMA SpeakSays ==
    ASSUME RespondersTypeOK, NEW i \in Instance, NEW w \in Envelope, NEW s \in Subject,
           uplink'[i] = Append(uplink[i], w), epochs'[s] = epochs[s]
    PROVE  /\ Len(uplink[i]) \in Nat /\ Len(uplink'[i]) = Len(uplink[i]) + 1
           /\ DOMAIN uplink[i] = 1 .. Len(uplink[i])
           /\ DOMAIN uplink'[i] = 1 .. Len(uplink[i]) + 1
           /\ \A statuses : \A k \in Nat :
                 Says(s, i, k, statuses)' <=>
                    Says(s, i, k, statuses) \/ (k = Len(uplink[i]) + 1 /\ About(s, w, statuses))
           /\ \A statuses : Said(s, i, statuses)' <=> Said(s, i, statuses) \/ About(s, w, statuses)
<1>1. uplink[i] \in Seq(Envelope)
  BY DEF RespondersTypeOK
<1>2. /\ DOMAIN uplink[i] = 1 .. Len(uplink[i]) /\ Len(uplink[i]) \in Nat
      /\ DOMAIN uplink'[i] = 1 .. Len(uplink[i]) + 1 /\ Len(uplink'[i]) = Len(uplink[i]) + 1
      /\ \A k \in 1 .. Len(uplink[i]) : uplink'[i][k] = uplink[i][k]
      /\ uplink'[i][Len(uplink[i]) + 1] = w
  BY <1>1, Positions
<1>3. \A statuses : \A k \in Nat :
                 Says(s, i, k, statuses)' <=>
                    Says(s, i, k, statuses) \/ (k = Len(uplink[i]) + 1 /\ About(s, w, statuses))
  BY <1>2 DEF Says, About
<1>4. \A statuses : Said(s, i, statuses)' <=> Said(s, i, statuses) \/ About(s, w, statuses)
  <2> TAKE statuses
  <2>1. \A k \in DOMAIN uplink'[i] : k \in Nat
    BY <1>2
  <2>2. \A k \in DOMAIN uplink[i] : k \in Nat /\ k \in DOMAIN uplink'[i]
    BY <1>2
  <2>3. Len(uplink[i]) + 1 \in DOMAIN uplink'[i] /\ Len(uplink[i]) + 1 \in Nat
    BY <1>2
  <2>4. Said(s, i, statuses)' => Said(s, i, statuses) \/ About(s, w, statuses)
    BY <1>3, <2>1 DEF Said, Says
  <2>5. Said(s, i, statuses) => Said(s, i, statuses)'
    BY <1>3, <2>2 DEF Said
  <2>6. About(s, w, statuses) => Said(s, i, statuses)'
    BY <1>3, <2>3 DEF Said
  <2> QED
    BY <2>4, <2>5, <2>6
<1> QED
  BY <1>2, <1>3, <1>4

-----------------------------------------------------------------------------
(* The chain                                                               *)

\* A step that touches neither end nor the words, and makes nobody a claimant.
LEMMA ChainKept ==
    ASSUME NEW i \in Instance, Chained(i), UNCHANGED <<uplink[i], inst[i]>>,
           \A s \in Subject : Wanted(s, i)' =>
               Wanted(s, i) /\ (Claimed(s, i)' => Claimed(s, i)) /\ epochs'[s] = epochs[s]
    PROVE  Chained(i)'
<1>1. ASSUME NEW s \in Subject, NEW k \in Chain(i), Pledge(s, i, k)'
      PROVE  /\ Pledge(s, i, k) /\ (Pledged(s, i)' <=> Pledged(s, i))
             /\ \A l, statuses : Says(s, i, l, statuses)' <=> Says(s, i, l, statuses)
  BY <1>1 DEF Pledge, Wanted, Says, About, Pledged, Holds, Reserves
<1>2. Chain(i)' = Chain(i)
  BY DEF Chain
<1>3. \A s \in Subject : Backed(s, i)'
  BY <1>1, <1>2 DEF Chained, Backed
<1>4. ASSUME NEW s \in Subject, NEW t \in Subject, s # t PROVE Exclusive(s, t, i)'
  BY <1>1, <1>2, <1>4 DEF Chained, Exclusive
<1> QED
  BY <1>3, <1>4 DEF Chained

\* The aggregate routes the first word: what it claims afterwards it claimed before, and
\* was not told to let go, or has just been pledged.
LEMMA ChainRouted ==
    ASSUME RespondersTypeOK, NEW i \in Instance, Chained(i), Take(i),
           \A s \in Subject : epochs'[s] = epochs[s] /\ (Wanted(s, i)' => Wanted(s, i)),
           \A s \in Subject : Claimed(s, i)' =>
               \/ Claimed(s, i) /\ ~Says(s, i, 1, LetGoWords)
               \/ Wanted(s, i) /\ Says(s, i, 1, {"ACK", "BID"})
    PROVE  Chained(i)'
<1> DEFINE From(s, k, c) == /\ c \in Chain(i) /\ Pledge(s, i, c)
                            /\ c = k + 1 \/ c = k
                            /\ c = k => k = 0 /\ ~Says(s, i, 1, LetGoWords)
<1>0. UNCHANGED inst
  BY DEF Take
<1>1. /\ Chain(i) = 0 .. Len(uplink[i]) /\ Chain(i)' = 0 .. Len(uplink[i]) - 1
      /\ Len(uplink[i]) \in Nat /\ Len(uplink[i]) >= 1
  <2>1. PICK s \in Subject : TRUE
    BY DEF Take, RespondersTypeOK, Envelope
  <2> QED
    BY <2>1, TakeSays DEF Chain
<1>2. ASSUME NEW s \in Subject, NEW k \in Chain(i)', Pledge(s, i, k)'
      PROVE  \E c \in Nat : From(s, k, c)
  <2>1. CASE k = 0
    <3>1. Claimed(s, i)'
      BY <1>2, <2>1 DEF Pledge
    <3>2. CASE Claimed(s, i) /\ ~Says(s, i, 1, LetGoWords)
      BY <1>1, <2>1, <3>2 DEF Pledge
    <3>3. CASE Wanted(s, i) /\ Says(s, i, 1, {"ACK", "BID"})
      <4>1. From(s, k, 1)
        BY <1>1, <2>1, <3>3 DEF Pledge
      <4> QED
        BY <4>1
    <3> QED
      BY <3>1, <3>2, <3>3
  <2>2. CASE k # 0
    <3>1. Wanted(s, i)' /\ Says(s, i, k, {"ACK", "BID"})' /\ k \in Nat /\ k + 1 \in Chain(i)
      BY <1>1, <1>2, <2>2 DEF Pledge
    <3>2. Says(s, i, k + 1, {"ACK", "BID"})
      BY <3>1, TakeSays
    <3>3. Pledge(s, i, k + 1)
      BY <3>1, <3>2 DEF Pledge
    <3> QED
      BY <3>1, <3>3
  <2> QED
    BY <2>1, <2>2
<1>3. ASSUME NEW s \in Subject, NEW k \in Nat, NEW c \in Nat, From(s, k, c),
             NEW l \in Chain(i), c < l, Says(s, i, l, LetGoWords)
      PROVE  l - 1 \in Chain(i)' /\ k < l - 1 /\ Says(s, i, l - 1, LetGoWords)'
  <2>1. l \in Nat /\ l - 1 \in Chain(i)' /\ k < l - 1
    BY <1>1, <1>3
  <2>2. l - 1 \in Nat /\ (l - 1) + 1 = l /\ l - 1 >= 1
    BY <2>1, <1>3
  <2> QED
    BY <1>3, <2>1, <2>2, TakeSays
<1>4. ASSUME NEW s \in Subject PROVE Backed(s, i)'
  <2> SUFFICES ASSUME NEW k \in Chain(i)', Pledge(s, i, k)', ~Pledged(s, i)'
               PROVE  \E l \in Chain(i)' : k < l /\ Says(s, i, l, LetGoWords)'
    BY DEF Backed
  <2>1. PICK c \in Nat : From(s, k, c)
    BY <1>2
  <2>2. ~Pledged(s, i)
    BY <1>0 DEF Pledged, Holds, Reserves
  <2>3. PICK l \in Chain(i) : c < l /\ Says(s, i, l, LetGoWords)
    BY <2>1, <2>2 DEF Chained, Backed
  <2>4. k \in Nat
    BY <1>1
  <2> QED
    BY <1>3, <2>1, <2>3, <2>4
<1>5. ASSUME NEW s \in Subject, NEW t \in Subject, s # t PROVE Exclusive(s, t, i)'
  <2> SUFFICES ASSUME NEW j \in Chain(i)', NEW k \in Chain(i)', j <= k,
                      Pledge(s, i, j)', Pledge(t, i, k)'
               PROVE  \E l \in Chain(i)' : j < l /\ l < k /\ Says(s, i, l, LetGoWords)'
    BY DEF Exclusive
  <2>1. PICK c \in Nat : From(s, j, c)
    BY <1>2
  <2>2. PICK d \in Nat : From(t, k, d)
    BY <1>2
  <2>3. j \in Nat /\ k \in Nat
    BY <1>1
  <2>4. c <= d
    <3>1. CASE d < c
      <4>1. j = 0 /\ k = 0 /\ c = 1 /\ d = 0
        BY <2>1, <2>2, <2>3, <3>1
      <4>2. \E l \in Chain(i) : 0 < l /\ l < 1
        BY <1>5, <2>1, <2>2, <4>1 DEF Chained, Exclusive
      <4> QED
        BY <1>1, <4>2
    <3> QED
      BY <3>1
  <2>5. PICK l \in Chain(i) : c < l /\ l < d /\ Says(s, i, l, LetGoWords)
    BY <1>5, <2>1, <2>2, <2>4 DEF Chained, Exclusive
  <2>6. l - 1 \in Chain(i)' /\ j < l - 1 /\ Says(s, i, l - 1, LetGoWords)'
    BY <1>3, <2>1, <2>3, <2>5
  <2>7. l - 1 < k
    BY <1>1, <2>2, <2>3, <2>5
  <2> QED
    BY <2>6, <2>7
<1> QED
  BY <1>4, <1>5 DEF Chained

-----------------------------------------------------------------------------
(* The instances                                                           *)

Spoke(i, w) == uplink' = [uplink EXCEPT ![i] = Append(uplink[i], w)]

\* Its word is the last of the queue, and nobody else's queue changes.
LEMMA SpokeAppends ==
    ASSUME RespondersTypeOK, NEW i \in Instance, NEW w, Spoke(i, w)
    PROVE  /\ uplink'[i] = Append(uplink[i], w) /\ uplink[i] \in Seq(Envelope)
           /\ \A j \in Instance \ {i} : uplink'[j] = uplink[j]
BY DEF Spoke, RespondersTypeOK

\* What instance i agrees to and gives up while it reads m, seen from s.
Moves(s, i, m) ==
    /\ Holds(s, i)' /\ ~Holds(s, i) =>
          About(s, m, {"REQUEST", "AWARD"}) /\ Spoke(i, Env("ACK", m.id, i, m.epoch))
    /\ Reserves(s, i)' /\ ~Reserves(s, i) => About(s, m, {"REQUEST_BID"})
    /\ Pledged(s, i) /\ ~Pledged(s, i)' =>
          \/ About(s, m, {"CANCEL"}) /\ Spoke(i, Env("CANCEL_ACK", m.id, i, m.epoch))
          \/ About(s, m, {"COMPLETE_ACK"})
          \/ Reserves(s, i) /\ m.id = s /\ m.epoch # epochs[s] /\ m.status \in Openings

\* What the word st it answers m with stands for.
Means(i, m, st) ==
    /\ st \in ToAggregate /\ st # "REVOKE"
    /\ st = "ACK" => m.status \in {"REQUEST", "AWARD"} /\ inst'[i].reserved = {}
    /\ st = "BID" => m.status = "REQUEST_BID"
    /\ st = "CANCEL_ACK" => m.status = "CANCEL"
    /\ st \in {"ACK", "BID"} /\ m.epoch = epochs[m.id] =>
          Pledged(m.id, i)' /\ \A t \in Subject \ {m.id} : ~Pledged(t, i)

Reading(i, m) ==
    /\ \A s \in Subject : Moves(s, i, m)
    /\ \/ uplink' = uplink
       \/ \E st \in ToAggregate : Means(i, m, st) /\ Spoke(i, Env(st, m.id, i, m.epoch))
    /\ OnePledge(i)'
    /\ \E holding \in Holding : inst' = [inst EXCEPT ![i] = holding]

\* The five handlers, one by one.
LEMMA Reads ==
    ASSUME RespondersTypeOK, CoordTypeOK, NEW i \in Instance, NEW m \in Envelope, OnePledge(i),
           m.epoch <= epochs[m.id], epochs' = epochs,
           \/ OnRequest(i, m) \/ OnRequestBid(i, m) \/ OnAward(i, m)
           \/ OnCancel(i, m) \/ OnCompleteAck(i, m)
    PROVE  Reading(i, m)
<1> DEFINE held == inst[i]
<1>1. /\ held \in Holding /\ m.id \in Subject /\ m.epoch \in Nat /\ None \notin Subject
      /\ inst \in [Instance -> Holding] /\ epochs[m.id] \in Nat
      /\ \A s \in Subject : epochs[s] \in Nat
  BY HandshakeAssumption DEF RespondersTypeOK, Envelope, CoordTypeOK
<1>2. /\ held.active # None => held.reserved = {}
      /\ \A q, r \in held.reserved : q = r
      /\ \A r \in held.reserved : r[2] <= epochs[r[1]]
      /\ held.active \in Subject \cup {None} /\ held.epoch \in Nat
      /\ held.reserved \in SUBSET (Subject \X Nat)
  BY <1>1 DEF OnePledge, Holding
<1>3. ASSUME NEW h \in Holding, inst' = [inst EXCEPT ![i] = h]
      PROVE  /\ inst'[i] = h /\ h.active \in Subject \cup {None} /\ h.epoch \in Nat
             /\ h.reserved \in SUBSET (Subject \X Nat)
  BY <1>1, <1>3 DEF Holding
<1>4. CASE OnRequest(i, m)
  <2>1. CASE Free(i) /\ ~Promised(i, m.id) /\ m.status = "REQUEST"
             /\ Answer(i, m, [active |-> m.id, epoch |-> m.epoch, reserved |-> {}], "ACK")
    <3> DEFINE h == [active |-> m.id, epoch |-> m.epoch, reserved |-> {}]
    <3>1. h \in Holding /\ inst' = [inst EXCEPT ![i] = h] /\ Spoke(i, Env("ACK", m.id, i, m.epoch))
      BY <1>1, <2>1 DEF Holding, Answer, Spoke
    <3>2. inst'[i] = h
      BY <1>3, <3>1
    <3>3. \A s \in Subject : Moves(s, i, m)
      BY <1>1, <1>2, <2>1, <3>1, <3>2
         DEF Moves, Holds, Reserves, Pledged, About, Free, Promised, Openings
    <3>4. Means(i, m, "ACK")
      BY <1>1, <1>2, <2>1, <3>2 DEF Means, ToAggregate, Holds, Reserves, Pledged, Free, Promised
    <3>5. OnePledge(i)'
      BY <3>2 DEF OnePledge
    <3> HIDE DEF h
    <3> QED
      BY <3>1, <3>3, <3>4, <3>5 DEF Reading, ToAggregate
  <2>2. CASE held.active = m.id /\ held.epoch <= m.epoch /\ m.status = "REQUEST"
             /\ Answer(i, m, [inst[i] EXCEPT !.epoch = m.epoch], "ACK")
    <3> DEFINE h == [inst[i] EXCEPT !.epoch = m.epoch]
    <3>1. /\ h \in Holding /\ inst' = [inst EXCEPT ![i] = h] /\ Spoke(i, Env("ACK", m.id, i, m.epoch))
          /\ h.active = m.id /\ h.epoch = m.epoch /\ h.reserved = {}
      BY <1>1, <1>2, <2>2 DEF Holding, Answer, Spoke
    <3> HIDE DEF h
    <3>2. inst'[i] = h
      BY <1>3, <3>1
    <3>3. \A s \in Subject : Moves(s, i, m)
      BY <1>1, <1>2, <2>2, <3>1, <3>2 DEF Moves, Holds, Reserves, Pledged, About
    <3>4. Means(i, m, "ACK")
      BY <1>1, <1>2, <2>2, <3>1, <3>2 DEF Means, ToAggregate, Holds, Reserves, Pledged
    <3>5. OnePledge(i)'
      BY <3>1, <3>2 DEF OnePledge
    <3> QED
      BY <3>1, <3>3, <3>4, <3>5 DEF Reading, ToAggregate
  <2>3. CASE Answer(i, m, inst[i], "NACK")
    <3>1. inst' = inst /\ held \in Holding /\ Spoke(i, Env("NACK", m.id, i, m.epoch))
          /\ inst' = [inst EXCEPT ![i] = held]
      BY <1>1, <2>3 DEF Answer, Spoke
    <3>2. \A s \in Subject : Moves(s, i, m)
      BY <3>1 DEF Moves, Holds, Reserves, Pledged
    <3>3. Means(i, m, "NACK") /\ OnePledge(i)'
      BY <3>1 DEF Means, ToAggregate, OnePledge
    <3> QED
      BY <3>1, <3>2, <3>3 DEF Reading, ToAggregate
  <2>4. CASE Read(i, m, inst[i])
    <3>1. inst' = inst /\ held \in Holding /\ uplink' = uplink /\ inst' = [inst EXCEPT ![i] = held]
      BY <1>1, <2>4 DEF Read
    <3>2. \A s \in Subject : Moves(s, i, m)
      BY <3>1 DEF Moves, Holds, Reserves, Pledged
    <3> QED
      BY <3>1, <3>2 DEF Reading, OnePledge
  <2> QED
    BY <1>4, <2>1, <2>2, <2>3, <2>4 DEF OnRequest
<1>5. ASSUME m.status \in {"REQUEST_BID", "AWARD"}, Answer(i, m, inst[i], "NACK")
      PROVE  Reading(i, m)
  <2>1. inst' = inst /\ held \in Holding /\ Spoke(i, Env("NACK", m.id, i, m.epoch))
        /\ inst' = [inst EXCEPT ![i] = held]
    BY <1>1, <1>5 DEF Answer, Spoke
  <2>2. \A s \in Subject : Moves(s, i, m)
    BY <2>1 DEF Moves, Holds, Reserves, Pledged
  <2>3. Means(i, m, "NACK") /\ OnePledge(i)'
    BY <2>1 DEF Means, ToAggregate, OnePledge
  <2> QED
    BY <2>1, <2>2, <2>3 DEF Reading, ToAggregate
<1>6. CASE OnRequestBid(i, m)
  <2>1. CASE Free(i) /\ ~Promised(i, m.id) /\ m.status = "REQUEST_BID"
             /\ Answer(i, m, [inst[i] EXCEPT !.reserved = {<<m.id, m.epoch>>}], "BID")
    <3> DEFINE h == [inst[i] EXCEPT !.reserved = {<<m.id, m.epoch>>}]
    <3>0. h \in Holding
      BY HoldingType
    <3>1. /\ h \in Holding /\ inst' = [inst EXCEPT ![i] = h] /\ Spoke(i, Env("BID", m.id, i, m.epoch))
          /\ h.active = None /\ h.epoch = held.epoch /\ h.reserved = {<<m.id, m.epoch>>}
      <4>1. h.active = None /\ h.epoch = held.epoch /\ h.reserved = {<<m.id, m.epoch>>}
        BY <1>1, <2>1 DEF Holding, Free
      <4>2. inst' = [inst EXCEPT ![i] = h] /\ Spoke(i, Env("BID", m.id, i, m.epoch))
        BY <2>1 DEF Answer, Spoke
      <4> QED
        BY <3>0, <4>1, <4>2
    <3> HIDE DEF h
    <3>2. inst'[i] = h
      BY <1>3, <3>1
    <3>3. ASSUME NEW s \in Subject PROVE Moves(s, i, m)
      <4>1. ~Holds(s, i) /\ ~Holds(s, i)'
        BY <1>1, <2>1, <3>1, <3>2 DEF Holds, Free
      <4>2. Reserves(s, i)' <=> s = m.id /\ epochs[s] = m.epoch
        BY <3>1, <3>2 DEF Reserves
      <4>3. Reserves(s, i) => s = m.id
        BY <2>1 DEF Reserves, Promised
      <4> QED
        BY <2>1, <4>1, <4>2, <4>3 DEF Moves, Pledged, About, Openings
    <3>4. Means(i, m, "BID")
      <4>1. \A t \in Subject \ {m.id} : ~Pledged(t, i)
        BY <1>1, <2>1 DEF Holds, Reserves, Pledged, Free, Promised
      <4>2. m.epoch = epochs[m.id] => Pledged(m.id, i)'
        BY <3>1, <3>2 DEF Reserves, Pledged
      <4> QED
        BY <2>1, <4>1, <4>2 DEF Means, ToAggregate
    <3>5. OnePledge(i)'
      BY <3>1, <3>2 DEF OnePledge
    <3> QED
      BY <3>1, <3>3, <3>4, <3>5 DEF Reading, ToAggregate
  <2> QED
    BY <1>5, <1>6, <2>1 DEF OnRequestBid
<1>7. CASE OnAward(i, m)
  <2>1. CASE Free(i) /\ <<m.id, m.epoch>> \in inst[i].reserved /\ m.status = "AWARD"
             /\ Answer(i, m, [active |-> m.id, epoch |-> m.epoch, reserved |-> {}], "ACK")
    <3> DEFINE h == [active |-> m.id, epoch |-> m.epoch, reserved |-> {}]
    <3>1. h \in Holding /\ inst' = [inst EXCEPT ![i] = h] /\ Spoke(i, Env("ACK", m.id, i, m.epoch))
      BY <1>1, <2>1 DEF Holding, Answer, Spoke
    <3>2. inst'[i] = h
      BY <1>3, <3>1
    <3>3. ASSUME NEW s \in Subject PROVE Moves(s, i, m)
      <4>1. ~Holds(s, i) /\ ~Reserves(s, i)'
        BY <1>1, <2>1, <3>2 DEF Holds, Reserves, Free
      <4>2. Holds(s, i)' <=> s = m.id /\ epochs[s] = m.epoch
        BY <3>2 DEF Holds
      <4>3. Reserves(s, i) => s = m.id /\ epochs[s] = m.epoch
        BY <1>2, <2>1 DEF Reserves
      <4> QED
        BY <2>1, <3>1, <4>1, <4>2, <4>3 DEF Moves, Pledged, About
    <3>4. Means(i, m, "ACK")
      <4>1. \A t \in Subject \ {m.id} : ~Holds(t, i) /\ ~Reserves(t, i)
        BY <1>1, <1>2, <2>1 DEF Holds, Reserves, Free
      <4>2. inst'[i].reserved = {} /\ (m.epoch = epochs[m.id] => Holds(m.id, i)')
        BY <3>2 DEF Holds
      <4> QED
        BY <2>1, <4>1, <4>2 DEF Means, ToAggregate, Pledged
    <3>5. OnePledge(i)'
      BY <3>2 DEF OnePledge
    <3> HIDE DEF h
    <3> QED
      BY <3>1, <3>3, <3>4, <3>5 DEF Reading, ToAggregate
  <2> QED
    BY <1>5, <1>7, <2>1 DEF OnAward
<1>8. /\ WithoutActive(i, m) \in Holding /\ WithoutActive(i, m).reserved = held.reserved
      /\ WithoutActive(i, m).active \in {None, held.active}
      /\ WithoutActive(i, m).active # held.active => held.active = m.id /\ held.epoch <= m.epoch
      /\ WithoutActive(i, m).active = held.active => WithoutActive(i, m).epoch = held.epoch \/ held.active = None
  BY <1>1 DEF WithoutActive, Holding
<1>9. CASE OnCancel(i, m)
  <2> DEFINE kept == WithoutActive(i, m)
             h == [kept EXCEPT !.reserved = {r \in kept.reserved : r[1] # m.id \/ r[2] > m.epoch}]
  <2>1. Answer(i, m, h, "CANCEL_ACK") /\ m.status = "CANCEL"
    BY <1>9 DEF OnCancel
  <2>2. /\ h \in Holding /\ h.active = kept.active /\ h.epoch = kept.epoch
        /\ h.reserved = {r \in held.reserved : r[1] # m.id \/ r[2] > m.epoch}
    BY <1>8 DEF Holding
  <2> HIDE DEF kept, h
  <2>3. inst'[i] = h /\ inst' = [inst EXCEPT ![i] = h] /\ Spoke(i, Env("CANCEL_ACK", m.id, i, m.epoch))
    BY <1>1, <2>1, <2>2 DEF Answer, Spoke
  <2>4. ASSUME NEW s \in Subject PROVE Moves(s, i, m)
    <3>1. Holds(s, i)' => Holds(s, i)
      BY <1>1, <1>8, <2>2, <2>3 DEF Holds, kept
    <3>2. Reserves(s, i)' => Reserves(s, i)
      BY <2>2, <2>3 DEF Reserves
    <3>3. Holds(s, i) /\ ~Holds(s, i)' => m.id = s /\ epochs[s] <= m.epoch
      BY <1>1, <1>8, <2>2, <2>3 DEF Holds, kept
    <3>4. Reserves(s, i) /\ ~Reserves(s, i)' => m.id = s /\ epochs[s] <= m.epoch
      BY <1>1, <2>2, <2>3 DEF Reserves
    <3>5. m.id = s /\ epochs[s] <= m.epoch => About(s, m, {"CANCEL"})
      BY <1>1, <2>1 DEF About
    <3> QED
      BY <2>3, <3>1, <3>2, <3>3, <3>4, <3>5 DEF Moves, Pledged
  <2>5. Means(i, m, "CANCEL_ACK")
    BY <2>1 DEF Means, ToAggregate
  <2>6. OnePledge(i)'
    BY <1>2, <1>8, <2>2, <2>3 DEF OnePledge, kept
  <2> QED
    BY <2>2, <2>3, <2>4, <2>5, <2>6 DEF Reading, ToAggregate
<1>10. CASE OnCompleteAck(i, m)
  <2> DEFINE h == WithoutActive(i, m)
  <2>1. /\ h \in Holding /\ inst' = [inst EXCEPT ![i] = h] /\ uplink' = uplink
        /\ inst'[i] = h /\ m.status = "COMPLETE_ACK"
    BY <1>1, <1>8, <1>10 DEF OnCompleteAck, Read
  <2> HIDE DEF h
  <2>2. ASSUME NEW s \in Subject PROVE Moves(s, i, m)
    <3>1. Holds(s, i)' => Holds(s, i)
      BY <1>1, <1>8, <2>1 DEF Holds, h
    <3>2. Reserves(s, i)' <=> Reserves(s, i)
      BY <1>8, <2>1 DEF Reserves, h
    <3>3. Holds(s, i) /\ ~Holds(s, i)' => m.id = s /\ epochs[s] <= m.epoch
      BY <1>1, <1>8, <2>1 DEF Holds, h
    <3>4. m.id = s /\ epochs[s] <= m.epoch => About(s, m, {"COMPLETE_ACK"})
      BY <1>1, <2>1 DEF About
    <3> QED
      BY <3>1, <3>2, <3>3, <3>4 DEF Moves, Pledged
  <2>3. OnePledge(i)'
    BY <1>2, <1>8, <2>1 DEF OnePledge, h
  <2> QED
    BY <2>1, <2>2, <2>3 DEF Reading
<1> QED
  BY <1>4, <1>6, <1>7, <1>9, <1>10

\* A step that changes what instance i says and agreed to, seen along the chain.
LEMMA ChainSpoken ==
    ASSUME RespondersTypeOK, NEW i \in Instance, Chained(i), NEW w \in Envelope,
           uplink'[i] = Append(uplink[i], w),
           UNCHANGED <<handshakes, elections, epochs>>,
           \A s \in Subject : Wanted(s, i) /\ Pledged(s, i) /\ ~Pledged(s, i)' =>
               About(s, w, LetGoWords),
           \A s \in Subject : About(s, w, {"ACK", "BID"}) =>
               Pledged(s, i)' /\ \A t \in Subject \ {s} : ~Pledged(t, i)
    PROVE  Chained(i)'
<1> DEFINE n == Len(uplink[i])
<1>1. ASSUME NEW s \in Subject
      PROVE  /\ n \in Nat /\ Chain(i) = 0 .. n /\ Chain(i)' = 0 .. n + 1
             /\ \A statuses : \A k \in Nat :
                   Says(s, i, k, statuses)' <=>
                      Says(s, i, k, statuses) \/ (k = n + 1 /\ About(s, w, statuses))
             /\ \A statuses : \A k \in Nat : Says(s, i, k, statuses) => k \in 1 .. n
             /\ (Wanted(s, i)' <=> Wanted(s, i)) /\ (Claimed(s, i)' <=> Claimed(s, i))
  <2>1. \A statuses : \A k \in Nat : Says(s, i, k, statuses) => k \in 1 .. n
    BY SpeakSays DEF Says
  <2>2. (Wanted(s, i)' <=> Wanted(s, i)) /\ (Claimed(s, i)' <=> Claimed(s, i))
    BY DEF Wanted, Claimed, With, Offered, Asked, Bidding, EngagedIn
  <2> QED
    BY <2>1, <2>2, SpeakSays DEF Chain
<1> HIDE DEF n
<1>2. ASSUME NEW s \in Subject, NEW k \in Chain(i)', Pledge(s, i, k)'
      PROVE  \/ k \in Chain(i) /\ Pledge(s, i, k)
             \/ k = n + 1 /\ Wanted(s, i) /\ About(s, w, {"ACK", "BID"})
  BY <1>1, <1>2 DEF Pledge
<1>3. ASSUME NEW s \in Subject PROVE Backed(s, i)'
  <2> SUFFICES ASSUME NEW k \in Chain(i)', Pledge(s, i, k)', ~Pledged(s, i)'
               PROVE  \E l \in Chain(i)' : k < l /\ Says(s, i, l, LetGoWords)'
    BY DEF Backed
  <2>1. k \in Chain(i) /\ Pledge(s, i, k)
    BY <1>2
  <2>2. CASE Pledged(s, i)
    <3>1. Wanted(s, i)
      BY <2>1 DEF Pledge, Wanted
    <3>2. About(s, w, LetGoWords)
      BY <2>2, <3>1
    <3>3. n + 1 \in Chain(i)' /\ k < n + 1 /\ n + 1 \in Nat
      BY <1>1, <2>1
    <3> QED
      BY <1>1, <3>2, <3>3
  <2>3. CASE ~Pledged(s, i)
    <3>1. PICK l \in Chain(i) : k < l /\ Says(s, i, l, LetGoWords)
      BY <2>1, <2>3 DEF Chained, Backed
    <3>2. l \in Nat /\ l \in Chain(i)'
      BY <1>1
    <3> QED
      BY <1>1, <3>1, <3>2
  <2> QED
    BY <2>2, <2>3
<1>4. ASSUME NEW s \in Subject, NEW t \in Subject, s # t PROVE Exclusive(s, t, i)'
  <2> SUFFICES ASSUME NEW j \in Chain(i)', NEW k \in Chain(i)', j <= k,
                      Pledge(s, i, j)', Pledge(t, i, k)'
               PROVE  \E l \in Chain(i)' : j < l /\ l < k /\ Says(s, i, l, LetGoWords)'
    BY DEF Exclusive
  <2>1. ASSUME NEW l \in Chain(i), j < l, l < k, Says(s, i, l, LetGoWords)
        PROVE  \E x \in Chain(i)' : j < x /\ x < k /\ Says(s, i, x, LetGoWords)'
    <3>1. l \in Nat /\ l \in Chain(i)'
      BY <1>1
    <3> QED
      BY <1>1, <2>1, <3>1
  <2>2. CASE k \in Chain(i) /\ Pledge(t, i, k)
    <3>1. j \in Chain(i) /\ Pledge(s, i, j)
      BY <1>1, <1>2, <2>2
    <3>2. PICK l \in Chain(i) : j < l /\ l < k /\ Says(s, i, l, LetGoWords)
      BY <1>4, <2>2, <3>1 DEF Chained, Exclusive
    <3> QED
      BY <2>1, <3>2
  <2>3. CASE k = n + 1 /\ About(t, w, {"ACK", "BID"})
    <3>1. ~About(s, w, {"ACK", "BID"}) /\ ~Pledged(s, i)
      BY <1>4, <2>3 DEF About
    <3>2. j \in Chain(i) /\ Pledge(s, i, j)
      BY <1>2, <3>1
    <3>3. PICK l \in Chain(i) : j < l /\ Says(s, i, l, LetGoWords)
      BY <3>1, <3>2 DEF Chained, Backed
    <3>4. l < k
      BY <1>1, <2>3
    <3> QED
      BY <2>1, <3>3, <3>4
  <2> QED
    BY <1>2, <2>2, <2>3
<1> QED
  BY <1>3, <1>4 DEF Chained

\* The same without a word.
LEMMA ChainSilent ==
    ASSUME NEW i \in Instance, Chained(i), uplink'[i] = uplink[i],
           UNCHANGED <<handshakes, elections, epochs>>,
           \A s \in Subject : Wanted(s, i) /\ Pledged(s, i) => Pledged(s, i)'
    PROVE  Chained(i)'
<1>1. ASSUME NEW s \in Subject
      PROVE  /\ Chain(i)' = Chain(i) /\ (Wanted(s, i)' <=> Wanted(s, i))
             /\ \A k : Pledge(s, i, k)' <=> Pledge(s, i, k)
             /\ \A k, statuses : Says(s, i, k, statuses)' <=> Says(s, i, k, statuses)
             /\ \A k : Pledge(s, i, k) => Wanted(s, i)
  BY DEF Chain, Pledge, Wanted, Claimed, With, Offered, Asked, Bidding, EngagedIn, Says, About
<1>2. ASSUME NEW s \in Subject PROVE Backed(s, i)'
  BY <1>1 DEF Chained, Backed
<1>3. ASSUME NEW s \in Subject, NEW t \in Subject, s # t PROVE Exclusive(s, t, i)'
  BY <1>1, <1>3 DEF Chained, Exclusive
<1> QED
  BY <1>2, <1>3 DEF Chained

\* Instance i, or nobody, has read the first envelope of a conversation: what is coming.
LEMMA TailComes ==
    ASSUME CoordTypeOK, DownCovered, NEW t \in Subject, NEW o \in Instance, net[<<t, o>>] # <<>>,
           net' = [net EXCEPT ![<<t, o>>] = Tail(net[<<t, o>>])], epochs' = epochs,
           NEW s \in Subject, NEW i \in Instance
    PROVE  /\ \A status : Coming(s, i, {status})' => Coming(s, i, {status})
           /\ CalledOnce(s, i) => CalledOnce(s, i)'
           /\ Ordered(s, i) /\ (Reserves(s, i)' => Reserves(s, i)) => Ordered(s, i)'
           /\ s = t /\ i = o =>
                 LET m == Head(net[<<t, o>>])
                 IN  /\ m \in Envelope /\ m.id = t /\ m.epoch <= epochs[t]
                     /\ \A status : About(s, m, {status}) => Coming(s, i, {status})
                     /\ CalledOnce(s, i) /\ About(s, m, {"REQUEST_BID"}) =>
                           ~Coming(s, i, {"REQUEST_BID"})'
                     /\ Reserves(s, i) /\ Ordered(s, i) /\ m.status \in Openings =>
                           m.epoch = epochs[s]
                     /\ Ordered(s, i) /\ About(s, m, {"REQUEST_BID"}) => Ordered(s, i)'
<1> DEFINE q == net[<<s, i>>]
           r == net'[<<s, i>>]
<1>1. CASE ~(s = t /\ i = o)
  <2>1. r = q
    BY <1>1 DEF CoordTypeOK
  <2> QED
    BY <1>1, <2>1 DEF Coming, CalledOnce, Ordered, Reserves
<1>2. CASE s = t /\ i = o
  <2>0. <<s, i>> \in Subject \X Instance /\ q \in Seq(Envelope) /\ q # <<>> /\ r = Tail(q)
    BY <1>2 DEF CoordTypeOK
  <2>1. /\ DOMAIN q = 1 .. Len(q) /\ Len(q) \in Nat /\ Len(q) >= 1 /\ Head(q) = q[1]
        /\ DOMAIN r = 1 .. Len(q) - 1 /\ \A k \in DOMAIN r : r[k] = q[k + 1]
        /\ \A k \in DOMAIN r : k + 1 \in DOMAIN q /\ k \in Nat /\ 1 < k + 1
        /\ \A k \in DOMAIN q : q[k] \in Envelope
        /\ 1 \in DOMAIN q
        /\ \A j, k \in DOMAIN r : (j < k => j + 1 < k + 1) /\ (j + 1 = k + 1 => j = k)
    <3> HIDE DEF q, r
    <3>1. /\ DOMAIN q = 1 .. Len(q) /\ Len(q) \in Nat /\ Len(q) >= 1 /\ Head(q) = q[1]
          /\ DOMAIN r = 1 .. Len(q) - 1 /\ \A k \in 1 .. Len(q) - 1 : r[k] = q[k + 1]
      BY <2>0, TailPositions
    <3>2. \A k \in DOMAIN q : q[k] \in Envelope
      BY <2>0, <3>1
    <3> QED
      BY <3>1, <3>2
  <2> DEFINE m == Head(q)
  <2>2. m \in Envelope /\ m.id = t /\ m.epoch <= epochs[t]
    BY <1>2, TailCovers
  <2>3. \A status : Coming(s, i, {status})' => Coming(s, i, {status})
    BY <2>1 DEF Coming
  <2>4. ASSUME CalledOnce(s, i) PROVE CalledOnce(s, i)'
    <3> SUFFICES ASSUME NEW j \in DOMAIN r, NEW k \in DOMAIN r,
                        r[j].status = "REQUEST_BID", r[j].epoch = epochs[s],
                        r[k].status = "REQUEST_BID", r[k].epoch = epochs[s]
                 PROVE  j = k
      BY DEF CalledOnce
    <3>0. /\ q[j + 1] = r[j] /\ q[k + 1] = r[k] /\ j + 1 \in DOMAIN q /\ k + 1 \in DOMAIN q
      BY <2>1
    <3>1. j + 1 = k + 1
      BY <2>4, <3>0 DEF CalledOnce
    <3> QED
      BY <2>1, <3>1
  <2>5. ASSUME NEW j \in DOMAIN r, NEW k \in DOMAIN r, j < k, r[k].status \in Openings, Ordered(s, i)
        PROVE  r[j].epoch <= r[k].epoch
    <3>1. /\ q[j + 1] = r[j] /\ q[k + 1] = r[k] /\ j + 1 \in DOMAIN q /\ k + 1 \in DOMAIN q
          /\ j + 1 < k + 1
      BY <2>1, <2>5
    <3> QED
      BY <2>5, <3>1 DEF Ordered
  <2>6. ASSUME Ordered(s, i), Reserves(s, i)' => Reserves(s, i)
        PROVE  Ordered(s, i)'
    <3>1. ASSUME NEW k \in DOMAIN r, r[k].status \in Openings, Reserves(s, i)'
          PROVE  r[k].epoch = epochs[s]
      <4>1. q[k + 1] = r[k] /\ k + 1 \in DOMAIN q /\ Reserves(s, i)
        BY <2>1, <2>6, <3>1
      <4> QED
        BY <2>6, <3>1, <4>1 DEF Ordered
    <3> QED
      BY <2>5, <2>6, <3>1 DEF Ordered
  <2>7. ASSUME NEW status, About(s, m, {status}) PROVE Coming(s, i, {status})
    BY <2>1, <2>7 DEF About, Coming
  <2>8. ASSUME CalledOnce(s, i), About(s, m, {"REQUEST_BID"}) PROVE ~Coming(s, i, {"REQUEST_BID"})'
    <3> SUFFICES ASSUME NEW k \in DOMAIN r, r[k].epoch = epochs[s], r[k].status = "REQUEST_BID"
                 PROVE  FALSE
      BY DEF Coming
    <3>1. q[k + 1] = r[k] /\ k + 1 \in DOMAIN q /\ 1 \in DOMAIN q /\ m = q[1]
      BY <2>1
    <3>2. k + 1 = 1
      BY <2>8, <3>1 DEF CalledOnce, About
    <3> QED
      BY <2>1, <3>2
  <2>9. ASSUME Reserves(s, i), Ordered(s, i), m.status \in Openings PROVE m.epoch = epochs[s]
    BY <2>1, <2>9 DEF Ordered
  <2>10. ASSUME Ordered(s, i), About(s, m, {"REQUEST_BID"}) PROVE Ordered(s, i)'
    <3>1. ASSUME NEW k \in DOMAIN r, r[k].status \in Openings PROVE r[k].epoch = epochs[s]
      <4>1. 1 < k + 1 /\ k + 1 \in DOMAIN q /\ 1 \in DOMAIN q /\ r[k] = q[k + 1] /\ m = q[1]
        BY <2>1
      <4>2. epochs[s] <= r[k].epoch
        BY <2>10, <3>1, <4>1 DEF Ordered, About
      <4>3. r[k] \in Elements(net[<<s, i>>]) /\ r[k] \in Envelope
        BY <2>1, <4>1 DEF Elements
      <4>4. r[k].epoch <= epochs[s]
        BY <2>0, <4>3 DEF DownCovered
      <4>5. r[k].epoch \in Nat
        BY <4>3 DEF Envelope
      <4>6. epochs[s] \in Nat
        BY DEF CoordTypeOK
      <4> HIDE DEF r
      <4> QED
        BY <4>2, <4>4, <4>5, <4>6
    <3> QED
      BY <2>5, <2>10, <3>1 DEF Ordered
  <2> HIDE DEF m
  <2> QED
    BY <1>2, <2>2, <2>3, <2>4, <2>6, <2>7, <2>8, <2>9, <2>10 DEF m
<1> QED
  BY <1>1, <1>2

\* What a step leaves alone stays lawful.
LEMMA LawfulFrame ==
    ASSUME NEW s, NEW i, Lawful(s, i), Ordered(s, i),
           UNCHANGED <<handshakes[s], elections[s], epochs[s], net[<<s, i>>], uplink[i], inst[i]>>
    PROVE  Lawful(s, i)' /\ Ordered(s, i)'
<1>1. /\ (Asked(s, i)' <=> Asked(s, i)) /\ (Bidding(s, i)' <=> Bidding(s, i))
      /\ (Offered(s, i)' <=> Offered(s, i)) /\ (Releasing(s)' <=> Releasing(s))
      /\ \A states : With(s, i, states)' <=> With(s, i, states)
  BY DEF Asked, Bidding, EngagedIn, Offered, Releasing, With
<1>2. (Wanted(s, i)' <=> Wanted(s, i)) /\ (CalledOnce(s, i)' <=> CalledOnce(s, i))
  BY <1>1 DEF Wanted, Claimed, CalledOnce
<1>3. /\ \A statuses : Coming(s, i, statuses)' <=> Coming(s, i, statuses)
      /\ \A k, statuses : Says(s, i, k, statuses)' <=> Says(s, i, k, statuses)
      /\ (Holds(s, i)' <=> Holds(s, i)) /\ (Reserves(s, i)' <=> Reserves(s, i))
  BY DEF Coming, Says, About, Holds, Reserves
<1>4. \A statuses : Said(s, i, statuses)' <=> Said(s, i, statuses)
  BY <1>3 DEF Said
<1>5. Ordered(s, i)'
  BY DEF Ordered, Reserves
<1> QED
  BY <1>1, <1>2, <1>3, <1>4, <1>5 DEF Lawful

\* The aggregate's view does not change while an instance acts.
LEMMA ViewKept ==
    ASSUME UNCHANGED <<handshakes, elections, epochs>>, NEW s, NEW i
    PROVE  /\ (Asked(s, i)' <=> Asked(s, i)) /\ (Bidding(s, i)' <=> Bidding(s, i))
           /\ (Offered(s, i)' <=> Offered(s, i)) /\ (Releasing(s)' <=> Releasing(s))
           /\ (Wanted(s, i)' <=> Wanted(s, i))
           /\ \A states : With(s, i, states)' <=> With(s, i, states)
BY DEF Asked, Bidding, EngagedIn, Offered, Releasing, With, Wanted, Claimed

\* Reading an envelope keeps a conversation lawful.
LEMMA LawfulRead ==
    ASSUME RespondersTypeOK, CoordTypeOK, NEW s \in Subject, NEW i \in Instance, Lawful(s, i),
           UNCHANGED <<handshakes, elections, epochs>>, NEW m \in Envelope, Reading(i, m),
           \A status : Coming(s, i, {status})' => Coming(s, i, {status}),
           CalledOnce(s, i) => CalledOnce(s, i)',
           \A status : About(s, m, {status}) => Coming(s, i, {status}),
           CalledOnce(s, i) /\ About(s, m, {"REQUEST_BID"}) => ~Coming(s, i, {"REQUEST_BID"})'
    PROVE  Lawful(s, i)'
<1>1. Moves(s, i, m)
  BY DEF Reading
<1> DEFINE
      Spoken ==
      /\ \A statuses : Said(s, i, statuses) => Said(s, i, statuses)'
      /\ Said(s, i, {"CANCEL_ACK"})' => Said(s, i, {"CANCEL_ACK"}) \/ About(s, m, {"CANCEL"})
      /\ Said(s, i, {"BID"})' => Said(s, i, {"BID"}) \/ About(s, m, {"REQUEST_BID"})
      /\ Said(s, i, {"REVOKE"})' => Said(s, i, {"REVOKE"})
      /\ Said(s, i, {"ACK"})' => Said(s, i, {"ACK"})
                                 \/ (About(s, m, {"REQUEST", "AWARD"}) /\ ~Reserves(s, i)')
      /\ \A k : Says(s, i, k, {"REVOKE"})' => Says(s, i, k, {"REVOKE"})
      /\ \A k : Says(s, i, k, {"ACK"}) => Says(s, i, k, {"ACK"})'
      /\ DOMAIN uplink[i] \subseteq DOMAIN uplink'[i]
<1>2. Spoken
  <2>1. CASE uplink' = uplink
    BY <2>1 DEF Said, Says, About
  <2>2. ASSUME NEW st \in ToAggregate, Means(i, m, st), Spoke(i, Env(st, m.id, i, m.epoch))
        PROVE  Spoken
    <3> DEFINE w == Env(st, m.id, i, m.epoch)
    <3>1. w \in Envelope /\ uplink'[i] = Append(uplink[i], w)
      BY <2>2, EnvelopeType DEF Spoke, RespondersTypeOK, Envelope
    <3>2. \A statuses : About(s, w, statuses) <=>
             (m.id = s /\ m.epoch = epochs[s] /\ st \in statuses)
      BY DEF About, Env
    <3> HIDE DEF w
    <3>3. /\ \A statuses : \A k \in Nat :
                Says(s, i, k, statuses)' <=>
                   Says(s, i, k, statuses) \/ (k = Len(uplink[i]) + 1 /\ About(s, w, statuses))
          /\ \A statuses : Said(s, i, statuses)' <=> Said(s, i, statuses) \/ About(s, w, statuses)
          /\ DOMAIN uplink[i] = 1 .. Len(uplink[i]) /\ Len(uplink[i]) \in Nat
          /\ DOMAIN uplink'[i] = 1 .. Len(uplink[i]) + 1
      BY <3>1, SpeakSays
    <3>4. \A k, statuses : (Says(s, i, k, statuses) => k \in Nat) /\ (Says(s, i, k, statuses)' => k \in Nat)
      BY <3>3 DEF Says
    <3>5. /\ st = "ACK" => m.status \in {"REQUEST", "AWARD"} /\ ~Reserves(s, i)'
          /\ st = "BID" => m.status = "REQUEST_BID"
          /\ st = "CANCEL_ACK" => m.status = "CANCEL"
          /\ st # "REVOKE"
      BY <2>2 DEF Means, Reserves
    <3>10. /\ About(s, w, {"CANCEL_ACK"}) => m.id = s /\ m.epoch = epochs[s] /\ st = "CANCEL_ACK"
           /\ About(s, w, {"BID"}) => m.id = s /\ m.epoch = epochs[s] /\ st = "BID"
           /\ About(s, w, {"ACK"}) => m.id = s /\ m.epoch = epochs[s] /\ st = "ACK"
      BY <3>2
    <3>6. ~About(s, w, {"REVOKE"})
      BY <3>2, <3>5
    <3>7. About(s, w, {"CANCEL_ACK"}) => About(s, m, {"CANCEL"})
      <4> SUFFICES ASSUME About(s, w, {"CANCEL_ACK"}) PROVE About(s, m, {"CANCEL"})
        OBVIOUS
      <4>1. m.id = s /\ m.epoch = epochs[s] /\ st = "CANCEL_ACK"
        BY <3>10
      <4> QED
        BY <3>5, <4>1 DEF About
    <3>8. About(s, w, {"BID"}) => About(s, m, {"REQUEST_BID"})
      <4> SUFFICES ASSUME About(s, w, {"BID"}) PROVE About(s, m, {"REQUEST_BID"})
        OBVIOUS
      <4>1. m.id = s /\ m.epoch = epochs[s] /\ st = "BID"
        BY <3>10
      <4> QED
        BY <3>5, <4>1 DEF About
    <3>9. About(s, w, {"ACK"}) => About(s, m, {"REQUEST", "AWARD"}) /\ ~Reserves(s, i)'
      <4> SUFFICES ASSUME About(s, w, {"ACK"}) PROVE About(s, m, {"REQUEST", "AWARD"}) /\ ~Reserves(s, i)'
        OBVIOUS
      <4>1. m.id = s /\ m.epoch = epochs[s] /\ st = "ACK"
        BY <3>10
      <4> QED
        BY <3>5, <4>1 DEF About
    <3> QED
      BY <3>3, <3>4, <3>6, <3>7, <3>8, <3>9
  <2> QED
    BY <2>1, <2>2 DEF Reading
<1>3. About(s, m, {"REQUEST", "AWARD"}) => Coming(s, i, {"REQUEST"}) \/ Coming(s, i, {"AWARD"})
  <2>1. About(s, m, {"REQUEST", "AWARD"}) => About(s, m, {"REQUEST"}) \/ About(s, m, {"AWARD"})
    BY DEF About
  <2> QED
    BY <2>1
<1>4. Holds(s, i)' => Holds(s, i) \/ (About(s, m, {"REQUEST", "AWARD"}) /\ Said(s, i, {"ACK"})')
  <2> SUFFICES ASSUME Holds(s, i)', ~Holds(s, i)
               PROVE  About(s, m, {"REQUEST", "AWARD"}) /\ Said(s, i, {"ACK"})'
    OBVIOUS
  <2>1. About(s, m, {"REQUEST", "AWARD"}) /\ Spoke(i, Env("ACK", m.id, i, m.epoch))
    BY <1>1 DEF Moves
  <2>2. Env("ACK", m.id, i, m.epoch) \in Envelope
    BY EnvelopeType DEF Envelope, ToAggregate
  <2>3. About(s, Env("ACK", m.id, i, m.epoch), {"ACK"})
    BY <2>1 DEF About, Env
  <2>4. uplink'[i] = Append(uplink[i], Env("ACK", m.id, i, m.epoch))
    BY <2>1 DEF Spoke, RespondersTypeOK
  <2> QED
    BY <2>1, <2>2, <2>3, <2>4, SpeakSays
<1>5. Reserves(s, i)' => Reserves(s, i) \/ About(s, m, {"REQUEST_BID"})
  BY <1>1 DEF Moves
<1>6. Wanted(s, i)' => ~Coming(s, i, {"COMPLETE_ACK"})'
  BY ViewKept DEF Lawful
<1>7. Wanted(s, i)' /\ ~Releasing(s)' => ~Coming(s, i, {"CANCEL"})' /\ ~Said(s, i, {"CANCEL_ACK"})'
  BY <1>2, ViewKept DEF Lawful
<1>8. Asked(s, i)' => ~Coming(s, i, {"REQUEST_BID"})' /\ ~Said(s, i, {"BID"})' /\ ~Reserves(s, i)'
  BY <1>2, <1>5, ViewKept DEF Lawful
<1>9. Bidding(s, i)' =>
          /\ ~Coming(s, i, {"REQUEST"})' /\ ~Coming(s, i, {"AWARD"})'
          /\ ~Said(s, i, {"REVOKE"})' /\ ~Said(s, i, {"ACK"})' /\ ~Holds(s, i)'
          /\ CalledOnce(s, i)'
          /\ Coming(s, i, {"REQUEST_BID"})' => ~Offered(s, i)' /\ ~Said(s, i, {"BID"})'
  BY <1>2, <1>3, <1>4, ViewKept DEF Lawful
<1>10. With(s, i, {"AWARDED"})' =>
          /\ ~Coming(s, i, {"REQUEST_BID"})'
          /\ Holds(s, i)' => Said(s, i, {"ACK"})'
          /\ \A k \in DOMAIN uplink'[i] : Says(s, i, k, {"REVOKE"})' =>
                \E j \in DOMAIN uplink'[i] : j < k /\ Says(s, i, j, {"ACK"})'
          /\ Said(s, i, {"ACK"})' => ~Reserves(s, i)'
  <2>0. With(s, i, {"AWARDED"})' => With(s, i, {"AWARDED"})
    BY ViewKept
  <2> SUFFICES ASSUME With(s, i, {"AWARDED"})
               PROVE  /\ ~Coming(s, i, {"REQUEST_BID"})'
                      /\ Holds(s, i)' => Said(s, i, {"ACK"})'
                      /\ \A k \in DOMAIN uplink'[i] : Says(s, i, k, {"REVOKE"})' =>
                            \E j \in DOMAIN uplink'[i] : j < k /\ Says(s, i, j, {"ACK"})'
                      /\ Said(s, i, {"ACK"})' => ~Reserves(s, i)'
    BY <2>0
  <2>1. /\ ~Coming(s, i, {"REQUEST_BID"}) /\ (Holds(s, i) => Said(s, i, {"ACK"}))
        /\ \A k \in DOMAIN uplink[i] : Says(s, i, k, {"REVOKE"}) =>
                \E j \in DOMAIN uplink[i] : j < k /\ Says(s, i, j, {"ACK"})
        /\ Said(s, i, {"ACK"}) => ~Reserves(s, i)
    BY DEF Lawful
  <2>2. ~About(s, m, {"REQUEST_BID"})
    BY <2>1
  <2>3. \A k : Says(s, i, k, {"REVOKE"}) => k \in DOMAIN uplink[i]
    BY DEF Says
  <2> QED
    BY <1>2, <1>4, <1>5, <2>1, <2>2, <2>3
<1>11. With(s, i, {"CONFIRMED"})' => ~Coming(s, i, {"REQUEST_BID"})' /\ ~Reserves(s, i)'
  BY <1>5, ViewKept DEF Lawful
<1> QED
  BY <1>6, <1>7, <1>8, <1>9, <1>10, <1>11 DEF Lawful

\* What instance i says or drops by itself keeps a conversation lawful.
LEMMA LawfulAnnounce ==
    ASSUME RespondersTypeOK, NEW s \in Subject, NEW i \in Instance, Lawful(s, i),
           UNCHANGED <<handshakes, elections, epochs, net>>,
           Holds(s, i)' => Holds(s, i), Reserves(s, i)' => Reserves(s, i),
           \/ uplink'[i] = uplink[i]
           \/ \E w \in Envelope :
                 /\ uplink'[i] = Append(uplink[i], w)
                 /\ w.status \in {"REVOKE", "COMPLETE"}
                 /\ About(s, w, {"REVOKE"}) => Holds(s, i)
    PROVE  Lawful(s, i)'
<1> DEFINE
      Spoken ==
      /\ \A statuses : "REVOKE" \notin statuses /\ "COMPLETE" \notin statuses =>
            (Said(s, i, statuses)' <=> Said(s, i, statuses))
      /\ Said(s, i, {"REVOKE"})' => Said(s, i, {"REVOKE"}) \/ Holds(s, i)
      /\ \A k : Says(s, i, k, {"ACK"}) => Says(s, i, k, {"ACK"})'
      /\ \A k : Says(s, i, k, {"REVOKE"})' =>
            \/ Says(s, i, k, {"REVOKE"})
            \/ (Holds(s, i) /\ \A j \in DOMAIN uplink[i] : j < k)
      /\ DOMAIN uplink[i] \subseteq DOMAIN uplink'[i]
<1>1. Spoken
  <2>1. CASE uplink'[i] = uplink[i]
    BY <2>1 DEF Said, Says, About
  <2>2. ASSUME NEW w \in Envelope, uplink'[i] = Append(uplink[i], w),
               w.status \in {"REVOKE", "COMPLETE"}, About(s, w, {"REVOKE"}) => Holds(s, i)
        PROVE  Spoken
    <3>1. /\ \A statuses : \A k \in Nat :
                Says(s, i, k, statuses)' <=>
                   Says(s, i, k, statuses) \/ (k = Len(uplink[i]) + 1 /\ About(s, w, statuses))
          /\ \A statuses : Said(s, i, statuses)' <=> Said(s, i, statuses) \/ About(s, w, statuses)
          /\ DOMAIN uplink[i] = 1 .. Len(uplink[i]) /\ Len(uplink[i]) \in Nat
          /\ DOMAIN uplink'[i] = 1 .. Len(uplink[i]) + 1
      BY <2>2, SpeakSays
    <3>2. \A k, statuses : (Says(s, i, k, statuses) => k \in Nat) /\ (Says(s, i, k, statuses)' => k \in Nat)
      BY <3>1 DEF Says
    <3>3. \A statuses : "REVOKE" \notin statuses /\ "COMPLETE" \notin statuses => ~About(s, w, statuses)
      BY <2>2 DEF About
    <3>4. \A j \in DOMAIN uplink[i] : j < Len(uplink[i]) + 1
      BY <3>1
    <3> QED
      BY <2>2, <3>1, <3>2, <3>3, <3>4
  <2> QED
    BY <2>1, <2>2
<1>2. /\ \A statuses : Coming(s, i, statuses)' <=> Coming(s, i, statuses)
      /\ CalledOnce(s, i)' <=> CalledOnce(s, i)
  BY DEF Coming, CalledOnce
<1>3. Wanted(s, i)' => ~Coming(s, i, {"COMPLETE_ACK"})'
  BY <1>2, ViewKept DEF Lawful
<1>4. Wanted(s, i)' /\ ~Releasing(s)' => ~Coming(s, i, {"CANCEL"})' /\ ~Said(s, i, {"CANCEL_ACK"})'
  BY <1>1, <1>2, ViewKept DEF Lawful
<1>5. Asked(s, i)' => ~Coming(s, i, {"REQUEST_BID"})' /\ ~Said(s, i, {"BID"})' /\ ~Reserves(s, i)'
  BY <1>1, <1>2, ViewKept DEF Lawful
<1>6. Bidding(s, i)' =>
          /\ ~Coming(s, i, {"REQUEST"})' /\ ~Coming(s, i, {"AWARD"})'
          /\ ~Said(s, i, {"REVOKE"})' /\ ~Said(s, i, {"ACK"})' /\ ~Holds(s, i)'
          /\ CalledOnce(s, i)'
          /\ Coming(s, i, {"REQUEST_BID"})' => ~Offered(s, i)' /\ ~Said(s, i, {"BID"})'
  BY <1>1, <1>2, ViewKept DEF Lawful
<1>7. With(s, i, {"AWARDED"})' =>
          /\ ~Coming(s, i, {"REQUEST_BID"})'
          /\ Holds(s, i)' => Said(s, i, {"ACK"})'
          /\ \A k \in DOMAIN uplink'[i] : Says(s, i, k, {"REVOKE"})' =>
                \E j \in DOMAIN uplink'[i] : j < k /\ Says(s, i, j, {"ACK"})'
          /\ Said(s, i, {"ACK"})' => ~Reserves(s, i)'
  <2>0. With(s, i, {"AWARDED"})' => With(s, i, {"AWARDED"})
    BY ViewKept
  <2> SUFFICES ASSUME With(s, i, {"AWARDED"})
               PROVE  /\ ~Coming(s, i, {"REQUEST_BID"})'
                      /\ Holds(s, i)' => Said(s, i, {"ACK"})'
                      /\ \A k \in DOMAIN uplink'[i] : Says(s, i, k, {"REVOKE"})' =>
                            \E j \in DOMAIN uplink'[i] : j < k /\ Says(s, i, j, {"ACK"})'
                      /\ Said(s, i, {"ACK"})' => ~Reserves(s, i)'
    BY <2>0
  <2>1. /\ ~Coming(s, i, {"REQUEST_BID"}) /\ (Holds(s, i) => Said(s, i, {"ACK"}))
        /\ \A k \in DOMAIN uplink[i] : Says(s, i, k, {"REVOKE"}) =>
                \E j \in DOMAIN uplink[i] : j < k /\ Says(s, i, j, {"ACK"})
        /\ Said(s, i, {"ACK"}) => ~Reserves(s, i)
    BY DEF Lawful
  <2>2. \A k : Says(s, i, k, {"REVOKE"}) => k \in DOMAIN uplink[i]
    BY DEF Says
  <2>3. ASSUME NEW k \in DOMAIN uplink'[i], Says(s, i, k, {"REVOKE"})'
        PROVE  \E j \in DOMAIN uplink'[i] : j < k /\ Says(s, i, j, {"ACK"})'
    <3>1. \E j \in DOMAIN uplink[i] : j < k /\ Says(s, i, j, {"ACK"})
      BY <1>1, <2>1, <2>2, <2>3 DEF Said
    <3> QED
      BY <1>1, <3>1
  <2> QED
    BY <1>1, <1>2, <2>1, <2>3
<1>8. With(s, i, {"CONFIRMED"})' => ~Coming(s, i, {"REQUEST_BID"})' /\ ~Reserves(s, i)'
  BY <1>2, ViewKept DEF Lawful
<1> QED
  BY <1>3, <1>4, <1>5, <1>6, <1>7, <1>8 DEF Lawful

\* What every step has to keep beyond types and epochs.
Good == /\ \A s \in Subject : Conversation(s)
        /\ \A i \in Instance : OnePledge(i) /\ Chained(i)
        /\ \A s \in Subject, i \in Instance : Ordered(s, i) /\ Lawful(s, i)

\* A step at instance i that leaves the aggregate's view alone.
LEMMA LocalStep ==
    ASSUME PledgeInv, NEW i \in Instance, UNCHANGED <<handshakes, elections, epochs>>,
           \A j \in Instance \ {i} : UNCHANGED <<inst[j], uplink[j]>>,
           \A s \in Subject, j \in Instance \ {i} : UNCHANGED net[<<s, j>>],
           OnePledge(i)', Chained(i)',
           \A s \in Subject : Ordered(s, i)' /\ Lawful(s, i)'
    PROVE  Good'
<1>1. ASSUME NEW s \in Subject PROVE Conversation(s)'
  BY DEF PledgeInv, Conversation
<1>2. ASSUME NEW j \in Instance, j # i PROVE OnePledge(j)' /\ Chained(j)'
  <2>1. OnePledge(j)'
    BY <1>2 DEF PledgeInv, OnePledge
  <2>2. Chained(j) /\ uplink'[j] = uplink[j] /\ inst'[j] = inst[j]
    BY <1>2 DEF PledgeInv
  <2>3. \A s \in Subject : Wanted(s, j) /\ Pledged(s, j) => Pledged(s, j)'
    BY <2>2 DEF Pledged, Holds, Reserves
  <2> QED
    BY <2>1, <2>2, <2>3, ChainSilent
<1>3. ASSUME NEW s \in Subject, NEW j \in Instance, j # i PROVE Ordered(s, j)' /\ Lawful(s, j)'
  BY <1>3, LawfulFrame DEF PledgeInv
<1> QED
  BY <1>1, <1>2, <1>3 DEF Good

\* Instance i reads an envelope.
LEMMA ReceiveGood ==
    ASSUME PledgeInv, NEW i \in Instance, Receive(i)
    PROVE  Good'
<1> USE DEF PledgeInv, Inv, TypeOK
<1>1. PICK t \in Subject :
         /\ net[<<t, i>>] # <<>>
         /\ net' = [net EXCEPT ![<<t, i>>] = Tail(net[<<t, i>>])]
         /\ UNCHANGED <<handshakes, elections, epochs, cooling>>
         /\ LET m == Head(net[<<t, i>>])
            IN  \/ OnRequest(i, m) \/ OnRequestBid(i, m) \/ OnAward(i, m)
                \/ OnCancel(i, m) \/ OnCompleteAck(i, m)
  BY DEF Receive
<1>2. DownCovered
  BY DEF Covered
<1>3. PICK m \in Envelope :
         m = Head(net[<<t, i>>]) /\ m.id = t /\ m.epoch <= epochs[m.id]
  <2> DEFINE first == Head(net[<<t, i>>])
  <2>1. first \in Envelope /\ first.id = t /\ first.epoch <= epochs[t]
    BY <1>1, <1>2, TailComes
  <2> HIDE DEF first
  <2>2. first.epoch <= epochs[first.id]
    BY <2>1
  <2> QED
    BY <2>1, <2>2 DEF first
<1>4. Reading(i, m)
  BY <1>1, <1>3, Reads
<1>5. ASSUME NEW s \in Subject
      PROVE  /\ \A status : Coming(s, i, {status})' => Coming(s, i, {status})
             /\ CalledOnce(s, i) => CalledOnce(s, i)'
             /\ (Reserves(s, i)' => Reserves(s, i)) => Ordered(s, i)'
             /\ \A status : About(s, m, {status}) => Coming(s, i, {status})
             /\ CalledOnce(s, i) /\ About(s, m, {"REQUEST_BID"}) => ~Coming(s, i, {"REQUEST_BID"})'
             /\ Reserves(s, i) /\ m.id = s /\ m.status \in Openings => m.epoch = epochs[s]
             /\ About(s, m, {"REQUEST_BID"}) => Ordered(s, i)'
  <2>1. \A status : About(s, m, {status}) => s = t
    BY <1>3 DEF About
  <2>2. CASE s = t
    BY <1>1, <1>2, <1>3, <2>2, TailComes
  <2>3. CASE s # t
    BY <1>1, <1>2, <1>3, <2>1, <2>3, TailComes
  <2> QED
    BY <2>2, <2>3
<1>6. ASSUME NEW s \in Subject PROVE Lawful(s, i)' /\ Ordered(s, i)'
  <2>1. Lawful(s, i)'
    BY <1>1, <1>3, <1>4, <1>5, LawfulRead
  <2>2. Reserves(s, i)' => Reserves(s, i) \/ About(s, m, {"REQUEST_BID"})
    BY <1>4 DEF Reading, Moves
  <2> QED
    BY <1>5, <2>1, <2>2
<1>7. \A s \in Subject : Wanted(s, i) /\ Pledged(s, i) /\ ~Pledged(s, i)' =>
         About(s, m, {"CANCEL"}) /\ Spoke(i, Env("CANCEL_ACK", m.id, i, m.epoch))
  <2> SUFFICES ASSUME NEW s \in Subject, Wanted(s, i), Pledged(s, i), ~Pledged(s, i)'
               PROVE  About(s, m, {"CANCEL"}) /\ Spoke(i, Env("CANCEL_ACK", m.id, i, m.epoch))
    OBVIOUS
  <2>1. ~About(s, m, {"COMPLETE_ACK"})
    BY <1>5 DEF Lawful
  <2>2. ~(Reserves(s, i) /\ m.id = s /\ m.epoch # epochs[s] /\ m.status \in Openings)
    BY <1>5
  <2> QED
    BY <1>4, <2>1, <2>2 DEF Reading, Moves
<1>8. Chained(i)'
  <2>1. CASE uplink' = uplink
    <3>1. uplink'[i] # Append(uplink[i], Env("CANCEL_ACK", m.id, i, m.epoch))
      <4>1. uplink[i] \in Seq(Envelope) /\ Env("CANCEL_ACK", m.id, i, m.epoch) \in Envelope
        BY <1>3, EnvelopeType DEF RespondersTypeOK, Envelope, ToAggregate
      <4>2. Len(Append(uplink[i], Env("CANCEL_ACK", m.id, i, m.epoch))) = Len(uplink[i]) + 1
            /\ Len(uplink[i]) \in Nat
        BY <4>1, Positions
      <4>3. Len(uplink[i]) # Len(uplink[i]) + 1
        BY <4>2
      <4> QED
        BY <2>1, <4>2, <4>3
    <3>2. ~Spoke(i, Env("CANCEL_ACK", m.id, i, m.epoch))
      BY <3>1 DEF Spoke, RespondersTypeOK
    <3> QED
      BY <1>1, <1>7, <2>1, <3>2, ChainSilent
  <2>2. ASSUME NEW st \in ToAggregate, Means(i, m, st), Spoke(i, Env(st, m.id, i, m.epoch))
        PROVE  Chained(i)'
    <3> DEFINE w == Env(st, m.id, i, m.epoch)
    <3>1. w \in Envelope /\ uplink'[i] = Append(uplink[i], w)
      BY <1>3, <2>2, EnvelopeType DEF Spoke, RespondersTypeOK, Envelope
    <3>2. ASSUME NEW s \in Subject, Wanted(s, i), Pledged(s, i), ~Pledged(s, i)'
          PROVE  About(s, w, LetGoWords)
      <4>1. About(s, m, {"CANCEL"}) /\ Spoke(i, Env("CANCEL_ACK", m.id, i, m.epoch))
        BY <1>7, <3>2
      <4>2. Env("CANCEL_ACK", m.id, i, m.epoch) \in Envelope /\ uplink[i] \in Seq(Envelope)
            /\ uplink'[i] = Append(uplink[i], Env("CANCEL_ACK", m.id, i, m.epoch))
        <5>1. Env("CANCEL_ACK", m.id, i, m.epoch) \in Envelope
          BY <1>3, EnvelopeType DEF Envelope, ToAggregate
        <5> QED
          BY <4>1, <5>1, SpokeAppends
      <4>3. uplink'[i][Len(uplink[i]) + 1] = Env("CANCEL_ACK", m.id, i, m.epoch)
        BY <4>2, Positions
      <4>4. uplink'[i][Len(uplink[i]) + 1] = w
        <5> HIDE DEF w
        <5> QED
          BY <3>1, <4>2, Positions
      <4>5. w.status = "CANCEL_ACK" /\ w.id = m.id /\ w.epoch = m.epoch
        BY <4>3, <4>4 DEF Env
      <4> HIDE DEF w
      <4> QED
        BY <4>1, <4>5 DEF About, LetGoWords
    <3>3. ASSUME NEW s \in Subject, About(s, w, {"ACK", "BID"})
          PROVE  Pledged(s, i)' /\ \A x \in Subject \ {s} : ~Pledged(x, i)
      <4>1. m.id = s /\ m.epoch = epochs[s] /\ st \in {"ACK", "BID"}
        BY <3>3 DEF About, Env
      <4> QED
        BY <2>2, <4>1 DEF Means
    <3> HIDE DEF w
    <3> QED
      BY <1>1, <3>1, <3>2, <3>3, ChainSpoken
  <2> QED
    BY <1>4, <2>1, <2>2 DEF Reading
<1>9. OnePledge(i)' /\ \A j \in Instance \ {i} : UNCHANGED <<inst[j], uplink[j]>>
  BY <1>4 DEF Reading, Spoke, RespondersTypeOK
<1>10. \A s \in Subject, j \in Instance \ {i} : UNCHANGED net[<<s, j>>]
  BY <1>1 DEF CoordTypeOK
<1> HIDE DEF PledgeInv
<1> QED
  BY <1>1, <1>6, <1>8, <1>9, <1>10, LocalStep

\* Instance i says by itself that a binding failed or that the subject finished.
LEMMA AnnounceGood ==
    ASSUME PledgeInv, NEW i \in Instance, Revoke(i) \/ Complete(i)
    PROVE  Good'
<1> USE DEF PledgeInv, Inv, TypeOK
<1> DEFINE held == inst[i]
           st == IF Revoke(i) THEN "REVOKE" ELSE "COMPLETE"
           word == Env(st, held.active, i, held.epoch)
           left == IF Revoke(i) THEN [inst[i] EXCEPT !.active = None, !.epoch = 0] ELSE inst[i]
<1>1. held \in Holding /\ held.active \in Subject /\ held.epoch \in Nat /\ held.active # None
  BY DEF Revoke, Complete, Announce, Free, RespondersTypeOK, Holding
<1>2. /\ left \in Holding /\ left.reserved = held.reserved
      /\ left.active = held.active => left.epoch = held.epoch
      /\ left.active \in {None, held.active}
      /\ st = "COMPLETE" => left = held
  BY <1>1 DEF Holding
<1>3. Announce(i, st, left)
  BY DEF Revoke, Complete
<1>4. st \in {"REVOKE", "COMPLETE"} /\ (st = "REVOKE" => left.active = None)
  BY <1>1, <1>2 DEF Holding
<1> HIDE DEF st, left
<1>5. word \in Envelope /\ word.status = st /\ word.id = held.active /\ word.epoch = held.epoch
  BY <1>1, <1>4 DEF Env, Envelope, ToAggregate
<1>6. /\ inst' = [inst EXCEPT ![i] = left] /\ UNCHANGED coordVars /\ Spoke(i, word)
  BY <1>3 DEF Announce, Spoke
<1>7. inst'[i] = left /\ \A j \in Instance \ {i} : inst'[j] = inst[j]
  BY <1>6 DEF RespondersTypeOK
<1> HIDE DEF word
<1>8. uplink'[i] = Append(uplink[i], word) /\ \A j \in Instance \ {i} : uplink'[j] = uplink[j]
  BY <1>6, SpokeAppends
<1>9. UNCHANGED <<handshakes, elections, epochs, net>>
  BY <1>6 DEF coordVars
<1>10. OnePledge(i)'
  BY <1>1, <1>2, <1>7, <1>9 DEF OnePledge
<1>11. ASSUME NEW s \in Subject
       PROVE  /\ Holds(s, i)' => Holds(s, i)
              /\ Reserves(s, i)' <=> Reserves(s, i)
              /\ About(s, word, {"REVOKE"}) => Holds(s, i)
              /\ Holds(s, i) /\ ~Holds(s, i)' => About(s, word, {"REVOKE"})
  <2>0. s # None
    BY HandshakeAssumption
  <2>1. Holds(s, i)' => Holds(s, i)
    BY <1>2, <1>7, <1>9, <2>0 DEF Holds
  <2>2. Reserves(s, i)' <=> Reserves(s, i)
    BY <1>2, <1>7, <1>9 DEF Reserves
  <2>3. About(s, word, {"REVOKE"}) => Holds(s, i)
    BY <1>5 DEF About, Holds
  <2>4. Holds(s, i) /\ ~Holds(s, i)' => About(s, word, {"REVOKE"})
    BY <1>2, <1>4, <1>5, <1>7, <1>9 DEF About, Holds
  <2> QED
    BY <2>1, <2>2, <2>3, <2>4
<1>12. ASSUME NEW s \in Subject PROVE Lawful(s, i)' /\ Ordered(s, i)'
  <2>1. Lawful(s, i)'
    BY <1>4, <1>5, <1>8, <1>9, <1>11, LawfulAnnounce
  <2>2. Ordered(s, i)'
    BY <1>9, <1>11 DEF Ordered
  <2> QED
    BY <2>1, <2>2
<1>13. Chained(i)'
  <2>1. \A s \in Subject : Wanted(s, i) /\ Pledged(s, i) /\ ~Pledged(s, i)' =>
               About(s, word, LetGoWords)
    <3>1. \A s \in Subject : About(s, word, {"REVOKE"}) => About(s, word, LetGoWords)
      BY DEF About, LetGoWords
    <3> QED
      BY <1>11, <3>1 DEF Pledged
  <2>2. \A s \in Subject : ~About(s, word, {"ACK", "BID"})
    BY <1>4, <1>5 DEF About
  <2> QED
    BY <1>5, <1>8, <1>9, <2>1, <2>2, ChainSpoken
<1> HIDE DEF PledgeInv
<1> QED
  BY <1>7, <1>8, <1>9, <1>10, <1>12, <1>13, LocalStep

\* A reservation lapses only when the round that asked for it is over.
LEMMA LapseGood ==
    ASSUME PledgeInv, ~Lapses, NEW i \in Instance, ReservationLapses(i)
    PROVE  Good'
<1> USE DEF PledgeInv, Inv, TypeOK
<1>1. /\ inst' = [inst EXCEPT ![i].reserved = {}]
      /\ UNCHANGED <<coordVars, uplink>>
      /\ \A r \in inst[i].reserved : i \notin Engaged(r[1])
  BY DEF ReservationLapses
<1>2. /\ inst'[i].active = inst[i].active /\ inst'[i].epoch = inst[i].epoch
      /\ inst'[i].reserved = {}
      /\ \A j \in Instance \ {i} : inst'[j] = inst[j]
  BY <1>1 DEF RespondersTypeOK, Holding
<1>3. UNCHANGED <<handshakes, elections, epochs, net>>
  BY <1>1 DEF coordVars
<1>4. OnePledge(i)'
  BY <1>2 DEF OnePledge
<1>5. ASSUME NEW s \in Subject
      PROVE  (Holds(s, i)' <=> Holds(s, i)) /\ ~Reserves(s, i)'
  BY <1>2, <1>3 DEF Holds, Reserves
<1>6. ASSUME NEW s \in Subject PROVE Lawful(s, i)' /\ Ordered(s, i)'
  <2>1. Lawful(s, i)'
    BY <1>1, <1>3, <1>5, LawfulAnnounce
  <2>2. Ordered(s, i)'
    BY <1>3, <1>5 DEF Ordered
  <2> QED
    BY <2>1, <2>2
<1>7. ASSUME NEW s \in Subject, Wanted(s, i), Reserves(s, i) PROVE FALSE
  <2>1. i \notin Engaged(s)
    <3>1. <<s, epochs[s]>>[1] = s
      OBVIOUS
    <3> QED
      BY <1>1, <1>7, <3>1 DEF Reserves
  <2>2. ~Asked(s, i)
    BY <1>7 DEF Lawful
  <2>3. ~Bidding(s, i) /\ ~Offered(s, i)
    BY <2>1 DEF Engaged, Bidding, Offered, EngagedIn
  <2>4. ~With(s, i, {"AWARDED", "CONFIRMED", "CANCELLED"})
    BY <2>1, HandshakeAssumption DEF Engaged, EngagedBy, With
  <2> QED
    BY <1>7, <2>2, <2>3, <2>4 DEF Wanted, Claimed
<1>8. Chained(i)'
  <2>1. \A s \in Subject : Wanted(s, i) /\ Pledged(s, i) => Pledged(s, i)'
    BY <1>5, <1>7 DEF Pledged
  <2> QED
    BY <1>1, <1>3, <2>1, ChainSilent
<1> HIDE DEF PledgeInv
<1> QED
  BY <1>1, <1>2, <1>3, <1>4, <1>6, <1>8, LocalStep

\* Every step of reliable instances on a reliable network.
LEMMA EnvironmentGood ==
    ASSUME PledgeInv, Reliable, Environment
    PROVE  Good'
<1>1. PICK i \in Instance : InstanceStep(i)
  BY DEF Environment, Lose, LoseUp, LoseDown, Reliable
<1>2. CASE Receive(i)
  BY <1>2, ReceiveGood
<1>3. CASE Revoke(i) \/ Complete(i)
  BY <1>3, AnnounceGood
<1>4. CASE ReservationLapses(i)
  BY <1>4, LapseGood DEF Reliable
<1> QED
  BY <1>1, <1>2, <1>3, <1>4 DEF InstanceStep, Restart, Reliable

-----------------------------------------------------------------------------
(* The aggregate                                                           *)

\* The aggregate has just routed such a word of instance i.
Heard(s, i, statuses) == Take(i) /\ Says(s, i, 1, statuses)

\* How the aggregate's view of i may move on, but for an opening.
Advances(s, i) ==
    /\ Asked(s, i)' => Asked(s, i)
    /\ Bidding(s, i)' => Bidding(s, i)
    /\ Offered(s, i)' => Offered(s, i) \/ (Bidding(s, i) /\ Heard(s, i, {"BID"}))
    /\ With(s, i, {"AWARDED"})' =>
          \/ With(s, i, {"AWARDED"}) /\ ~Heard(s, i, {"ACK"})
          \/ Bidding(s, i) /\ (Offered(s, i) \/ Heard(s, i, {"BID"}))
    /\ With(s, i, {"CONFIRMED"})' =>
          \/ With(s, i, {"CONFIRMED"})
          \/ (Asked(s, i) \/ With(s, i, {"AWARDED"})) /\ Heard(s, i, {"ACK"})
    /\ With(s, i, {"CANCELLED"})' => With(s, i, {"AWARDED", "CONFIRMED", "CANCELLED"})
    /\ Releasing(s) /\ Wanted(s, i)' => Releasing(s)'
    /\ With(s, i, {"CONFIRMED", "CANCELLED"}) /\ Heard(s, i, {"REVOKE"}) => ~Claimed(s, i)'
    /\ With(s, i, {"CANCELLED"}) /\ Heard(s, i, {"CANCEL_ACK"}) => ~Claimed(s, i)'

\* What may be said to i about the attempt under way, given the view it leads to.
Fits(s, i, status) ==
    \/ status = "CANCEL" /\ (Releasing(s)' \/ ~Wanted(s, i)')
    \/ status = "COMPLETE_ACK" /\ ~Wanted(s, i)'
    \/ status = "AWARD" /\ ~Bidding(s, i)'

\* The whole of a conversation with i moves on, but for its opening.
Follows(s, i) ==
    /\ epochs'[s] = epochs[s]
    /\ Advances(s, i)
    /\ CalledOnce(s, i) => CalledOnce(s, i)'
    /\ Ordered(s, i) => Ordered(s, i)'
    /\ \A status : Coming(s, i, {status})' /\ ~Coming(s, i, {status}) => Fits(s, i, status)

\* Nothing was routed from an instance whose queue is as before.
LEMMA NothingHeard ==
    ASSUME RespondersTypeOK, NEW i \in Instance, uplink'[i] = uplink[i]
    PROVE  ~Take(i)
<1> SUFFICES ASSUME Take(i) PROVE FALSE
  OBVIOUS
<1>1. uplink[i] \in Seq(Envelope) /\ uplink[i] # <<>> /\ uplink'[i] = Tail(uplink[i])
  BY DEF Take, RespondersTypeOK
<1>2. Len(uplink[i]) \in Nat /\ Len(uplink'[i]) = Len(uplink[i]) - 1
  BY <1>1, TailPositions
<1> QED
  BY <1>2

\* Moving on like that is lawful.
LEMMA FollowsLawful ==
    ASSUME RespondersTypeOK, NEW s \in Subject, NEW i \in Instance, Lawful(s, i), Follows(s, i),
           inst'[i] = inst[i], uplink'[i] = uplink[i] \/ Take(i)
    PROVE  Lawful(s, i)'
<1>1. /\ epochs'[s] = epochs[s] /\ (Holds(s, i)' <=> Holds(s, i)) /\ (Reserves(s, i)' <=> Reserves(s, i))
  BY DEF Follows, Advances, Fits, Holds, Reserves
<1>2. \A statuses : Said(s, i, statuses)' => Said(s, i, statuses)
  BY <1>1, TakeSays DEF Said, Says, About
<1>3. \A statuses : Heard(s, i, statuses) => Said(s, i, statuses)
  BY DEF Heard, Said, Says
<1>4. Wanted(s, i)' => Wanted(s, i)
  BY DEF Follows, Advances, Fits, Wanted, Claimed, With
<1>11. Coming(s, i, {"REQUEST_BID"})' => Coming(s, i, {"REQUEST_BID"})
  <2>1. ~Fits(s, i, "REQUEST_BID")
    BY DEF Fits
  <2> QED
    BY <2>1 DEF Follows
<1>5. Wanted(s, i)' => ~Coming(s, i, {"COMPLETE_ACK"})'
  BY <1>4 DEF Follows, Advances, Fits, Lawful
<1>6. Wanted(s, i)' /\ ~Releasing(s)' => ~Coming(s, i, {"CANCEL"})' /\ ~Said(s, i, {"CANCEL_ACK"})'
  BY <1>2, <1>4 DEF Follows, Advances, Fits, Lawful
<1>7. Asked(s, i)' => ~Coming(s, i, {"REQUEST_BID"})' /\ ~Said(s, i, {"BID"})' /\ ~Reserves(s, i)'
  BY <1>1, <1>2 DEF Follows, Advances, Fits, Lawful
<1>8. Bidding(s, i)' =>
          /\ ~Coming(s, i, {"REQUEST"})' /\ ~Coming(s, i, {"AWARD"})'
          /\ ~Said(s, i, {"REVOKE"})' /\ ~Said(s, i, {"ACK"})' /\ ~Holds(s, i)'
          /\ CalledOnce(s, i)'
          /\ Coming(s, i, {"REQUEST_BID"})' => ~Offered(s, i)' /\ ~Said(s, i, {"BID"})'
  BY <1>1, <1>2, <1>3 DEF Follows, Advances, Fits, Lawful
<1>9. With(s, i, {"AWARDED"})' =>
          /\ ~Coming(s, i, {"REQUEST_BID"})'
          /\ Holds(s, i)' => Said(s, i, {"ACK"})'
          /\ \A k \in DOMAIN uplink'[i] : Says(s, i, k, {"REVOKE"})' =>
                \E j \in DOMAIN uplink'[i] : j < k /\ Says(s, i, j, {"ACK"})'
          /\ Said(s, i, {"ACK"})' => ~Reserves(s, i)'
  <2> SUFFICES ASSUME With(s, i, {"AWARDED"})'
               PROVE  /\ ~Coming(s, i, {"REQUEST_BID"})'
                      /\ Holds(s, i)' => Said(s, i, {"ACK"})'
                      /\ \A k \in DOMAIN uplink'[i] : Says(s, i, k, {"REVOKE"})' =>
                            \E j \in DOMAIN uplink'[i] : j < k /\ Says(s, i, j, {"ACK"})'
                      /\ Said(s, i, {"ACK"})' => ~Reserves(s, i)'
    OBVIOUS
  <2>1. CASE Bidding(s, i) /\ (Offered(s, i) \/ Heard(s, i, {"BID"}))
    <3>1. /\ ~Coming(s, i, {"REQUEST_BID"}) /\ ~Said(s, i, {"REVOKE"}) /\ ~Said(s, i, {"ACK"})
          /\ ~Holds(s, i)
      BY <1>3, <2>1 DEF Lawful
    <3>2. ~Coming(s, i, {"REQUEST_BID"})'
      BY <1>11, <3>1
    <3>3. ~Said(s, i, {"REVOKE"})' /\ ~Said(s, i, {"ACK"})'
      BY <1>2, <3>1
    <3> QED
      BY <1>1, <3>1, <3>2, <3>3 DEF Said
  <2>2. CASE With(s, i, {"AWARDED"}) /\ ~Heard(s, i, {"ACK"})
    <3>1. /\ ~Coming(s, i, {"REQUEST_BID"}) /\ (Holds(s, i) => Said(s, i, {"ACK"}))
          /\ \A k \in DOMAIN uplink[i] : Says(s, i, k, {"REVOKE"}) =>
                \E j \in DOMAIN uplink[i] : j < k /\ Says(s, i, j, {"ACK"})
          /\ Said(s, i, {"ACK"}) => ~Reserves(s, i)
      BY <2>2 DEF Lawful
    <3>2. ~Coming(s, i, {"REQUEST_BID"})'
      BY <1>11, <3>1
    <3>3. CASE uplink'[i] = uplink[i]
      <4>1. \A k, statuses : Says(s, i, k, statuses)' <=> Says(s, i, k, statuses)
        BY <1>1, <3>3 DEF Says, About
      <4> QED
        BY <1>1, <3>1, <3>2, <3>3, <4>1 DEF Said
    <3>4. CASE Take(i)
      <4>1. /\ \A statuses : \A k \in Nat :
                  Says(s, i, k, statuses)' <=> k >= 1 /\ Says(s, i, k + 1, statuses)
            /\ Len(uplink[i]) \in Nat /\ Len(uplink[i]) >= 1
        BY <1>1, <3>4, TakeSays
      <4>2. DOMAIN uplink[i] = 1 .. Len(uplink[i]) /\ DOMAIN uplink'[i] = 1 .. Len(uplink[i]) - 1
        <5>1. uplink[i] \in Seq(Envelope) /\ uplink[i] # <<>> /\ uplink'[i] = Tail(uplink[i])
          BY <3>4 DEF Take, RespondersTypeOK
        <5> QED
          BY <5>1, TailPositions
      <4>3. ASSUME NEW j \in DOMAIN uplink[i], Says(s, i, j, {"ACK"})
            PROVE  j - 1 \in DOMAIN uplink'[i] /\ Says(s, i, j - 1, {"ACK"})' /\ j \in Nat
        <5>1. j # 1
          BY <2>2, <3>4, <4>3 DEF Heard
        <5>2. j \in Nat /\ j - 1 \in Nat /\ j - 1 >= 1 /\ (j - 1) + 1 = j /\ j - 1 \in DOMAIN uplink'[i]
          BY <4>1, <4>2, <5>1
        <5> QED
          BY <4>1, <4>3, <5>2
      <4>4. Said(s, i, {"ACK"}) => Said(s, i, {"ACK"})'
        BY <4>3 DEF Said
      <4>5. ASSUME NEW k \in DOMAIN uplink'[i], Says(s, i, k, {"REVOKE"})'
            PROVE  \E j \in DOMAIN uplink'[i] : j < k /\ Says(s, i, j, {"ACK"})'
        <5>1. k \in Nat /\ k + 1 \in DOMAIN uplink[i] /\ Says(s, i, k + 1, {"REVOKE"})
          BY <4>1, <4>2, <4>5
        <5>2. PICK j \in DOMAIN uplink[i] : j < k + 1 /\ Says(s, i, j, {"ACK"})
          BY <3>1, <5>1
        <5>3. j - 1 \in DOMAIN uplink'[i] /\ Says(s, i, j - 1, {"ACK"})' /\ j - 1 < k
          BY <4>3, <5>1, <5>2
        <5> QED
          BY <5>3
      <4> QED
        BY <1>1, <1>2, <3>1, <3>2, <4>4, <4>5
    <3> QED
      BY <3>3, <3>4
  <2> QED
    BY <2>1, <2>2 DEF Follows, Advances, Fits
<1>10. With(s, i, {"CONFIRMED"})' => ~Coming(s, i, {"REQUEST_BID"})' /\ ~Reserves(s, i)'
  BY <1>1, <1>3 DEF Follows, Advances, Fits, Lawful
<1> QED
  BY <1>5, <1>6, <1>7, <1>8, <1>9, <1>10 DEF Lawful

\* Steps of the aggregate that open nothing.
LEMMA FollowsGood ==
    ASSUME PledgeInv, UNCHANGED <<epochs, inst>>,
           uplink' = uplink \/ \E o \in Instance : Take(o),
           \A s \in Subject : Conversation(s)' /\ \A i \in Instance : Follows(s, i)
    PROVE  Good'
<1> USE DEF PledgeInv, Inv, TypeOK
<1>1. \A i \in Instance : uplink'[i] = uplink[i] \/ Take(i)
  BY DEF Take, RespondersTypeOK
<1>2. ASSUME NEW s \in Subject, NEW i \in Instance PROVE Ordered(s, i)' /\ Lawful(s, i)'
  BY <1>1, FollowsLawful DEF Follows, Advances, Fits
<1>3. ASSUME NEW i \in Instance PROVE OnePledge(i)'
  BY DEF OnePledge
<1>4. ASSUME NEW s \in Subject, NEW i \in Instance
      PROVE  /\ Wanted(s, i)' => Wanted(s, i)
             /\ Claimed(s, i)' =>
                   \/ Claimed(s, i) /\ ~Heard(s, i, LetGoWords)
                   \/ Wanted(s, i) /\ Heard(s, i, {"ACK", "BID"})
  <2>1. Follows(s, i) /\ Lawful(s, i)
    OBVIOUS
  <2>2. Wanted(s, i)' => Wanted(s, i)
    BY <2>1 DEF Follows, Advances, Fits, Wanted, Claimed, With
  <2>3. Heard(s, i, {"ACK"}) \/ Heard(s, i, {"BID"}) => Heard(s, i, {"ACK", "BID"})
    BY DEF Heard, Says, About
  <2>4. Heard(s, i, LetGoWords) => Heard(s, i, {"REVOKE"}) \/ Heard(s, i, {"CANCEL_ACK"})
    BY DEF Heard, Says, About, LetGoWords
  <2>5. Claimed(s, i)' => Claimed(s, i) \/ (Wanted(s, i) /\ Heard(s, i, {"ACK", "BID"}))
    BY <2>1, <2>3 DEF Follows, Advances, Fits, Wanted, Claimed, With
  <2>6. ASSUME Claimed(s, i), Heard(s, i, LetGoWords) PROVE ~Claimed(s, i)'
    <3>1. Said(s, i, {"REVOKE"}) \/ Said(s, i, {"CANCEL_ACK"})
      BY <2>4, <2>6 DEF Heard, Said, Says
    <3>2. CASE Heard(s, i, {"CANCEL_ACK"}) /\ ~Heard(s, i, {"REVOKE"})
      <4>1. Said(s, i, {"CANCEL_ACK"})
        BY <3>2 DEF Heard, Said, Says
      <4>2. Releasing(s)
        BY <2>1, <2>6, <4>1 DEF Lawful, Wanted
      <4>3. CASE With(s, i, {"CANCELLED"})
        BY <2>1, <3>2, <4>3 DEF Follows, Advances, Fits
      <4>4. CASE ~With(s, i, {"CANCELLED"})
        <5>1. Offered(s, i)
          BY <2>6, <4>2, <4>4 DEF Claimed, With, Releasing
        <5>2. HasElection(s) /\ HasHandshake(s)
          <6>1. elections[s].candidates # {}
            BY <5>1 DEF Conversation, Offered, NoElection
          <6> QED
            BY <4>2, <6>1 DEF HasElection, HasHandshake, Releasing
        <5> QED
          BY <5>2 DEF OneDict
      <4> QED
        BY <4>3, <4>4
    <3>3. CASE Heard(s, i, {"REVOKE"})
      <4>1. Says(s, i, 1, {"REVOKE"}) /\ Said(s, i, {"REVOKE"})
        BY <3>3 DEF Heard, Said, Says
      <4>2. ~Offered(s, i)
        BY <2>1, <4>1 DEF Lawful, Bidding, Offered, EngagedIn
      <4>3. ~With(s, i, {"AWARDED"})
        <5>1. ~\E j \in DOMAIN uplink[i] : j < 1
          <6>1. \A j \in DOMAIN uplink[i] : j \in Nat /\ j >= 1
            BY DEF RespondersTypeOK
          <6> QED
            BY <6>1
        <5> QED
          BY <2>1, <4>1, <5>1 DEF Lawful, Says
      <4>4. With(s, i, {"CONFIRMED", "CANCELLED"})
        BY <2>6, <4>2, <4>3 DEF Claimed, With
      <4> QED
        BY <2>1, <3>3, <4>4 DEF Follows, Advances, Fits
    <3> QED
      BY <2>4, <2>6, <3>2, <3>3
  <2> QED
    BY <2>2, <2>5, <2>6
<1>5. ASSUME NEW i \in Instance PROVE Chained(i)'
  <2>1. CASE uplink'[i] = uplink[i]
    <3>1. ~Take(i)
      BY <2>1, NothingHeard
    <3>2. \A s \in Subject : Wanted(s, i)' =>
               Wanted(s, i) /\ (Claimed(s, i)' => Claimed(s, i)) /\ epochs'[s] = epochs[s]
      BY <1>4, <3>1 DEF Heard
    <3> QED
      BY <2>1, <3>2, ChainKept
  <2>2. CASE Take(i)
    <3>1. \A s \in Subject : epochs'[s] = epochs[s] /\ (Wanted(s, i)' => Wanted(s, i))
      BY <1>4
    <3>2. \A s \in Subject : Claimed(s, i)' =>
               \/ Claimed(s, i) /\ ~Says(s, i, 1, LetGoWords)
               \/ Wanted(s, i) /\ Says(s, i, 1, {"ACK", "BID"})
      BY <1>4, <2>2 DEF Heard
    <3> QED
      BY <2>2, <3>1, <3>2, ChainRouted
  <2> QED
    BY <1>1, <2>1, <2>2
<1> QED
  BY <1>2, <1>3, <1>5 DEF Good

-----------------------------------------------------------------------------
(* What the aggregate says                                                 *)

\* A conversation gets at most one envelope of a handler.
LEMMA SendAppends ==
    ASSUME NEW out \in SUBSET Envelope, Send(out), NEW s \in Subject, NEW i \in Instance
    PROVE  \/ net'[<<s, i>>] = net[<<s, i>>]
           \/ \E e \in out : /\ e.id = s /\ e.inst = i
                             /\ net'[<<s, i>>] = Append(net[<<s, i>>], e)
<1> DEFINE p == <<s, i>>
           new == {m \in out : m.id = p[1] /\ m.inst = p[2]}
<1>1. net'[p] = Sent(out, p) /\ p[1] = s /\ p[2] = i
  BY DEF Send
<1>2. CASE new = {}
  BY <1>1, <1>2 DEF Sent
<1>3. CASE new # {}
  <2>1. (CHOOSE m \in new : TRUE) \in new
    BY <1>3
  <2> QED
    BY <1>1, <2>1 DEF Sent
<1> QED
  BY <1>2, <1>3

\* What is said about s once the conversation is open.
LEMMA SendComes ==
    ASSUME CoordTypeOK, NEW out \in SUBSET Envelope, Send(out), UNCHANGED <<epochs, inst>>,
           NEW s \in Subject, NEW i \in Instance,
           \A m \in out : m.id = s => m.status \notin Openings
    PROVE  /\ \A status : Coming(s, i, {status})' /\ ~Coming(s, i, {status}) =>
                 \E m \in out : m.id = s /\ m.inst = i /\ m.epoch = epochs[s] /\ m.status = status
           /\ CalledOnce(s, i) => CalledOnce(s, i)'
           /\ Ordered(s, i) => Ordered(s, i)'
<1> DEFINE q == net[<<s, i>>]
           r == net'[<<s, i>>]
<1>1. CASE r = q
  BY <1>1 DEF Coming, CalledOnce, Ordered, Reserves
<1>2. ASSUME NEW e \in out, e.id = s, e.inst = i, r = Append(q, e)
      PROVE  /\ \A status : Coming(s, i, {status})' /\ ~Coming(s, i, {status}) =>
                   \E m \in out : m.id = s /\ m.inst = i /\ m.epoch = epochs[s] /\ m.status = status
             /\ CalledOnce(s, i) => CalledOnce(s, i)'
             /\ Ordered(s, i) => Ordered(s, i)'
  <2>1. q \in Seq(Envelope) /\ e \in Envelope
    BY DEF CoordTypeOK
  <2>2. /\ DOMAIN q = 1 .. Len(q) /\ Len(q) \in Nat /\ DOMAIN r = 1 .. Len(q) + 1
        /\ \A k \in 1 .. Len(q) : r[k] = q[k]
        /\ r[Len(q) + 1] = e
    <3> HIDE DEF q
    <3> QED
      BY <1>2, <2>1, Positions
  <2> HIDE DEF q, r
  <2>3. \A k \in DOMAIN r : (k \in DOMAIN q /\ r[k] = q[k]) \/ r[k] = e
    BY <2>2
  <2>4. e.status \notin Openings
    BY <1>2
  <2>5. \A k \in DOMAIN r : r[k].status \in Openings => k \in DOMAIN q /\ r[k] = q[k]
    BY <2>3, <2>4
  <2>6. ASSUME NEW status, Coming(s, i, {status})', ~Coming(s, i, {status})
        PROVE  e.epoch = epochs[s] /\ e.status = status
    BY <2>3, <2>6 DEF Coming, q, r
  <2>7. CalledOnce(s, i) => CalledOnce(s, i)'
    BY <2>5 DEF CalledOnce, Openings, q, r
  <2>8. ASSUME Ordered(s, i) PROVE Ordered(s, i)'
    <3>1. Reserves(s, i)' <=> Reserves(s, i)
      BY DEF Reserves
    <3>2. ASSUME NEW j \in DOMAIN r, NEW k \in DOMAIN r, j < k, r[k].status \in Openings
          PROVE  r[j].epoch <= r[k].epoch
      <4>1. k \in DOMAIN q /\ r[k] = q[k]
        BY <2>5, <3>2
      <4>2. j \in DOMAIN q /\ r[j] = q[j]
        BY <2>2, <3>2, <4>1
      <4> QED
        BY <2>8, <3>2, <4>1, <4>2 DEF Ordered, q
    <3>3. ASSUME NEW k \in DOMAIN r, r[k].status \in Openings, Reserves(s, i)
          PROVE  r[k].epoch = epochs[s]
      BY <2>5, <2>8, <3>3 DEF Ordered, q
    <3> QED
      BY <3>1, <3>2, <3>3 DEF Ordered, r
  <2> QED
    BY <1>2, <2>6, <2>7, <2>8
<1>3. CASE r # q
  <2>1. PICK e \in out : e.id = s /\ e.inst = i /\ r = Append(q, e)
    BY <1>3, SendAppends
  <2> QED
    BY <1>2, <2>1
<1> QED
  BY <1>1, <1>3

\* A step about one subject, spelled out.
Becomes(s, h, el, out) ==
    /\ handshakes'[s] = h /\ elections'[s] = el
    /\ \A t \in Subject \ {s} : handshakes'[t] = handshakes[t] /\ elections'[t] = elections[t]
    /\ UNCHANGED <<epochs, inst>>
    /\ out \in SUBSET Envelope /\ Send(out)
    /\ \A m \in out : m.id = s /\ m.status \notin Openings

\* The conversation about s stays in order, its view advances, and what is said fits.
GoesOn(s, out) ==
    /\ Conversation(s)'
    /\ \A i \in Instance : Advances(s, i)
    /\ \A m \in out : m.epoch = epochs[s] => Fits(s, m.inst, m.status)

\* If the view of s advances and what is said fits, all is good: nothing is heard or
\* said about any other subject.
LEMMA BecomesGood ==
    ASSUME PledgeInv, NEW s \in Subject, NEW h, NEW el, NEW out, Becomes(s, h, el, out),
           uplink' = uplink \/ \E o \in Instance : Take(o),
           \A t \in Subject \ {s}, i \in Instance : \A statuses : ~Heard(t, i, statuses),
           GoesOn(s, out)
    PROVE  Good'
<1>1. /\ \A t \in Subject \ {s} : handshakes'[t] = handshakes[t] /\ elections'[t] = elections[t]
      /\ UNCHANGED <<epochs, inst>>
      /\ out \in SUBSET Envelope /\ Send(out)
      /\ \A m \in out : m.id = s /\ m.status \notin Openings
  BY DEF Becomes
<1>6. /\ Conversation(s)'
      /\ \A i \in Instance : Advances(s, i)
      /\ \A m \in out : m.epoch = epochs[s] => Fits(s, m.inst, m.status)
  BY DEF GoesOn
<1>2. ASSUME NEW t \in Subject, NEW i \in Instance
      PROVE  /\ \A status : Coming(t, i, {status})' /\ ~Coming(t, i, {status}) =>
                   \E m \in out : m.id = t /\ m.inst = i /\ m.epoch = epochs[t] /\ m.status = status
             /\ CalledOnce(t, i) => CalledOnce(t, i)'
             /\ Ordered(t, i) => Ordered(t, i)'
  BY <1>1, SendComes DEF PledgeInv, Inv, TypeOK
<1>3. ASSUME NEW i \in Instance PROVE Follows(s, i)
  <2>1. ASSUME NEW status, Coming(s, i, {status})', ~Coming(s, i, {status}) PROVE Fits(s, i, status)
    <3>1. \A st : Coming(s, i, {st})' /\ ~Coming(s, i, {st}) =>
             \E m \in out : m.id = s /\ m.inst = i /\ m.epoch = epochs[s] /\ m.status = st
      BY <1>1, SendComes DEF PledgeInv, Inv, TypeOK
    <3>2. PICK m \in out : m.id = s /\ m.inst = i /\ m.epoch = epochs[s] /\ m.status = status
      BY <2>1, <3>1
    <3> QED
      BY <1>6, <3>2
  <2>2. (CalledOnce(s, i) => CalledOnce(s, i)') /\ (Ordered(s, i) => Ordered(s, i)')
    BY <1>2
  <2> QED
    BY <1>1, <1>6, <2>1, <2>2 DEF Follows
<1>4. ASSUME NEW t \in Subject \ {s}, NEW i \in Instance PROVE Follows(t, i)
  <2>1. /\ Asked(t, i)' <=> Asked(t, i)
        /\ Bidding(t, i)' <=> Bidding(t, i)
        /\ Offered(t, i)' <=> Offered(t, i)
        /\ Releasing(t)' <=> Releasing(t)
        /\ \A states : With(t, i, states)' <=> With(t, i, states)
    BY <1>1 DEF Asked, Bidding, EngagedIn, Offered, Releasing, With
  <2>2. \A statuses : ~Heard(t, i, statuses)
    OBVIOUS
  <2>3. With(t, i, {"CANCELLED"}) => With(t, i, {"AWARDED", "CONFIRMED", "CANCELLED"})
    BY DEF With
  <2>4. Advances(t, i)
    BY <2>1, <2>2, <2>3 DEF Advances
  <2>5. ASSUME NEW status, Coming(t, i, {status})', ~Coming(t, i, {status}) PROVE FALSE
    <3>1. t \in Subject
      OBVIOUS
    <3>2. PICK m \in out : m.id = t
      BY <1>2, <2>5, <3>1
    <3> QED
      BY <1>1, <3>2
  <2> QED
    BY <1>1, <1>2, <2>4, <2>5 DEF Follows
<1>5. ASSUME NEW t \in Subject PROVE Conversation(t)'
  BY <1>1, <1>6 DEF Conversation, PledgeInv
<1> QED
  BY <1>1, <1>3, <1>4, <1>5, FollowsGood

-----------------------------------------------------------------------------
(* One conversation moves on                                               *)

\* What has just been heard is the word that was routed.
LEMMA HeardHead ==
    ASSUME RespondersTypeOK, NEW o \in Instance, Take(o), NEW m, m = Head(uplink[o]),
           NEW t \in Subject, NEW i \in Instance, NEW statuses
    PROVE  Heard(t, i, statuses) <=> i = o /\ About(t, m, statuses)
<1>1. uplink[o] \in Seq(Envelope) /\ uplink[o] # <<>>
  BY DEF Take, RespondersTypeOK
<1>2. 1 \in DOMAIN uplink[o] /\ m = uplink[o][1]
  BY <1>1, TailPositions
<1>3. CASE i = o
  BY <1>2, <1>3 DEF Heard, Says
<1>4. CASE i # o
  <2>1. uplink'[i] = uplink[i]
    BY <1>4 DEF Take, RespondersTypeOK
  <2> QED
    BY <1>4, <2>1, NothingHeard DEF Heard
<1> QED
  BY <1>3, <1>4

\* The conversation is over.
LEMMA Leaves ==
    ASSUME NEW s \in Subject, NEW out, Becomes(s, NoInitiator, NoElection, out),
           \A m \in out : m.status \in {"CANCEL", "COMPLETE_ACK"}
    PROVE  GoesOn(s, out)
<1>1. handshakes'[s] = NoInitiator /\ elections'[s] = NoElection
  BY DEF Becomes
<1>2. Conversation(s)'
  BY <1>1 DEF Conversation, NoInitiator, NoElection
<1>3. ASSUME NEW i \in Instance PROVE ~Wanted(s, i)'
  BY <1>1 DEF Wanted, Claimed, With, Offered, Asked, Bidding, EngagedIn, NoInitiator, NoElection
<1>4. ASSUME NEW i PROVE ~Wanted(s, i)'
  BY <1>1 DEF Wanted, Claimed, With, Offered, Asked, Bidding, EngagedIn, NoInitiator, NoElection
<1>5. ASSUME NEW i \in Instance PROVE Advances(s, i)
  <2>1. /\ ~Asked(s, i)' /\ ~Bidding(s, i)' /\ ~Offered(s, i)' /\ ~Claimed(s, i)'
        /\ ~With(s, i, {"AWARDED"})' /\ ~With(s, i, {"CONFIRMED"})' /\ ~With(s, i, {"CANCELLED"})'
    BY <1>3 DEF Wanted, Claimed, With
  <2> QED
    BY <1>3, <2>1 DEF Advances
<1>6. \A m \in out : Fits(s, m.inst, m.status)
  BY <1>4 DEF Fits
<1> QED
  BY <1>2, <1>5, <1>6 DEF GoesOn

\* Nothing changes and nothing is said, or only about another attempt.
LEMMA Stays ==
    ASSUME NEW s \in Subject, NEW out, Conversation(s), Becomes(s, handshakes[s], elections[s], out),
           \A i \in Instance : \A statuses : ~Heard(s, i, statuses),
           \A m \in out : m.epoch # epochs[s]
    PROVE  GoesOn(s, out)
<1>1. handshakes'[s] = handshakes[s] /\ elections'[s] = elections[s] /\ epochs' = epochs
  BY DEF Becomes
<1>2. Conversation(s)'
  BY <1>1 DEF Conversation
<1>3. ASSUME NEW i \in Instance PROVE Advances(s, i)
  <2>1. /\ Asked(s, i)' <=> Asked(s, i)
        /\ Bidding(s, i)' <=> Bidding(s, i)
        /\ Offered(s, i)' <=> Offered(s, i)
        /\ Releasing(s)' <=> Releasing(s)
        /\ \A states : With(s, i, states)' <=> With(s, i, states)
    BY <1>1 DEF Asked, Bidding, EngagedIn, Offered, Releasing, With
  <2>2. With(s, i, {"CANCELLED"}) => With(s, i, {"AWARDED", "CONFIRMED", "CANCELLED"})
    BY DEF With
  <2> QED
    BY <2>1, <2>2 DEF Advances
<1> QED
  BY <1>2, <1>3 DEF GoesOn

\* Whoever was awarded, holds or is giving back the subject is told to let go.
LEMMA Releases ==
    ASSUME NEW s \in Subject, NEW h, NEW out, Conversation(s), Becomes(s, h, NoElection, out),
           ~HasElection(s), handshakes[s].state \in {"AWARDED", "CONFIRMED", "CANCELLED"},
           h.state = "CANCELLED", h.receiver = handshakes[s].receiver, h.epoch = handshakes[s].epoch,
           \A i \in Instance : \A statuses : ~Heard(s, i, statuses),
           \A m \in out : m.status = "CANCEL"
    PROVE  GoesOn(s, out)
<1>1. handshakes'[s] = h /\ elections'[s] = NoElection /\ epochs' = epochs
  BY DEF Becomes
<1>2. Conversation(s)'
  BY <1>1 DEF Conversation, NoElection
<1>3. Releasing(s)'
  BY <1>1 DEF Releasing
<1>4. ASSUME NEW i \in Instance PROVE Advances(s, i)
  <2>1. /\ ~Asked(s, i)' /\ ~Bidding(s, i)' /\ ~Offered(s, i)'
        /\ ~With(s, i, {"AWARDED"})' /\ ~With(s, i, {"CONFIRMED"})'
        /\ With(s, i, {"CANCELLED"})' => With(s, i, {"AWARDED", "CONFIRMED", "CANCELLED"})
    BY <1>1 DEF Asked, Bidding, EngagedIn, Offered, With, NoElection
  <2> QED
    BY <1>3, <2>1 DEF Advances
<1>5. \A m \in out : Fits(s, m.inst, m.status)
  BY <1>3 DEF Fits
<1> QED
  BY <1>2, <1>4, <1>5 DEF GoesOn

\* A round is settled among those that offered.
LEMMA RoundSettles ==
    ASSUME NEW s \in Subject, Conversation(s), HasElection(s), ~HasHandshake(s),
           NEW el \in Election, el.epoch = epochs[s],
           \A i \in el.offers : Offered(s, i) \/ (Bidding(s, i) /\ Heard(s, i, {"BID"})),
           NEW x \in Settled(s, el), Becomes(s, Retire(x.hs), x.el, x.out)
    PROVE  GoesOn(s, x.out)
<1>1. PICK w \in Winners(el) :
         x = Effect(Settle(s, el, w), NoElection, AwardOut(s, el, w), "NOTHING", None)
  BY DEF Settled
<1>2. /\ handshakes'[s] = Settle(s, el, w) /\ elections'[s] = NoElection /\ epochs' = epochs
      /\ x.out = AwardOut(s, el, w)
  BY <1>1 DEF Becomes, Effect, Retire, Settle, NoInitiator, Awarded
<1>3. Conversation(s)'
  BY <1>2 DEF Conversation, Settle, NoInitiator, Awarded, NoElection
<1>4. ASSUME NEW i \in Instance
      PROVE  /\ ~Asked(s, i)' /\ ~Bidding(s, i)' /\ ~Offered(s, i)' /\ ~Releasing(s)
             /\ ~With(s, i, {"CONFIRMED"})' /\ ~With(s, i, {"CANCELLED"})'
             /\ ~With(s, i, {"CONFIRMED", "CANCELLED"}) /\ ~With(s, i, {"CANCELLED"})
             /\ With(s, i, {"AWARDED"})' => i = w /\ w # None
             /\ Claimed(s, i)' => i = w /\ w # None
             /\ Wanted(s, i)' => i = w /\ w # None
  BY <1>2 DEF Asked, Bidding, EngagedIn, Offered, With, NoElection, Settle, NoInitiator, Awarded,
              Releasing, HasHandshake, Claimed, Wanted
<1>5. w # None => w \in el.offers
  BY DEF Winners
<1>6. ASSUME NEW i \in Instance PROVE Advances(s, i)
  <2>1. With(s, i, {"AWARDED"})' => Bidding(s, i) /\ (Offered(s, i) \/ Heard(s, i, {"BID"}))
    BY <1>4, <1>5 DEF Bidding, Offered, EngagedIn
  <2> QED
    BY <1>4, <2>1 DEF Advances
<1>7. ASSUME NEW m \in x.out PROVE Fits(s, m.inst, m.status)
  <2>1. el.offers \subseteq Instance /\ (w # None => w \in Instance)
    BY <1>5 DEF Election
  <2>2. CASE m.status = "CANCEL" /\ m.inst \in el.offers \ {w}
    BY <1>4, <2>1, <2>2 DEF Fits
  <2>3. CASE m.status = "AWARD" /\ m.inst = w /\ w # None
    BY <1>4, <2>1, <2>3 DEF Fits
  <2> QED
    BY <1>2, <2>2, <2>3 DEF AwardOut, ToEach, Env
<1> QED
  BY <1>3, <1>6, <1>7 DEF GoesOn

\* A bid or a refusal is counted, and the round stays open.
LEMMA RoundContinues ==
    ASSUME RespondersTypeOK, NEW s \in Subject, Conversation(s), HasElection(s), ~HasHandshake(s),
           elections[s] \in Election,
           NEW o \in Instance, Take(o), NEW m \in Envelope, m = Head(uplink[o]),
           m.id = s, m.inst = o,
           Becomes(s, handshakes[s], Tally(elections[s], m), TallyOut(elections[s], m))
    PROVE  GoesOn(s, TallyOut(elections[s], m))
<1> DEFINE el == elections[s]
           out == TallyOut(el, m)
<1>1. handshakes'[s] = handshakes[s] /\ elections'[s] = Tally(el, m) /\ epochs' = epochs
  BY DEF Becomes
<1>2. handshakes[s].state = "NONE" /\ el.epoch = epochs[s] /\ el.candidates # {}
  BY DEF HasHandshake, HasElection, Conversation
<1>3. \A i \in Instance : \A statuses : Heard(s, i, statuses) <=> i = o /\ About(s, m, statuses)
  BY HeardHead
<1>4. /\ Tally(el, m).candidates = el.candidates /\ Tally(el, m).epoch = el.epoch
      /\ Tally(el, m).offers \cup Tally(el, m).silent \subseteq EngagedIn(el)
      /\ \A i \in Tally(el, m).offers : i \in el.offers
            \/ (i = m.inst /\ m.epoch = el.epoch /\ m.inst \in EngagedIn(el) /\ m.status = "BID")
  <2>1. CASE m.epoch # el.epoch \/ m.inst \notin EngagedIn(el)
    BY <2>1 DEF Tally, EngagedIn
  <2>2. CASE m.epoch = el.epoch /\ m.inst \in EngagedIn(el)
    BY <2>2 DEF Tally, EngagedIn, Election
  <2> QED
    BY <2>1, <2>2
<1>5. Conversation(s)'
  BY <1>1, <1>2, <1>4 DEF Conversation
<1>6. ASSUME NEW i \in Instance
      PROVE  /\ ~Asked(s, i)' /\ (Bidding(s, i)' => Bidding(s, i)) /\ ~Releasing(s)
             /\ ~With(s, i, {"AWARDED"})' /\ ~With(s, i, {"CONFIRMED"})' /\ ~With(s, i, {"CANCELLED"})'
             /\ ~With(s, i, {"CONFIRMED", "CANCELLED"}) /\ ~With(s, i, {"CANCELLED"})
             /\ Wanted(s, i)' => Bidding(s, i)
  BY <1>1, <1>2, <1>4 DEF Asked, Bidding, EngagedIn, With, Releasing, Wanted, Claimed, Offered
<1>7. ASSUME NEW i \in Instance PROVE Advances(s, i)
  <2>1. Offered(s, i)' => Offered(s, i) \/ (Bidding(s, i) /\ Heard(s, i, {"BID"}))
    <3>1. ASSUME i = m.inst, m.epoch = el.epoch, m.inst \in EngagedIn(el), m.status = "BID"
          PROVE  Bidding(s, i) /\ Heard(s, i, {"BID"})
      BY <1>2, <1>3, <3>1 DEF Bidding, About
    <3> QED
      BY <1>1, <1>4, <3>1 DEF Offered
  <2> QED
    BY <1>6, <2>1 DEF Advances
<1>8. ASSUME NEW n \in out, n.epoch = epochs[s] PROVE Fits(s, n.inst, n.status)
  <2>1. n = Env("CANCEL", m.id, m.inst, m.epoch)
        /\ ~(m.epoch = el.epoch /\ m.inst \in EngagedIn(el))
    BY <1>8 DEF TallyOut, LetGo
  <2>2. n.status = "CANCEL" /\ n.inst = o /\ n.epoch = m.epoch
    BY <2>1 DEF Env
  <2>3. ~Bidding(s, o)
    BY <1>2, <1>8, <2>1, <2>2 DEF Bidding
  <2> QED
    BY <1>6, <2>2, <2>3 DEF Fits
<1> QED
  BY <1>5, <1>7, <1>8 DEF GoesOn

\* A conversation handles a word of instance o.
LEMMA WordHandled ==
    ASSUME RespondersTypeOK, NEW s \in Subject, Conversation(s), ~HasElection(s), HasHandshake(s),
           handshakes[s] \in Initiator, \A i \in Instance : Lawful(s, i),
           NEW o \in Instance, Take(o), NEW m \in Envelope, m = Head(uplink[o]),
           m.id = s, m.inst = o,
           Becomes(s, Retire(Handle(handshakes[s], m).next), NoElection, Handle(handshakes[s], m).out)
    PROVE  GoesOn(s, Handle(handshakes[s], m).out)
<1> DEFINE h == handshakes[s]
           out == Handle(h, m).out
           linked == [h EXCEPT !.state = "CONFIRMED", !.receiver = m.inst, !.asked = {}]
<1>0. /\ h.epoch = epochs[s] /\ h.state \in {"REQUESTED", "AWARDED", "CONFIRMED", "CANCELLED"}
      /\ elections[s] = NoElection /\ Retire(h) = h /\ Retire(Finished(h)) = NoInitiator
      /\ m.inst \in Instance /\ None \notin Instance
  BY HandshakeAssumption
     DEF HasElection, HasHandshake, Conversation, Retire, Finished, Initiator, InitiatorRecord, Envelope
<1>1. \A i \in Instance : \A statuses : Heard(s, i, statuses) <=> i = o /\ About(s, m, statuses)
  BY HeardHead
<1>2. CASE m.epoch # h.epoch
  <2>1. Handle(h, m).next = h /\ out = LetGo(m)
    BY <1>2 DEF Handle, Quietly, Outcome
  <2>2. \A n \in out : n.epoch # epochs[s]
    BY <1>0, <1>2, <2>1 DEF LetGo, Env
  <2>3. \A i \in Instance : \A statuses : ~Heard(s, i, statuses)
    BY <1>0, <1>1, <1>2 DEF About
  <2>4. Becomes(s, handshakes[s], elections[s], out)
    BY <1>0, <2>1
  <2> HIDE DEF out
  <2> QED
    BY <2>2, <2>3, <2>4, Stays DEF out
<1>3. CASE m.epoch = h.epoch /\ m.status = "ACK" /\ Answers(h, m.inst)
  <2>1. Handle(h, m).next = linked /\ out = {}
    BY <1>3 DEF Handle, Outcome
  <2>2. /\ linked.state = "CONFIRMED" /\ linked.receiver = o /\ linked.epoch = h.epoch
        /\ Retire(linked) = linked
    BY DEF Retire, Initiator, InitiatorRecord
  <2>3. /\ handshakes'[s].state = "CONFIRMED" /\ handshakes'[s].receiver = o
        /\ handshakes'[s].epoch = h.epoch /\ elections'[s] = NoElection /\ epochs' = epochs
    <3>1. handshakes'[s] = linked /\ elections'[s] = NoElection /\ epochs' = epochs
      <4> HIDE DEF linked
      <4> QED
        BY <2>1, <2>2 DEF Becomes
    <3> QED
      BY <2>2, <3>1
  <2>4. Conversation(s)'
    BY <1>0, <2>3 DEF Conversation, NoElection
  <2>5. h.state \in {"REQUESTED", "AWARDED"}
        /\ (h.state = "AWARDED" => o = h.receiver)
        /\ (h.state = "REQUESTED" => h.asked = {} \/ o \in h.asked)
    BY <1>0, <1>3 DEF Answers
  <2>6. ASSUME NEW i \in Instance PROVE Advances(s, i)
    <3>1. /\ ~Asked(s, i)' /\ ~Bidding(s, i)' /\ ~Offered(s, i)' /\ ~Releasing(s)
          /\ ~With(s, i, {"AWARDED"})' /\ ~With(s, i, {"CANCELLED"})'
          /\ ~With(s, i, {"CONFIRMED", "CANCELLED"}) /\ ~With(s, i, {"CANCELLED"})
          /\ With(s, i, {"CONFIRMED"})' => i = o
      BY <2>3, <2>5 DEF Asked, Bidding, EngagedIn, Offered, Releasing, With, NoElection
    <3>2. Asked(s, o) \/ With(s, o, {"AWARDED"})
      BY <2>5 DEF Asked, With
    <3>3. Heard(s, o, {"ACK"})
      BY <1>0, <1>1, <1>3 DEF About
    <3> QED
      BY <3>1, <3>2, <3>3 DEF Advances
  <2> QED
    BY <2>1, <2>4, <2>6 DEF GoesOn
<1>4. ASSUME Handle(h, m).next = Finished(h), out \subseteq {Env("COMPLETE_ACK", m.id, m.inst, m.epoch)}
      PROVE  GoesOn(s, out)
  <2>1. Becomes(s, NoInitiator, NoElection, out)
    BY <1>0, <1>4
  <2>2. \A n \in out : n.status \in {"CANCEL", "COMPLETE_ACK"}
    BY <1>4 DEF Env
  <2> HIDE DEF out
  <2> QED
    BY <2>1, <2>2, Leaves
<1> DEFINE holder == m.inst = h.receiver
<1>5. CASE \/ m.epoch = h.epoch /\ m.status = "NACK" /\ Answers(h, m.inst) /\ (h.asked # {} \/ holder)
           \/ m.epoch = h.epoch /\ m.status = "REVOKE" /\ holder /\ h.state \in {"CONFIRMED", "CANCELLED"}
           \/ m.epoch = h.epoch /\ m.status = "CANCEL_ACK" /\ holder /\ h.state = "CANCELLED"
           \/ m.epoch = h.epoch /\ m.status = "COMPLETE" /\ holder /\ h.state = "CONFIRMED" /\ CompletionLeg
  <2>1. Handle(h, m).next = Finished(h) /\ out \subseteq {Env("COMPLETE_ACK", m.id, m.inst, m.epoch)}
    BY <1>5 DEF Handle, Quietly, Outcome
  <2> QED
    BY <1>4, <2>1
<1>6. CASE /\ m.epoch = h.epoch
           /\ ~(m.status = "ACK" /\ Answers(h, m.inst))
           /\ ~(m.status = "NACK" /\ Answers(h, m.inst) /\ (h.asked # {} \/ holder))
           /\ ~(m.status = "REVOKE" /\ holder /\ h.state \in {"CONFIRMED", "CANCELLED"})
           /\ ~(m.status = "CANCEL_ACK" /\ holder /\ h.state = "CANCELLED")
           /\ ~(m.status = "COMPLETE" /\ holder /\ h.state = "CONFIRMED" /\ CompletionLeg)
  <2>1. Handle(h, m).next = h /\ out = IF holder THEN {} ELSE LetGo(m)
    BY <1>6 DEF Handle, Quietly, Outcome
  <2>2. handshakes'[s] = h /\ elections'[s] = elections[s] /\ epochs' = epochs
    BY <1>0, <2>1 DEF Becomes
  <2>3. Conversation(s)'
    BY <2>2 DEF Conversation
  <2>4. ASSUME NEW i \in Instance
        PROVE  /\ Asked(s, i)' <=> Asked(s, i)
               /\ Bidding(s, i)' <=> Bidding(s, i)
               /\ Offered(s, i)' <=> Offered(s, i)
               /\ Releasing(s)' <=> Releasing(s)
               /\ \A states : With(s, i, states)' <=> With(s, i, states)
    BY <2>2 DEF Asked, Bidding, EngagedIn, Offered, Releasing, With
  <2>5. ASSUME NEW i \in Instance PROVE Advances(s, i)
    <3>1. With(s, i, {"CANCELLED"}) => With(s, i, {"AWARDED", "CONFIRMED", "CANCELLED"})
      BY DEF With
    <3>2. With(s, i, {"AWARDED"}) => ~Heard(s, i, {"ACK"})
      BY <1>1, <1>6 DEF With, About, Answers
    <3>3. With(s, i, {"CONFIRMED", "CANCELLED"}) => ~Heard(s, i, {"REVOKE"})
      BY <1>1, <1>6 DEF With, About
    <3>4. With(s, i, {"CANCELLED"}) => ~Heard(s, i, {"CANCEL_ACK"})
      BY <1>1, <1>6 DEF With, About
    <3> QED
      BY <2>4, <3>1, <3>2, <3>3, <3>4 DEF Advances
  <2>6. ASSUME NEW n \in out PROVE Fits(s, n.inst, n.status)
    <3>1. ~holder /\ m.status \in {"BID", "ACK"} /\ n = Env("CANCEL", m.id, m.inst, m.epoch)
      BY <2>1, <2>6 DEF LetGo
    <3>2. n.status = "CANCEL" /\ n.inst = o
      BY <3>1 DEF Env
    <3>3. ~Asked(s, o)
      <4>1. m.status = "ACK" => ~Asked(s, o)
        BY <1>6 DEF Asked, Answers
      <4>2. ASSUME m.status = "BID" PROVE ~Asked(s, o)
        <5>1. Heard(s, o, {"BID"})
          BY <1>0, <1>1, <1>6, <4>2 DEF About
        <5>2. Said(s, o, {"BID"}) /\ Lawful(s, o)
          BY <5>1 DEF Heard, Said, Says
        <5> QED
          BY <5>2 DEF Lawful
      <4> QED
        BY <3>1, <4>1, <4>2
    <3>4. ~Wanted(s, o)
      BY <1>0, <3>1, <3>3 DEF Wanted, Claimed, With, Offered, Bidding, EngagedIn, NoElection
    <3>5. ~Wanted(s, o)'
      BY <2>4, <3>4 DEF Wanted, Claimed
    <3> QED
      BY <3>2, <3>5 DEF Fits
  <2> QED
    BY <2>3, <2>5, <2>6 DEF GoesOn
<1> QED
  BY <1>2, <1>3, <1>5, <1>6

\* An open conversation sends no opening.
LEMMA NothingReopens ==
    ASSUME NEW s
    PROVE  /\ \A m : \A x \in RouteEffects(m) : \A n \in x.out : n.status \notin Openings
           /\ \A x \in TickEffects(s) : \A n \in x.out : n.status \notin Openings
           /\ \A n \in CancelEffect(s).out : n.status \notin Openings
<1>1. ASSUME NEW t, NEW el, NEW x \in Settled(t, el), NEW n \in x.out PROVE n.status \notin Openings
  BY <1>1 DEF Settled, Effect, AwardOut, ToEach, Env, Openings
<1>2. ASSUME NEW h, NEW m, NEW n \in Handle(h, m).out \cup OrphanReply(m) \cup LetGo(m)
      PROVE  n.status \notin Openings
  <2>1. n.status \in {"CANCEL", "COMPLETE_ACK"}
    <3>1. ASSUME NEW l \in LetGo(m) PROVE l.status = "CANCEL"
      BY <3>1 DEF LetGo, Env
    <3>2. n \in LetGo(m) \/ n = Env("COMPLETE_ACK", m.id, m.inst, m.epoch)
      BY DEF Handle, OrphanReply, Quietly, Outcome
    <3> QED
      BY <3>1, <3>2 DEF Env
  <2> QED
    BY <2>1 DEF Openings
<1>3. ASSUME NEW m, NEW x \in RouteEffects(m), NEW n \in x.out PROVE n.status \notin Openings
  <2> DEFINE el == elections[m.id]
  <2>1. \/ x \in Settled(m.id, Tally(el, m))
        \/ x = Effect(handshakes[m.id], Tally(el, m), TallyOut(el, m), "NOTHING", None)
        \/ x = FromInitiator(Handle(handshakes[m.id], m))
        \/ x = Effect(NoInitiator, NoElection, OrphanReply(m), "NOTHING", None)
    BY <1>3 DEF RouteEffects
  <2>2. CASE x \in Settled(m.id, Tally(el, m))
    BY <1>1, <2>2
  <2>3. CASE x = Effect(handshakes[m.id], Tally(el, m), TallyOut(el, m), "NOTHING", None)
    BY <1>2, <2>3 DEF Effect, TallyOut
  <2>4. CASE x = FromInitiator(Handle(handshakes[m.id], m))
    BY <1>2, <2>4 DEF Effect, FromInitiator
  <2>5. CASE x = Effect(NoInitiator, NoElection, OrphanReply(m), "NOTHING", None)
    BY <1>2, <2>5 DEF Effect
  <2> QED
    BY <2>1, <2>2, <2>3, <2>4, <2>5
<1>4. ASSUME NEW x \in TickEffects(s), NEW n \in x.out PROVE n.status \notin Openings
  <2>1. CASE x \in Settled(s, elections[s])
    BY <1>1, <2>1
  <2>2. CASE x = FromInitiator(Overdue(s, handshakes[s]))
    BY <2>2 DEF FromInitiator, Effect, Overdue, Quietly, Outcome, Env, Openings
  <2> QED
    BY <1>4, <2>1, <2>2 DEF TickEffects
<1>5. ASSUME NEW n \in CancelEffect(s).out PROVE n.status \notin Openings
  <2>1. n.status = "CANCEL"
    BY DEF CancelEffect, FromInitiator, Effect, Withdraw, Quietly, Outcome, ToEach, Env
  <2> QED
    BY <2>1 DEF Openings
<1> QED
  BY <1>3, <1>4, <1>5

\* route() and tick() change one subject.
LEMMA PerformBecomes ==
    ASSUME CoordTypeOK, UNCHANGED inst, NEW s \in Subject, NEW x \in Effects, Perform(s, x),
           EffectCovered(s, x), \A n \in x.out : n.status \notin Openings
    PROVE  Becomes(s, Retire(x.hs), x.el, x.out)
<1>1. /\ handshakes' = [handshakes EXCEPT ![s] = Retire(x.hs)]
      /\ elections' = [elections EXCEPT ![s] = x.el]
      /\ Send(x.out) /\ epochs' = epochs /\ x.out \in SUBSET Envelope
  BY DEF Perform, Interrupted, Effects
<1>2. handshakes \in [Subject -> Initiator] /\ elections \in [Subject -> Election]
  BY DEF CoordTypeOK
<1> QED
  BY <1>1, <1>2 DEF Becomes, EffectCovered

\* The aggregate routes a word.
LEMMA RouteGood ==
    ASSUME PledgeInv, NEW o \in Instance, Route(o)
    PROVE  Good'
<1>0. /\ CoordTypeOK /\ RespondersTypeOK /\ OneDict /\ Covered
      /\ \A s \in Subject : Conversation(s) /\ \A i \in Instance : Lawful(s, i)
  BY DEF PledgeInv, Inv, TypeOK
<1>1. Take(o) /\ \E x \in RouteEffects(Head(uplink[o])) : Perform(Head(uplink[o]).id, x)
  BY DEF Route
<1>2. /\ Head(uplink[o]) \in Envelope /\ Head(uplink[o]).inst = o
      /\ Head(uplink[o]).epoch <= epochs[Head(uplink[o]).id]
  <2>1. epochs' = epochs
    BY <1>1 DEF Perform, Interrupted
  <2> QED
    BY <1>0, <1>1, <2>1, TakeCovers DEF Covered
<1>3. PICK m \in Envelope : m = Head(uplink[o])
  BY <1>2
<1>4. PICK x \in RouteEffects(m) : Perform(m.id, x)
  BY <1>1, <1>3
<1>5. PICK s \in Subject : s = m.id
  BY DEF Envelope
<1>6. x \in Effects /\ EffectCovered(s, x)
  BY <1>0, <1>2, <1>3, <1>5, RouteEffectsType, MethodsCover DEF Covered
<1>7. Becomes(s, Retire(x.hs), x.el, x.out)
  <2>1. \A n \in x.out : n.status \notin Openings
    BY NothingReopens
  <2>2. UNCHANGED inst
    BY <1>1 DEF Take
  <2> QED
    BY <1>0, <1>4, <1>5, <1>6, <2>1, <2>2, PerformBecomes
<1>8. \A t \in Subject, i \in Instance : \A statuses :
         Heard(t, i, statuses) <=> i = o /\ About(t, m, statuses)
  BY <1>0, <1>1, <1>3, HeardHead
<1>9. \A t \in Subject \ {s}, i \in Instance : \A statuses : ~Heard(t, i, statuses)
  BY <1>5, <1>8 DEF About
<1>10. handshakes[s] \in Initiator /\ elections[s] \in Election /\ NoInitiator.state = "NONE"
  BY <1>0 DEF CoordTypeOK, NoInitiator
<1>11. GoesOn(s, x.out)
  <2> DEFINE tallied == Tally(elections[s], m)
  <2>1. CASE HasElection(s) /\ tallied.silent = {}
    <3>1. x \in Settled(s, tallied) /\ ~HasHandshake(s)
      BY <1>0, <1>5, <2>1 DEF RouteEffects, OneDict
    <3>2. tallied \in Election
      BY <1>2, <1>3, <1>10, TallyType
    <3>3. tallied.epoch = epochs[s]
      BY <1>0, <1>10, <2>1 DEF Tally, Election, Conversation, HasElection
    <3>4. ASSUME NEW i \in tallied.offers
          PROVE  Offered(s, i) \/ (Bidding(s, i) /\ Heard(s, i, {"BID"}))
      <4>1. i \in Instance
        BY <3>2 DEF Election
      <4>2. elections[s].epoch = epochs[s]
        BY <1>0, <2>1 DEF HasElection, Conversation
      <4>3. i \in elections[s].offers
            \/ (i = m.inst /\ m.epoch = epochs[s] /\ m.inst \in EngagedIn(elections[s])
                  /\ m.status = "BID")
        BY <1>10, <4>2 DEF Tally, EngagedIn, Election
      <4> QED
        BY <1>2, <1>3, <1>5, <1>8, <4>1, <4>3 DEF Offered, Bidding, About
    <3> HIDE DEF tallied
    <3> QED
      BY <1>0, <1>7, <2>1, <3>1, <3>2, <3>3, <3>4, RoundSettles
  <2>2. CASE HasElection(s) /\ tallied.silent # {}
    <3>1. x = Effect(handshakes[s], tallied, TallyOut(elections[s], m), "NOTHING", None)
          /\ ~HasHandshake(s)
      BY <1>0, <1>5, <2>2 DEF RouteEffects, OneDict
    <3>2. /\ x.hs = handshakes[s] /\ x.el = tallied /\ x.out = TallyOut(elections[s], m)
          /\ Retire(handshakes[s]) = handshakes[s]
      BY <3>1 DEF Effect, HasHandshake, Retire
    <3> QED
      BY <1>0, <1>1, <1>2, <1>3, <1>5, <1>7, <1>10, <2>2, <3>1, <3>2, RoundContinues
  <2>3. CASE ~HasElection(s) /\ HasHandshake(s)
    <3>1. x = FromInitiator(Handle(handshakes[s], m))
      BY <1>5, <2>3 DEF RouteEffects
    <3>2. /\ x.hs = Handle(handshakes[s], m).next /\ x.el = NoElection
          /\ x.out = Handle(handshakes[s], m).out
      BY <3>1 DEF FromInitiator, Effect
    <3> QED
      BY <1>0, <1>1, <1>2, <1>3, <1>5, <1>7, <1>10, <2>3, <3>2, WordHandled
  <2>4. CASE ~HasElection(s) /\ ~HasHandshake(s)
    <3>1. x.hs = NoInitiator /\ x.el = NoElection /\ x.out = OrphanReply(m)
      BY <1>5, <2>4 DEF RouteEffects, Effect
    <3>2. Becomes(s, NoInitiator, NoElection, x.out)
      BY <1>7, <3>1 DEF Retire
    <3>3. \A n \in x.out : n.status \in {"CANCEL", "COMPLETE_ACK"}
      BY <3>1 DEF OrphanReply, LetGo, Env
    <3> QED
      BY <3>2, <3>3, Leaves
  <2> QED
    BY <2>1, <2>2, <2>3, <2>4
<1> QED
  BY <1>1, <1>7, <1>9, <1>11, BecomesGood

\* A deadline has passed.
LEMMA TickGood ==
    ASSUME PledgeInv, NEW s \in Subject, Tick(s)
    PROVE  Good'
<1>0. /\ CoordTypeOK /\ RespondersTypeOK /\ OneDict /\ Covered /\ Conversation(s)
      /\ handshakes[s] \in Initiator /\ elections[s] \in Election
  BY DEF PledgeInv, Inv, TypeOK, CoordTypeOK
<1>1. UNCHANGED <<inst, uplink>> /\ InFlight(s)
  BY DEF Tick, responderVars
<1>2. PICK x \in TickEffects(s) : Perform(s, x)
  BY DEF Tick
<1>3. x \in Effects /\ EffectCovered(s, x)
  BY <1>0, TickEffectsType, MethodsCover DEF Covered
<1>4. Becomes(s, Retire(x.hs), x.el, x.out)
  <2>1. \A n \in x.out : n.status \notin Openings
    BY NothingReopens
  <2> QED
    BY <1>0, <1>1, <1>2, <1>3, <2>1, PerformBecomes
<1>5. ASSUME NEW t \in Subject, NEW i \in Instance, NEW statuses PROVE ~Heard(t, i, statuses)
  BY <1>0, <1>1, NothingHeard DEF Heard
<1>6. GoesOn(s, x.out)
  <2>1. CASE HasElection(s)
    <3>1. x \in Settled(s, elections[s]) /\ ~HasHandshake(s) /\ elections[s].epoch = epochs[s]
      BY <1>0, <2>1 DEF TickEffects, OneDict, Conversation, HasElection
    <3>2. \A i \in elections[s].offers : Offered(s, i)
      BY DEF Offered
    <3> QED
      BY <1>0, <1>4, <2>1, <3>1, <3>2, RoundSettles
  <2>2. CASE ~HasElection(s)
    <3> DEFINE h == handshakes[s]
               o == Overdue(s, h)
    <3>1. x.hs = o.next /\ x.el = NoElection /\ x.out = o.out
      BY <2>2 DEF TickEffects, FromInitiator, Effect
    <3>2. h.state \in {"REQUESTED", "AWARDED", "CONFIRMED", "CANCELLED"} /\ elections[s] = NoElection
      BY <1>0, <1>1, <2>2
         DEF InFlight, HasHandshake, HasElection, Conversation, Initiator, InitiatorRecord
    <3>3. CASE h.state = "REQUESTED" \/ (h.state = "CANCELLED" /\ h.tries >= MaxTries)
      <4>1. o.next = Finished(h) /\ o.out = {}
        BY <3>3, HandshakeAssumption DEF Overdue, Quietly, Outcome, Initiator, InitiatorRecord
      <4>2. Retire(Finished(h)) = NoInitiator
        BY <1>0 DEF Retire, Finished, Initiator, InitiatorRecord
      <4> QED
        BY <1>4, <3>1, <4>1, <4>2, Leaves
    <3>4. CASE h.state = "CONFIRMED"
      <4>1. o.next = h /\ o.out = {} /\ Retire(h) = h
        BY <3>4 DEF Overdue, Quietly, Outcome, Retire
      <4>2. Becomes(s, handshakes[s], elections[s], {})
        BY <1>4, <3>1, <3>2, <4>1
      <4> QED
        BY <1>0, <1>5, <3>1, <4>1, <4>2, Stays
    <3>5. CASE h.state = "AWARDED" \/ (h.state = "CANCELLED" /\ h.tries < MaxTries)
      <4>1. /\ o.next.state = "CANCELLED" /\ o.next.receiver = h.receiver /\ o.next.epoch = h.epoch
            /\ \A n \in o.out : n.status = "CANCEL"
        <5> DEFINE again == [h EXCEPT !.tries = @ + 1]
                   ending == [h EXCEPT !.state = "CANCELLED"]
        <5>1. /\ again.state = h.state /\ again.receiver = h.receiver /\ again.epoch = h.epoch
              /\ ending.state = "CANCELLED" /\ ending.receiver = h.receiver
              /\ ending.epoch = h.epoch
          BY <1>0 DEF Initiator, InitiatorRecord
        <5>2. /\ o.out = {Env("CANCEL", s, h.receiver, h.epoch)}
              /\ o.next = ending \/ (o.next = again /\ h.state = "CANCELLED")
          <6>3. h.tries \in Nat /\ MaxTries \in Nat
            BY <1>0, HandshakeAssumption DEF Initiator, InitiatorRecord
          <6> HIDE DEF h, again, ending
          <6>1. CASE h.state = "AWARDED"
            BY <6>1 DEF Overdue, Quietly, Outcome, ending
          <6>2. CASE h.state = "CANCELLED" /\ h.tries < MaxTries
            BY <6>2, <6>3 DEF Overdue, Quietly, Outcome, again
          <6> QED
            BY <3>5, <6>1, <6>2
        <5> HIDE DEF o, again, ending
        <5> QED
          BY <5>1, <5>2 DEF Env
      <4>2. Retire(o.next) = o.next
        BY <4>1 DEF Retire
      <4> HIDE DEF o
      <4> QED
        BY <1>0, <1>4, <1>5, <2>2, <3>1, <3>5, <4>1, <4>2, Releases
    <3>6. h.tries >= MaxTries \/ h.tries < MaxTries
      BY <1>0, HandshakeAssumption DEF Initiator, InitiatorRecord
    <3> QED
      BY <3>2, <3>3, <3>4, <3>5, <3>6
  <2> QED
    BY <2>1, <2>2
<1> QED
  BY <1>1, <1>4, <1>5, <1>6, BecomesGood

\* cancel().
LEMMA CancelGood ==
    ASSUME PledgeInv, NEW s \in Subject, CancelSubject(s)
    PROVE  Good'
<1>0. /\ CoordTypeOK /\ RespondersTypeOK /\ OneDict /\ Covered /\ Conversation(s)
      /\ handshakes[s] \in Initiator /\ elections[s] \in Election
      /\ handshakes \in [Subject -> Initiator] /\ elections \in [Subject -> Election]
  BY DEF PledgeInv, Inv, TypeOK, CoordTypeOK
<1>1. UNCHANGED <<inst, uplink>> /\ InFlight(s) /\ Cancel(s)
  BY DEF CancelSubject, responderVars
<1> DEFINE x == CancelEffect(s)
<1>2. x \in Effects /\ EffectCovered(s, x)
  BY <1>0, CancelEffectType, MethodsCover DEF Covered
<1>3. Becomes(s, Retire(x.hs), NoElection, x.out)
  <2>1. /\ handshakes' = [t \in Subject |-> IF t \in {s} THEN Retire(CancelEffect(t).hs)
                                            ELSE handshakes[t]]
        /\ elections' = [t \in Subject |-> IF t \in {s} THEN NoElection ELSE elections[t]]
        /\ epochs' = [t \in Subject |-> IF t \in {} THEN 0 ELSE epochs[t]]
        /\ Send(UNION {CancelEffect(t).out : t \in {s}})
    BY <1>1 DEF Cancel, CancelAndForget
  <2>2. epochs' = epochs
    BY <1>0, <2>1 DEF CoordTypeOK
  <2>3. UNION {CancelEffect(t).out : t \in {s}} = x.out
    OBVIOUS
  <2>4. \A n \in x.out : n.id = s /\ n.status \notin Openings
    BY <1>2, NothingReopens DEF EffectCovered
  <2>5. x.out \in SUBSET Envelope /\ Send(x.out)
    BY <1>2, <2>1, <2>3 DEF Effects
  <2>6. handshakes'[s] = Retire(x.hs) /\ elections'[s] = NoElection
    BY <2>1
  <2>7. \A t \in Subject \ {s} : handshakes'[t] = handshakes[t] /\ elections'[t] = elections[t]
    BY <2>1
  <2> HIDE DEF x
  <2> QED
    BY <1>1, <2>2, <2>4, <2>5, <2>6, <2>7 DEF Becomes
<1>4. ASSUME NEW t \in Subject, NEW i \in Instance, NEW statuses PROVE ~Heard(t, i, statuses)
  BY <1>0, <1>1, NothingHeard DEF Heard
<1>5. GoesOn(s, x.out)
  <2> DEFINE h == handshakes[s]
  <2>1. \A n \in x.out : n.status = "CANCEL"
    BY DEF CancelEffect, FromInitiator, Effect, Withdraw, Quietly, Outcome, ToEach, Env
  <2>2. CASE HasElection(s)
    <3>1. x.hs = NoInitiator
      BY <2>2 DEF CancelEffect, Effect
    <3>2. Becomes(s, NoInitiator, NoElection, x.out)
      BY <1>3, <3>1 DEF Retire
    <3> HIDE DEF x
    <3> QED
      BY <2>1, <3>2, Leaves
  <2>3. CASE ~HasElection(s) /\ Releasing(s)
    <3>1. x.hs = h /\ x.out = {} /\ Retire(h) = h /\ elections[s] = NoElection
      BY <1>0, <2>3 DEF CancelEffect, Effect, Releasing, Retire, Conversation, HasElection
    <3>2. Becomes(s, handshakes[s], elections[s], x.out)
      BY <1>3, <3>1
    <3> HIDE DEF x
    <3> QED
      BY <1>0, <1>4, <3>1, <3>2, Stays
  <2>4. CASE ~HasElection(s) /\ ~Releasing(s)
    <3>1. /\ h.state \in {"REQUESTED", "AWARDED", "CONFIRMED"}
          /\ (h.receiver = None <=> h.state = "REQUESTED")
      BY <1>0, <1>1, <2>4
         DEF InFlight, HasHandshake, Releasing, Conversation, Initiator, InitiatorRecord
    <3>2. x.hs = Withdraw(s, h).next
      BY <2>4, <3>1 DEF CancelEffect, FromInitiator, Effect, HasHandshake
    <3>3. CASE h.receiver = None
      <4>1. Retire(x.hs) = NoInitiator
        BY <1>0, <3>2, <3>3 DEF Withdraw, Quietly, Outcome, Retire, Finished, Initiator, InitiatorRecord
      <4>2. Becomes(s, NoInitiator, NoElection, x.out)
        BY <1>3, <4>1
      <4> HIDE DEF x
      <4> QED
        BY <2>1, <4>2, Leaves
    <3>4. CASE h.receiver # None
      <4>1. /\ x.hs.state = "CANCELLED" /\ x.hs.receiver = h.receiver /\ x.hs.epoch = h.epoch
        BY <1>0, <3>2, <3>4 DEF Withdraw, Quietly, Outcome, Initiator, InitiatorRecord
      <4>2. Retire(x.hs) = x.hs
        BY <4>1 DEF Retire
      <4>3. h.state \in {"AWARDED", "CONFIRMED", "CANCELLED"}
        BY <3>1, <3>4
      <4> HIDE DEF x
      <4> QED
        BY <1>0, <1>3, <1>4, <2>1, <2>4, <4>1, <4>2, <4>3, Releases
    <3> QED
      BY <3>3, <3>4
  <2> QED
    BY <2>2, <2>3, <2>4
<1> HIDE DEF x
<1> QED
  BY <1>1, <1>3, <1>4, <1>5, BecomesGood

-----------------------------------------------------------------------------
(* An attempt is opened                                                    *)

\* request() and elect(), spelled out: the next epoch, and nobody has answered.
Opens(s, status, out) ==
    /\ \/ /\ status = "REQUEST" /\ elections'[s] = elections[s]
          /\ \E targets \in SUBSET Instance : handshakes'[s] = Requested(targets, epochs[s] + 1)
       \/ /\ status = "REQUEST_BID" /\ handshakes'[s] = handshakes[s]
          /\ \E cands \in (SUBSET Instance) \ {{}} : elections'[s] = Opened(cands, epochs[s] + 1)
    /\ epochs'[s] = epochs[s] + 1
    /\ \A t \in Subject \ {s} : /\ handshakes'[t] = handshakes[t] /\ elections'[t] = elections[t]
                                /\ epochs'[t] = epochs[t]
    /\ out \in SUBSET Envelope /\ Send(out)
    /\ \A m \in out : m.id = s /\ m.epoch = epochs[s] + 1 /\ m.status = status
    /\ ~InFlight(s) /\ UNCHANGED responderVars

\* Whatever a conversation starts with, this is its opening.
LEMMA StartOpens ==
    ASSUME CoordTypeOK, NEW s \in Subject, Request(s) \/ StartElection(s)
    PROVE  \E status \in Openings : \E out : Opens(s, status, out)
<1>0. epochs \in [Subject -> Nat]
  BY DEF CoordTypeOK
<1>1. ASSUME NEW targets \in [Subject -> SUBSET Instance], OpenRequests({s}, targets),
             ~InFlight(s), UNCHANGED responderVars
      PROVE  \E out : Opens(s, "REQUEST", out)
  <2> DEFINE asked(t) == IF targets[t] = {} THEN Instance ELSE targets[t]
             out == UNION {ToEach("REQUEST", t, asked(t), epochs[t] + 1) : t \in {s}}
  <2>1. /\ handshakes' = [t \in Subject |-> IF t \in {s} THEN Requested(targets[t], epochs[t] + 1)
                                            ELSE handshakes[t]]
        /\ epochs' = [t \in Subject |-> IF t \in {s} THEN epochs[t] + 1 ELSE epochs[t]]
        /\ Send(out) /\ elections' = elections
    BY <1>1 DEF OpenRequests
  <2>2. /\ out \in SUBSET Envelope
        /\ \A m \in out : m.id = s /\ m.epoch = epochs[s] + 1 /\ m.status = "REQUEST"
    BY <1>0 DEF ToEach, Env, Envelope, ToInstance
  <2>3. targets[s] \in SUBSET Instance /\ handshakes'[s] = Requested(targets[s], epochs[s] + 1)
    BY <2>1
  <2>4. /\ epochs'[s] = epochs[s] + 1
        /\ \A t \in Subject \ {s} : handshakes'[t] = handshakes[t] /\ epochs'[t] = epochs[t]
    BY <2>1
  <2> HIDE DEF out
  <2>5. Opens(s, "REQUEST", out)
    BY <1>1, <2>1, <2>2, <2>3, <2>4 DEF Opens
  <2> QED
    BY <2>5
<1>2. ASSUME NEW hints \in SUBSET Instance, Elect(s, hints), UNCHANGED responderVars
      PROVE  \E out : Opens(s, "REQUEST_BID", out)
  <2> DEFINE cands == [x \in Subject |-> IF x = s THEN hints \ EngagedInstances ELSE {}]
             who == {t \in Subject : cands[t] # {}}
             out == UNION {ToEach("REQUEST_BID", t, cands[t], epochs[t] + 1) : t \in who}
  <2>1. OpenElections(cands) /\ ~InFlight(s) /\ hints \ EngagedInstances # {}
    BY <1>2 DEF Elect
  <2>2. who = {s} /\ cands[s] \in (SUBSET Instance) \ {{}}
    <3>1. cands[s] = hints \ EngagedInstances /\ \A t \in Subject \ {s} : cands[t] = {}
      OBVIOUS
    <3> HIDE DEF cands
    <3> QED
      BY <2>1, <3>1
  <2>3. /\ elections' = [t \in Subject |-> IF t \in who THEN Opened(cands[t], epochs[t] + 1)
                                           ELSE elections[t]]
        /\ epochs' = [t \in Subject |-> IF t \in who THEN epochs[t] + 1 ELSE epochs[t]]
        /\ Send(out) /\ handshakes' = handshakes
    BY <2>1 DEF OpenElections
  <2> HIDE DEF cands, who
  <2>4. /\ out \in SUBSET Envelope
        /\ \A m \in out : m.id = s /\ m.epoch = epochs[s] + 1 /\ m.status = "REQUEST_BID"
    BY <1>0, <2>2 DEF ToEach, Env, Envelope, ToInstance
  <2>5. elections'[s] = Opened(cands[s], epochs[s] + 1) /\ epochs'[s] = epochs[s] + 1
    BY <2>2, <2>3
  <2>6. \A t \in Subject \ {s} : elections'[t] = elections[t] /\ epochs'[t] = epochs[t]
    BY <2>2, <2>3
  <2> HIDE DEF out
  <2>7. Opens(s, "REQUEST_BID", out)
    BY <1>2, <2>1, <2>2, <2>3, <2>4, <2>5, <2>6 DEF Opens
  <2> QED
    BY <2>7
<1>3. CASE Request(s)
  <2>1. PICK targets \in [Subject -> SUBSET Instance] :
           OpenRequests({s}, targets) /\ ~InFlight(s) /\ UNCHANGED responderVars
    BY <1>3 DEF Request, RequestPooled, RequestDirected, MayRequest
  <2> QED
    BY <1>1, <2>1 DEF Openings
<1>4. CASE StartElection(s)
  <2>1. PICK hints \in SUBSET Instance : Elect(s, hints) /\ UNCHANGED responderVars
    BY <1>4 DEF StartElection
  <2> QED
    BY <1>2, <2>1 DEF Openings
<1> QED
  BY <1>3, <1>4

\* The opening of an attempt is all that is under way about it.
LEMMA OpeningComes ==
    ASSUME CoordTypeOK, DownCovered, NEW s \in Subject, NEW i \in Instance,
           NEW status \in Openings, NEW out \in SUBSET Envelope, Send(out),
           epochs'[s] = epochs[s] + 1,
           \A m \in out : m.id = s /\ m.epoch = epochs[s] + 1 /\ m.status = status
    PROVE  /\ \A statuses : Coming(s, i, statuses)' => status \in statuses
           /\ CalledOnce(s, i)'
           /\ Ordered(s, i) /\ ~Reserves(s, i)' => Ordered(s, i)'
<1> DEFINE q == net[<<s, i>>]
           r == net'[<<s, i>>]
<1>1. q \in Seq(Envelope) /\ epochs[s] \in Nat
  BY DEF CoordTypeOK
<1>2. \A k \in DOMAIN q : q[k].epoch <= epochs[s] /\ q[k].epoch \in Nat
  <2>1. <<s, i>> \in Subject \X Instance /\ <<s, i>>[1] = s
    OBVIOUS
  <2>2. ASSUME NEW k \in DOMAIN q PROVE q[k].epoch <= epochs[s] /\ q[k].epoch \in Nat
    <3>1. q[k] \in Elements(q) /\ q[k] \in Envelope
      <4> HIDE DEF q
      <4> QED
        BY <1>1 DEF Elements
    <3> QED
      BY <2>1, <3>1 DEF DownCovered, Envelope
  <2> QED
    BY <2>2
<1>3. CASE r = q
  <2>1. \A k \in DOMAIN r : r[k].epoch # epochs'[s]
    BY <1>1, <1>2, <1>3
  <2> HIDE DEF q, r
  <2>2. CalledOnce(s, i)'
    BY <2>1 DEF CalledOnce, q, r
  <2>3. Ordered(s, i) /\ ~Reserves(s, i)' => Ordered(s, i)'
    BY <1>3 DEF Ordered, q, r
  <2>4. \A statuses : ~Coming(s, i, statuses)'
    BY <2>1 DEF Coming, r
  <2> QED
    BY <2>2, <2>3, <2>4
<1>4. ASSUME NEW e \in out, r = Append(q, e)
      PROVE  /\ \A statuses : Coming(s, i, statuses)' => status \in statuses
             /\ CalledOnce(s, i)'
             /\ Ordered(s, i) /\ ~Reserves(s, i)' => Ordered(s, i)'
  <2>1. /\ DOMAIN q = 1 .. Len(q) /\ Len(q) \in Nat /\ DOMAIN r = 1 .. Len(q) + 1
        /\ \A k \in 1 .. Len(q) : r[k] = q[k]
        /\ r[Len(q) + 1] = e
    <3> HIDE DEF q
    <3> QED
      BY <1>1, <1>4, Positions
  <2>2. e.epoch = epochs'[s] /\ e.status = status
    OBVIOUS
  <2> HIDE DEF q, r
  <2>3. \A k \in DOMAIN r : (k \in DOMAIN q /\ r[k] = q[k]) \/ (k = Len(q) + 1 /\ r[k] = e)
    BY <2>1
  <2>4. ASSUME NEW k \in DOMAIN r, r[k].epoch = epochs'[s]
        PROVE  k = Len(q) + 1 /\ r[k].status = status
    <3>1. k \notin DOMAIN q \/ r[k] # q[k]
      BY <1>1, <1>2, <2>4
    <3> QED
      BY <2>2, <2>3, <3>1
  <2>5. \A statuses : Coming(s, i, statuses)' => status \in statuses
    BY <2>4 DEF Coming, r
  <2>6. CalledOnce(s, i)'
    BY <2>4 DEF CalledOnce, r
  <2>7. ASSUME Ordered(s, i), ~Reserves(s, i)' PROVE Ordered(s, i)'
    <3>1. ASSUME NEW j \in DOMAIN r, NEW k \in DOMAIN r, j < k, r[k].status \in Openings
          PROVE  r[j].epoch <= r[k].epoch
      <4>1. j \in DOMAIN q /\ r[j] = q[j]
        BY <2>1, <2>3, <3>1
      <4>2. CASE k \in DOMAIN q /\ r[k] = q[k]
        BY <2>7, <3>1, <4>1, <4>2 DEF Ordered, q
      <4>3. CASE r[k] = e
        BY <1>1, <1>2, <2>2, <4>1, <4>3
      <4> QED
        BY <2>3, <4>2, <4>3
    <3> QED
      BY <2>7, <3>1 DEF Ordered, r
  <2> QED
    BY <2>5, <2>6, <2>7
<1>5. CASE r # q
  <2>1. PICK e \in out : r = Append(q, e)
    BY <1>5, SendAppends
  <2> QED
    BY <1>4, <2>1
<1> QED
  BY <1>3, <1>5

\* Nobody has said or agreed to anything in an attempt that is just being opened.
LEMMA OpensGood ==
    ASSUME PledgeInv, NEW s \in Subject, NEW status \in Openings, NEW out, Opens(s, status, out)
    PROVE  Good'
<1>0. /\ CoordTypeOK /\ RespondersTypeOK /\ OneDict
      /\ DownCovered /\ UpCovered /\ HoldersCovered
      /\ epochs \in [Subject -> Nat]
  BY DEF PledgeInv, Inv, TypeOK, CoordTypeOK, Covered
<1>1. /\ epochs'[s] = epochs[s] + 1 /\ UNCHANGED <<inst, uplink>>
      /\ \A t \in Subject \ {s} : /\ handshakes'[t] = handshakes[t] /\ elections'[t] = elections[t]
                                  /\ epochs'[t] = epochs[t]
      /\ out \in SUBSET Envelope /\ Send(out)
      /\ \A m \in out : m.id = s /\ m.epoch = epochs[s] + 1 /\ m.status = status
  BY DEF Opens, responderVars
<1>2. handshakes[s].state = "NONE" /\ elections[s] = NoElection
  BY DEF Opens, InFlight, HasHandshake, HasElection, PledgeInv, Conversation
<1>3. \/ /\ status = "REQUEST" /\ elections'[s] = NoElection
         /\ handshakes'[s].state = "REQUESTED" /\ handshakes'[s].receiver = None
         /\ handshakes'[s].epoch = epochs[s] + 1
      \/ /\ status = "REQUEST_BID" /\ handshakes'[s] = handshakes[s]
         /\ elections'[s].candidates # {} /\ elections'[s].offers = {}
         /\ elections'[s].epoch = epochs[s] + 1
  <2>1. CASE /\ status = "REQUEST" /\ elections'[s] = elections[s]
             /\ \E targets \in SUBSET Instance : handshakes'[s] = Requested(targets, epochs[s] + 1)
    BY <1>2, <2>1 DEF Requested
  <2>2. CASE /\ status = "REQUEST_BID" /\ handshakes'[s] = handshakes[s]
             /\ \E cands \in (SUBSET Instance) \ {{}} : elections'[s] = Opened(cands, epochs[s] + 1)
    <3>1. PICK cands \in (SUBSET Instance) \ {{}} : elections'[s] = Opened(cands, epochs[s] + 1)
      BY <2>2
    <3> QED
      BY <2>2, <3>1 DEF Opened
  <2> QED
    BY <2>1, <2>2 DEF Opens
<1>4. ASSUME NEW t \in Subject PROVE Conversation(t)'
  <2>1. CASE t = s
    BY <1>1, <1>2, <1>3, <2>1 DEF Conversation, PledgeInv, NoElection
  <2>2. CASE t # s
    BY <1>1, <2>2 DEF Conversation, PledgeInv
  <2> QED
    BY <2>1, <2>2
<1>5. ASSUME NEW i \in Instance PROVE OnePledge(i)'
  <2>1. \A r \in inst[i].reserved : r[1] \in Subject /\ r[2] \in Nat
    BY <1>0 DEF RespondersTypeOK, Holding
  <2>2. \A t \in Subject : epochs[t] \in Nat /\ (epochs'[t] = epochs[t] \/ epochs'[t] = epochs[t] + 1)
    BY <1>0, <1>1
  <2>3. OnePledge(i)
    BY DEF PledgeInv
  <2>4. \A r \in inst[i].reserved : r[2] <= epochs'[r[1]]
    BY <2>1, <2>2, <2>3 DEF OnePledge
  <2> QED
    BY <1>1, <2>3, <2>4 DEF OnePledge
<1>6. ASSUME NEW i \in Instance
      PROVE  /\ \A k, statuses : ~Says(s, i, k, statuses)'
             /\ ~Holds(s, i)' /\ ~Reserves(s, i)'
             /\ ~Claimed(s, i)' /\ ~Releasing(s)'
             /\ Asked(s, i)' => status = "REQUEST"
             /\ Bidding(s, i)' => status = "REQUEST_BID"
  <2>0. epochs[s] \in Nat /\ epochs'[s] = epochs[s] + 1
    BY <1>0, <1>1
  <2>1. ASSUME NEW k, NEW statuses PROVE ~Says(s, i, k, statuses)'
    <3> SUFFICES ASSUME k \in DOMAIN uplink[i], uplink[i][k].id = s,
                        uplink[i][k].epoch = epochs'[s]
                 PROVE  FALSE
      BY <1>1 DEF Says, About
    <3>1. uplink[i][k] \in Elements(uplink[i])
      BY DEF Elements
    <3>2. uplink[i][k].epoch <= epochs[s]
      BY <1>0, <3>1 DEF UpCovered
    <3> QED
      BY <2>0, <3>2
  <2>2. ~Holds(s, i)'
    BY <1>0, <1>1, <2>0, HandshakeAssumption DEF Holds, HoldersCovered
  <2>3. ~Reserves(s, i)'
    <3> SUFFICES ASSUME <<s, epochs'[s]>> \in inst[i].reserved PROVE FALSE
      BY <1>1 DEF Reserves
    <3>1. OnePledge(i)
      BY DEF PledgeInv
    <3>2. epochs'[s] <= epochs[s]
      BY <3>1 DEF OnePledge
    <3> QED
      BY <2>0, <3>2
  <2>4. /\ ~Claimed(s, i)' /\ ~Releasing(s)'
        /\ Asked(s, i)' => status = "REQUEST"
        /\ Bidding(s, i)' => status = "REQUEST_BID"
    BY <1>2, <1>3 DEF Claimed, With, Offered, Asked, Bidding, EngagedIn, Releasing, NoElection
  <2> QED
    BY <2>1, <2>2, <2>3, <2>4
<1>7. ASSUME NEW i \in Instance PROVE Ordered(s, i)' /\ Lawful(s, i)'
  <2>1. /\ \A statuses : Coming(s, i, statuses)' => status \in statuses
        /\ CalledOnce(s, i)'
        /\ Ordered(s, i) /\ ~Reserves(s, i)' => Ordered(s, i)'
    BY <1>0, <1>1, OpeningComes
  <2>2. Ordered(s, i)'
    BY <1>6, <2>1 DEF PledgeInv
  <2>3. \A statuses : ~Said(s, i, statuses)'
    BY <1>6 DEF Said
  <2>4. ~Offered(s, i)' /\ ~With(s, i, {"AWARDED"})' /\ ~With(s, i, {"CONFIRMED"})'
    BY <1>6 DEF Claimed, With
  <2>5. ~Coming(s, i, {"COMPLETE_ACK"})' /\ ~Coming(s, i, {"CANCEL"})' /\ ~Coming(s, i, {"AWARD"})'
    BY <2>1 DEF Openings
  <2>6. /\ Asked(s, i)' => ~Coming(s, i, {"REQUEST_BID"})'
        /\ Bidding(s, i)' => ~Coming(s, i, {"REQUEST"})'
    BY <1>6, <2>1
  <2>7. Lawful(s, i)'
    BY <1>6, <2>1, <2>3, <2>4, <2>5, <2>6 DEF Lawful
  <2> QED
    BY <2>2, <2>7
<1>8. ASSUME NEW t \in Subject \ {s}, NEW i \in Instance PROVE Ordered(t, i)' /\ Lawful(t, i)'
  <2>1. net'[<<t, i>>] = net[<<t, i>>]
    BY <1>1, SendAppends
  <2>2. Ordered(t, i) /\ Lawful(t, i)
    BY DEF PledgeInv
  <2> QED
    BY <1>1, <2>1, <2>2, LawfulFrame
<1>9. ASSUME NEW i \in Instance PROVE Chained(i)'
  <2>1. \A k : ~Pledge(s, i, k)'
    BY <1>6 DEF Pledge
  <2>2. ASSUME NEW t \in Subject \ {s}
        PROVE  /\ \A k : Pledge(t, i, k)' <=> Pledge(t, i, k)
               /\ \A l, statuses : Says(t, i, l, statuses)' <=> Says(t, i, l, statuses)
               /\ Pledged(t, i)' <=> Pledged(t, i)
    BY <1>1 DEF Pledge, Wanted, Claimed, With, Offered, Asked, Bidding, EngagedIn, Says, About,
                Pledged, Holds, Reserves
  <2>3. Chain(i)' = Chain(i) /\ Chained(i)
    BY <1>1 DEF Chain, PledgeInv
  <2>4. ASSUME NEW t \in Subject PROVE Backed(t, i)'
    <3>1. CASE t = s
      BY <2>1, <3>1 DEF Backed
    <3>2. CASE t # s
      BY <2>2, <2>3, <3>2 DEF Backed, Chained
    <3> QED
      BY <3>1, <3>2
  <2>5. ASSUME NEW t \in Subject, NEW u \in Subject, t # u PROVE Exclusive(t, u, i)'
    <3>1. CASE t = s \/ u = s
      BY <2>1, <3>1 DEF Exclusive
    <3>2. CASE t # s /\ u # s
      BY <2>2, <2>3, <2>5, <3>2 DEF Exclusive, Chained
    <3> QED
      BY <3>1, <3>2
  <2> QED
    BY <2>4, <2>5 DEF Chained
<1> QED
  BY <1>4, <1>5, <1>7, <1>8, <1>9 DEF Good

-----------------------------------------------------------------------------
(* The theorems about pledges                                              *)

\* Steps that touch none of it: a cooldown ends, or nothing happens.
LEMMA UntouchedGood ==
    ASSUME PledgeInv, UNCHANGED <<handshakes, elections, epochs, net, inst, uplink>>
    PROVE  Good'
<1>1. ASSUME NEW s \in Subject PROVE Conversation(s)'
  BY DEF PledgeInv, Conversation
<1>2. ASSUME NEW s \in Subject, NEW i \in Instance PROVE Ordered(s, i)' /\ Lawful(s, i)'
  BY LawfulFrame DEF PledgeInv
<1>3. ASSUME NEW i \in Instance PROVE OnePledge(i)'
  BY DEF PledgeInv, OnePledge
<1>4. ASSUME NEW i \in Instance PROVE Chained(i)'
  <2>1. ASSUME NEW s \in Subject
        PROVE  (Wanted(s, i)' <=> Wanted(s, i)) /\ (Claimed(s, i)' <=> Claimed(s, i))
    BY DEF Wanted, Claimed, With, Offered, Asked, Bidding, EngagedIn
  <2>2. Chained(i)
    BY DEF PledgeInv
  <2> QED
    BY <2>1, <2>2, ChainKept
<1> QED
  BY <1>1, <1>2, <1>3, <1>4 DEF Good

\* Nobody has agreed to anything yet.
LEMMA InitPledges == Init => PledgeInv
<1> SUFFICES ASSUME Init PROVE PledgeInv
  OBVIOUS
<1>1. Inv /\ Covered
  BY InitEstablishes, InitCovers
<1>2. /\ \A s \in Subject : handshakes[s] = NoInitiator /\ elections[s] = NoElection
      /\ \A s \in Subject, i \in Instance : net[<<s, i>>] = <<>>
      /\ \A i \in Instance : inst[i] = Idle /\ uplink[i] = <<>>
  BY DEF Init, CoordInit, RespondersInit
<1>3. ASSUME NEW s \in Subject PROVE Conversation(s)
  BY <1>2 DEF Conversation, NoInitiator, NoElection
<1>4. ASSUME NEW i \in Instance PROVE OnePledge(i)
  BY <1>2 DEF OnePledge, Idle
<1>5. ASSUME NEW s \in Subject, NEW i \in Instance PROVE Ordered(s, i)
  <2>1. DOMAIN net[<<s, i>>] = {}
    BY <1>2
  <2> QED
    BY <2>1 DEF Ordered
<1>6. ASSUME NEW s \in Subject, NEW i \in Instance PROVE ~Wanted(s, i)
  BY <1>2 DEF Wanted, Claimed, With, Offered, Asked, Bidding, EngagedIn, NoInitiator, NoElection
<1>7. ASSUME NEW s \in Subject, NEW i \in Instance PROVE Lawful(s, i)
  BY <1>6 DEF Lawful, Wanted, Claimed, With
<1>8. ASSUME NEW i \in Instance PROVE Chained(i)
  <2>1. \A s \in Subject : \A k : ~Pledge(s, i, k)
    BY <1>6 DEF Pledge, Wanted
  <2> QED
    BY <2>1 DEF Chained, Backed, Exclusive
<1> QED
  BY <1>1, <1>3, <1>4, <1>5, <1>7, <1>8 DEF PledgeInv

\* Every step keeps the two sides together.
LEMMA NextPledges ==
    ASSUME Reliable, PledgeInv, [Next]_vars
    PROVE  PledgeInv'
<1>0. Inv /\ Covered /\ CoordTypeOK
  BY DEF PledgeInv, Inv, TypeOK
<1>1. Inv' /\ Covered'
  BY <1>0, NextKeeps, NextCovers
<1> SUFFICES Good'
  BY <1>1 DEF PledgeInv, Good
<1>2. ASSUME NEW s \in Subject, Request(s) \/ StartElection(s) PROVE Good'
  BY <1>0, <1>2, StartOpens, OpensGood
<1>3. ASSUME NEW s \in Subject, CancelSubject(s) PROVE Good'
  BY <1>3, CancelGood
<1>4. ASSUME NEW s \in Subject, Tick(s) PROVE Good'
  BY <1>4, TickGood
<1>5. ASSUME NEW i \in Instance, Route(i) PROVE Good'
  BY <1>5, RouteGood
<1>6. CASE Cool
  BY <1>6, UntouchedGood DEF Cool, CooldownOver, responderVars
<1>7. CASE Environment
  BY <1>7, EnvironmentGood
<1>8. CASE UNCHANGED vars
  BY <1>8, UntouchedGood DEF vars, coordVars, responderVars
<1> QED
  BY <1>2, <1>3, <1>4, <1>5, <1>6, <1>7, <1>8 DEF Next

\* The same as one formula, for the temporal step.
LEMMA PledgesKept == Reliable /\ PledgeInv /\ [Next]_vars => PledgeInv'
BY NextPledges

\* What the aggregate counts on is a pledge.
LEMMA ReceiverClaimed ==
    ASSUME PledgeInv, NEW s \in Subject, handshakes[s].receiver # None
    PROVE  /\ handshakes[s].receiver \in Instance
           /\ Claimed(s, handshakes[s].receiver)
           /\ Pledge(s, handshakes[s].receiver, 0) /\ 0 \in Chain(handshakes[s].receiver)
<1>1. handshakes[s] \in Initiator /\ Conversation(s)
  BY DEF PledgeInv, Inv, TypeOK, CoordTypeOK
<1>2. handshakes[s].receiver \in Instance
  BY <1>1 DEF Initiator, InitiatorRecord
<1>3. Claimed(s, handshakes[s].receiver)
  BY <1>1 DEF Initiator, InitiatorRecord, Conversation, Claimed, With
<1>4. 0 \in Chain(handshakes[s].receiver)
  <2>1. uplink[handshakes[s].receiver] \in Seq(Envelope)
    BY <1>2 DEF PledgeInv, Inv, TypeOK, RespondersTypeOK
  <2>2. Len(uplink[handshakes[s].receiver]) \in Nat
    BY <2>1
  <2> QED
    BY <2>2 DEF Chain
<1> QED
  BY <1>2, <1>3, <1>4 DEF Pledge

\* The chain separates the subjects of an instance.
LEMMA PledgeIsExclusive == PledgeInv => OneSubjectPerReceiver
<1> SUFFICES ASSUME PledgeInv, NEW s \in Subject, NEW t \in Subject, s # t,
                    handshakes[s].receiver # None, handshakes[s].receiver = handshakes[t].receiver
             PROVE  FALSE
  BY DEF OneSubjectPerReceiver
<1>1. PICK i \in Instance : i = handshakes[s].receiver
  BY ReceiverClaimed
<1>2. Pledge(s, i, 0) /\ Pledge(t, i, 0) /\ 0 \in Chain(i)
  BY <1>1, ReceiverClaimed
<1>3. Exclusive(s, t, i)
  BY DEF PledgeInv, Chained
<1>4. PICK l \in Chain(i) : 0 < l /\ l < 0
  BY <1>2, <1>3 DEF Exclusive
<1>5. Len(uplink[i]) \in Nat
  BY DEF PledgeInv, Inv, TypeOK, RespondersTypeOK
<1> QED
  BY <1>4, <1>5 DEF Chain

\* A confirmed claim is backed by the instance, or by a REVOKE not routed yet.
LEMMA PledgeIsHeld == PledgeInv => ConfirmedIsHeld
<1> SUFFICES ASSUME PledgeInv, NEW s \in Subject, handshakes[s].state = "CONFIRMED"
             PROVE  \/ inst[handshakes[s].receiver].active = s
                    \/ Env("REVOKE", s, handshakes[s].receiver, handshakes[s].epoch)
                          \in Elements(uplink[handshakes[s].receiver])
  BY DEF ConfirmedIsHeld
<1>0. /\ handshakes[s] \in Initiator /\ Conversation(s) /\ RespondersTypeOK /\ UpCovered
  BY DEF PledgeInv, Inv, TypeOK, CoordTypeOK, Covered
<1>1. handshakes[s].receiver # None /\ handshakes[s].epoch = epochs[s]
  BY <1>0 DEF Initiator, InitiatorRecord, Conversation
<1>2. PICK i \in Instance : i = handshakes[s].receiver
  BY <1>1, ReceiverClaimed
<1>3. Claimed(s, i) /\ Pledge(s, i, 0) /\ 0 \in Chain(i)
  BY <1>1, <1>2, ReceiverClaimed
<1>4. Lawful(s, i) /\ Backed(s, i)
  BY DEF PledgeInv, Chained
<1>5. ~Reserves(s, i) /\ ~Said(s, i, {"CANCEL_ACK"})
  <2>1. With(s, i, {"CONFIRMED"}) /\ ~Releasing(s) /\ Wanted(s, i)
    BY <1>2, <1>3 DEF With, Releasing, Wanted
  <2> QED
    BY <1>4, <2>1 DEF Lawful
<1>6. CASE Pledged(s, i)
  BY <1>2, <1>5, <1>6 DEF Pledged, Holds
<1>7. CASE ~Pledged(s, i)
  <2>1. PICK l \in Chain(i) : Says(s, i, l, LetGoWords)
    BY <1>3, <1>4, <1>7 DEF Backed
  <2>2. l \in DOMAIN uplink[i] /\ uplink[i][l] \in Envelope
    BY <1>0, <2>1 DEF Says, RespondersTypeOK
  <2>3. PICK m \in Envelope : m = uplink[i][l]
    BY <2>2
  <2>4. m \in Elements(uplink[i])
    BY <2>2, <2>3 DEF Elements
  <2>5. m.id = s /\ m.epoch = epochs[s] /\ m.status \in LetGoWords /\ m.inst = i
    BY <1>0, <2>1, <2>3, <2>4 DEF Says, About, UpCovered
  <2>6. m.status # "CANCEL_ACK"
    BY <1>5, <2>2, <2>3, <2>5 DEF Said, Says, About
  <2>7. m = Env("REVOKE", s, i, epochs[s])
    BY <2>5, <2>6 DEF LetGoWords, Env, Envelope
  <2> QED
    BY <1>1, <1>2, <2>4, <2>7
<1> QED
  BY <1>6, <1>7

\* One receiver, one subject, and whatever the aggregate counts as linked is held: with
\* reliable instances on a reliable bus, for any number of subjects, instances and
\* attempts in any order.
THEOREM OneSubjectHolds == Reliable => (Spec => []OneSubjectPerReceiver)
<1>1. SUFFICES ASSUME Reliable PROVE Spec => []OneSubjectPerReceiver
  OBVIOUS
<1>2. PledgeInv /\ [Next]_vars => PledgeInv'
  BY <1>1, PledgesKept
<1> QED
  BY <1>2, InitPledges, PledgeIsExclusive, PTL DEF Spec

\* The two sides agree about every confirmed subject, up to a REVOKE on its way.
THEOREM ConfirmedHeldHolds == Reliable => (Spec => []ConfirmedIsHeld)
<1>1. SUFFICES ASSUME Reliable PROVE Spec => []ConfirmedIsHeld
  OBVIOUS
<1>2. PledgeInv /\ [Next]_vars => PledgeInv'
  BY <1>1, PledgesKept
<1> QED
  BY <1>2, InitPledges, PledgeIsHeld, PTL DEF Spec

-----------------------------------------------------------------------------
(* Nobody is forgotten                                                     *)

\* What makes an instance take a subject.
Grants == {"REQUEST", "AWARD"}

\* Envelopes of queue q about attempt e.
Has(q, e, statuses) == \E m \in Elements(q) : m.epoch = e /\ m.status \in statuses

\* A grant comes once per attempt, and never behind the CANCEL that takes it back.
GrantFirst(q, e) == \A j, k \in DOMAIN q :
    j < k /\ q[k].epoch = e /\ q[k].status \in Grants =>
        ~(q[j].epoch = e /\ q[j].status \in Grants \cup {"CANCEL"})

\* What is under way about the current attempt at s, seen from i: who holds or gave
\* back the subject is not granted it again; a bidder was granted nothing; and a
\* release reaches whoever may hold the subject.
Wire(s, i) ==
    /\ Holds(s, i) \/ Said(s, i, {"REVOKE"}) \/ Said(s, i, {"ACK"}) => ~Coming(s, i, Grants)
    /\ Said(s, i, {"REVOKE"}) => ~Holds(s, i)
    /\ Bidding(s, i) => /\ ~Holds(s, i) /\ ~Said(s, i, {"REVOKE"}) /\ ~Said(s, i, {"ACK"})
                        /\ ~Coming(s, i, Grants) /\ ~Coming(s, i, {"CANCEL"})
    /\ With(s, i, {"CANCELLED"}) /\ (Holds(s, i) \/ Coming(s, i, Grants)) =>
          Coming(s, i, {"CANCEL"})
    /\ GrantFirst(net[<<s, i>>], epochs[s])

\* Instance i has been told to give up what it holds of s.
LettingGo(s, i) == \E m \in Elements(net[<<s, i>>]) :
    m.status \in {"CANCEL", "COMPLETE_ACK"} /\ m.epoch >= inst[i].epoch

\* The aggregate knows who holds s, or is about to be told, or told him to let go.
Accounted(s, i) == inst[i].active = s =>
    \/ With(s, i, {"CONFIRMED"}) /\ Holds(s, i)
    \/ Env("ACK", s, i, inst[i].epoch) \in Elements(uplink[i])
    \/ LettingGo(s, i)

\* A round waits for somebody: it is settled with the last answer.
Undecided(s) == elections[s].candidates # {} => elections[s].silent # {}

\* Every subject is kept track of.
Tracked ==
    /\ \A s \in Subject : Conversation(s) /\ Undecided(s)
    /\ \A s \in Subject, i \in Instance : Wire(s, i) /\ Accounted(s, i)

HolderInv == Inv /\ Covered /\ Tracked

\* Reading and appending, as sets.
LEMMA QueueExact ==
    ASSUME NEW q \in Seq(Envelope), NEW m \in Envelope
    PROVE  /\ Elements(Append(q, m)) = Elements(q) \cup {m}
           /\ q # <<>> => Elements(q) = Elements(Tail(q)) \cup {Head(q)}
<1>1. Elements(Append(q, m)) = Elements(q) \cup {m}
  <2>1. /\ DOMAIN q = 1 .. Len(q) /\ Len(q) \in Nat
        /\ DOMAIN Append(q, m) = 1 .. Len(q) + 1
        /\ \A k \in 1 .. Len(q) : Append(q, m)[k] = q[k]
        /\ Append(q, m)[Len(q) + 1] = m
    BY Positions
  <2>2. \A k \in 1 .. Len(q) + 1 : k \in 1 .. Len(q) \/ k = Len(q) + 1
    BY <2>1
  <2>3. \A k \in 1 .. Len(q) : k \in 1 .. Len(q) + 1
    BY <2>1
  <2>4. Len(q) + 1 \in 1 .. Len(q) + 1
    BY <2>1
  <2> QED
    BY <2>1, <2>2, <2>3, <2>4 DEF Elements
<1>2. ASSUME q # <<>> PROVE Elements(q) = Elements(Tail(q)) \cup {Head(q)}
  <2>1. /\ DOMAIN q = 1 .. Len(q) /\ Len(q) \in Nat /\ Len(q) >= 1
        /\ Head(q) = q[1]
        /\ DOMAIN Tail(q) = 1 .. Len(q) - 1
        /\ \A k \in 1 .. Len(q) - 1 : Tail(q)[k] = q[k + 1]
    BY <1>2, TailPositions
  <2>2. \A k \in 1 .. Len(q) : k = 1 \/ (k - 1 \in 1 .. Len(q) - 1 /\ (k - 1) + 1 = k)
    BY <2>1
  <2>3. \A k \in 1 .. Len(q) - 1 : k + 1 \in 1 .. Len(q)
    BY <2>1
  <2>4. 1 \in 1 .. Len(q)
    BY <2>1
  <2>5. Elements(q) \subseteq Elements(Tail(q)) \cup {Head(q)}
    <3> SUFFICES ASSUME NEW k \in 1 .. Len(q) PROVE q[k] \in Elements(Tail(q)) \cup {Head(q)}
      BY <2>1 DEF Elements
    <3>1. k = 1 \/ (k - 1 \in 1 .. Len(q) - 1 /\ (k - 1) + 1 = k)
      BY <2>2
    <3>2. k - 1 \in 1 .. Len(q) - 1 => Tail(q)[k - 1] = q[(k - 1) + 1]
      BY <2>1
    <3> QED
      BY <2>1, <3>1, <3>2 DEF Elements
  <2>6. Elements(Tail(q)) \cup {Head(q)} \subseteq Elements(q)
    BY <2>1, <2>3, <2>4 DEF Elements
  <2> QED
    BY <2>5, <2>6
<1> QED
  BY <1>1, <1>2

\* The order of grants survives reading, and behind a grant or a CANCEL there is none.
LEMMA GrantFirstRead ==
    ASSUME NEW q \in Seq(Envelope), q # <<>>, NEW e, GrantFirst(q, e)
    PROVE  /\ GrantFirst(Tail(q), e)
           /\ Head(q).epoch = e /\ Head(q).status \in Grants \cup {"CANCEL"} =>
                 ~Has(Tail(q), e, Grants)
<1>1. /\ DOMAIN q = 1 .. Len(q) /\ Len(q) \in Nat /\ Len(q) >= 1
      /\ Head(q) = q[1]
      /\ DOMAIN Tail(q) = 1 .. Len(q) - 1
      /\ \A k \in 1 .. Len(q) - 1 : Tail(q)[k] = q[k + 1]
  BY TailPositions
<1>2. \A k \in 1 .. Len(q) - 1 : k \in Nat /\ k + 1 \in 1 .. Len(q) /\ 1 < k + 1
  BY <1>1
<1>3. 1 \in 1 .. Len(q)
  BY <1>1
<1>4. \A j, k \in 1 .. Len(q) - 1 : j < k => j + 1 < k + 1
  BY <1>1
<1>5. GrantFirst(Tail(q), e)
  BY <1>1, <1>2, <1>4 DEF GrantFirst
<1>6. ASSUME Head(q).epoch = e, Head(q).status \in Grants \cup {"CANCEL"}, Has(Tail(q), e, Grants)
      PROVE  FALSE
  <2>1. PICK k \in 1 .. Len(q) - 1 : Tail(q)[k].epoch = e /\ Tail(q)[k].status \in Grants
    BY <1>1, <1>6 DEF Has, Elements
  <2>2. q[k + 1].epoch = e /\ q[k + 1].status \in Grants
    BY <1>1, <2>1
  <2> QED
    BY <1>1, <1>2, <1>3, <1>6, <2>2 DEF GrantFirst
<1> QED
  BY <1>5, <1>6

\* It survives appending, a grant where none is under way and nothing is taken back.
LEMMA GrantFirstSent ==
    ASSUME NEW q \in Seq(Envelope), NEW m \in Envelope, NEW e, GrantFirst(q, e),
           m.epoch = e /\ m.status \in Grants => ~Has(q, e, Grants \cup {"CANCEL"})
    PROVE  GrantFirst(Append(q, m), e)
<1>1. /\ DOMAIN q = 1 .. Len(q) /\ Len(q) \in Nat
      /\ DOMAIN Append(q, m) = 1 .. Len(q) + 1
      /\ \A k \in 1 .. Len(q) : Append(q, m)[k] = q[k]
      /\ Append(q, m)[Len(q) + 1] = m
  BY Positions
<1> SUFFICES ASSUME NEW j \in 1 .. Len(q) + 1, NEW k \in 1 .. Len(q) + 1, j < k,
                    Append(q, m)[k].epoch = e, Append(q, m)[k].status \in Grants,
                    Append(q, m)[j].epoch = e, Append(q, m)[j].status \in Grants \cup {"CANCEL"}
             PROVE  FALSE
  BY <1>1 DEF GrantFirst
<1>2. j \in 1 .. Len(q) /\ Append(q, m)[j] = q[j]
  BY <1>1
<1>3. CASE k \in 1 .. Len(q)
  BY <1>1, <1>2, <1>3 DEF GrantFirst
<1>4. CASE k = Len(q) + 1
  BY <1>1, <1>2, <1>4 DEF Has, Elements
<1> QED
  BY <1>1, <1>3, <1>4

\* The views as sets, before and after a step.
LEMMA WireViews ==
    ASSUME NEW s, NEW i, NEW statuses
    PROVE  /\ Coming(s, i, statuses) <=> Has(net[<<s, i>>], epochs[s], statuses)
           /\ Coming(s, i, statuses)' <=> Has(net'[<<s, i>>], epochs'[s], statuses)
           /\ Said(s, i, statuses) <=> \E m \in Elements(uplink[i]) : About(s, m, statuses)
           /\ Said(s, i, statuses)' <=>
                 \E m \in Elements(uplink'[i]) : m.id = s /\ m.epoch = epochs'[s] /\ m.status \in statuses
BY DEF Coming, Has, Said, Says, About, Elements

\* Sending takes nothing back, and adds at most one envelope to a conversation.
LEMMA NothingUnsaid ==
    ASSUME CoordTypeOK, NEW out \in SUBSET Envelope, Send(out), NEW s \in Subject, NEW i \in Instance
    PROVE  Elements(net[<<s, i>>]) \subseteq Elements(net'[<<s, i>>])
<1>1. net[<<s, i>>] \in Seq(Envelope)
  BY DEF CoordTypeOK
<1>2. CASE net'[<<s, i>>] = net[<<s, i>>]
  BY <1>2
<1>3. ASSUME NEW m \in out, net'[<<s, i>>] = Append(net[<<s, i>>], m)
      PROVE  Elements(net[<<s, i>>]) \subseteq Elements(net'[<<s, i>>])
  <2>1. m \in Envelope
    OBVIOUS
  <2> QED
    BY <1>1, <1>3, <2>1, QueueExact
<1>4. CASE net'[<<s, i>>] # net[<<s, i>>]
  <2>1. PICK m \in out : net'[<<s, i>>] = Append(net[<<s, i>>], m)
    BY <1>4, SendAppends
  <2> QED
    BY <1>3, <2>1
<1> QED
  BY <1>2, <1>4

\* A step of instance i, seen from s: only a grant makes it a holder and lets it say
\* so, only a holder revokes, and the CANCEL it reads is obeyed.
LEMMA WireLocal ==
    ASSUME NEW s, NEW i, Wire(s, i), UNCHANGED <<handshakes, elections, epochs>>,
           GrantFirst(net'[<<s, i>>], epochs[s]),
           Coming(s, i, Grants)' => Coming(s, i, Grants),
           Coming(s, i, {"CANCEL"})' => Coming(s, i, {"CANCEL"}),
           Coming(s, i, {"CANCEL"}) =>
               Coming(s, i, {"CANCEL"})' \/ (~Holds(s, i)' /\ ~Coming(s, i, Grants)'),
           Holds(s, i)' => Holds(s, i) \/ (Coming(s, i, Grants) /\ ~Coming(s, i, Grants)'),
           Said(s, i, {"ACK"})' =>
               Said(s, i, {"ACK"}) \/ (Coming(s, i, Grants) /\ ~Coming(s, i, Grants)'),
           Said(s, i, {"REVOKE"})' =>
               Said(s, i, {"REVOKE"}) \/ (Holds(s, i) /\ ~Holds(s, i)')
    PROVE  Wire(s, i)'
<1>1. (Bidding(s, i)' <=> Bidding(s, i)) /\ (With(s, i, {"CANCELLED"})' <=> With(s, i, {"CANCELLED"}))
  BY ViewKept
<1>2. GrantFirst(net[<<s, i>>], epochs[s])'
  OBVIOUS
<1> QED
  BY <1>1, <1>2 DEF Wire

\* A step of the aggregate, seen from s and i: only a bidder is granted the subject,
\* and nobody bids for what he is told to let go.
LEMMA WireMoves ==
    ASSUME CoordTypeOK, NEW s \in Subject, NEW i \in Instance, Wire(s, i),
           inst'[i] = inst[i], epochs'[s] = epochs[s],
           \A statuses : Said(s, i, statuses)' => Said(s, i, statuses),
           Bidding(s, i)' => Bidding(s, i),
           With(s, i, {"CANCELLED"})' => With(s, i, {"CANCELLED"}) \/ Coming(s, i, {"CANCEL"})',
           \/ net'[<<s, i>>] = net[<<s, i>>]
           \/ \E m \in Envelope :
                 /\ net'[<<s, i>>] = Append(net[<<s, i>>], m)
                 /\ m.epoch = epochs[s] /\ m.status \in Grants =>
                       Bidding(s, i) /\ ~Bidding(s, i)' /\ ~With(s, i, {"CANCELLED"})'
                 /\ m.epoch = epochs[s] /\ m.status = "CANCEL" => ~Bidding(s, i)'
    PROVE  Wire(s, i)'
<1>1. Holds(s, i)' <=> Holds(s, i)
  BY DEF Holds
<1>2. CASE net'[<<s, i>>] = net[<<s, i>>]
  <2>1. \A statuses : Coming(s, i, statuses)' <=> Coming(s, i, statuses)
    BY <1>2 DEF Coming
  <2>2. GrantFirst(net[<<s, i>>], epochs[s])'
    BY <1>2 DEF Wire
  <2> QED
    BY <1>1, <2>1, <2>2 DEF Wire
<1>3. ASSUME NEW m \in Envelope, net'[<<s, i>>] = Append(net[<<s, i>>], m),
             m.epoch = epochs[s] /\ m.status \in Grants =>
                Bidding(s, i) /\ ~Bidding(s, i)' /\ ~With(s, i, {"CANCELLED"})',
             m.epoch = epochs[s] /\ m.status = "CANCEL" => ~Bidding(s, i)'
      PROVE  Wire(s, i)'
  <2>1. net[<<s, i>>] \in Seq(Envelope)
    BY DEF CoordTypeOK
  <2>2. Elements(net'[<<s, i>>]) = Elements(net[<<s, i>>]) \cup {m}
    BY <1>3, <2>1, QueueExact
  <2>3. \A statuses : Coming(s, i, statuses)' <=>
           Coming(s, i, statuses) \/ (m.epoch = epochs[s] /\ m.status \in statuses)
    BY <2>2, WireViews DEF Has
  <2>4. m.epoch = epochs[s] /\ m.status \in Grants =>
           ~Has(net[<<s, i>>], epochs[s], Grants \cup {"CANCEL"})
    <3>1. Has(net[<<s, i>>], epochs[s], Grants \cup {"CANCEL"}) =>
             Has(net[<<s, i>>], epochs[s], Grants) \/ Has(net[<<s, i>>], epochs[s], {"CANCEL"})
      BY DEF Has
    <3> QED
      BY <1>3, <3>1, WireViews DEF Wire
  <2>5. GrantFirst(net[<<s, i>>], epochs[s])'
    <3>1. GrantFirst(net[<<s, i>>], epochs[s])
      BY DEF Wire
    <3>2. GrantFirst(Append(net[<<s, i>>], m), epochs[s])
      BY <2>1, <2>4, <3>1, GrantFirstSent
    <3> QED
      BY <1>3, <3>2
  <2>6. m.status \in Grants => m.status # "CANCEL"
    BY DEF Grants
  <2> QED
    BY <1>1, <1>3, <2>3, <2>5, <2>6 DEF Wire
<1> QED
  BY <1>2, <1>3

\* What instance i does with an envelope: nothing it holds of other subjects changes; it
\* takes a subject only on a grant, and says so; and it obeys a CANCEL or COMPLETE_ACK.
Obeys(i, m) ==
    /\ \A j \in Instance \ {i} : inst'[j] = inst[j] /\ uplink'[j] = uplink[j]
    /\ \A s \in Subject \ {m.id} : inst'[i].active = s =>
          inst[i].active = s /\ inst'[i].epoch = inst[i].epoch
    /\ inst'[i].active = m.id =>
          \/ inst[i].active = m.id /\ inst'[i].epoch = inst[i].epoch
          \/ /\ m.status \in Grants /\ inst'[i].epoch = m.epoch
             /\ uplink'[i] = Append(uplink[i], Env("ACK", m.id, i, m.epoch))
    /\ m.status \in {"CANCEL", "COMPLETE_ACK"} /\ inst'[i].active = m.id => inst'[i].epoch > m.epoch
    /\ \/ uplink'[i] = uplink[i]
       \/ \E st \in ToAggregate \ {"REVOKE"} :
             /\ uplink'[i] = Append(uplink[i], Env(st, m.id, i, m.epoch))
             /\ st = "ACK" => m.status \in Grants

\* Every handler of the responder.
LEMMA ReadsObey ==
    ASSUME RespondersTypeOK, NEW i \in Instance, NEW m \in Envelope,
           \/ OnRequest(i, m) \/ OnRequestBid(i, m) \/ OnAward(i, m)
           \/ OnCancel(i, m) \/ OnCompleteAck(i, m)
    PROVE  Obeys(i, m)
<1> DEFINE held == inst[i]
<1>1. /\ inst \in [Instance -> Holding] /\ uplink \in [Instance -> Seq(Envelope)]
      /\ m.id \in Subject /\ m.epoch \in Nat /\ None \notin Subject
      /\ held.active \in Subject \cup {None} /\ held.epoch \in Nat
      /\ held \in Holding
  BY HandshakeAssumption DEF RespondersTypeOK, Envelope, Holding
<1>2. ASSUME NEW holding, NEW st \in ToAggregate \ {"REVOKE"}, Answer(i, m, holding, st),
             st = "ACK" => m.status \in Grants,
             \A s \in Subject \ {m.id} : holding.active = s =>
                 held.active = s /\ holding.epoch = held.epoch,
             holding.active = m.id =>
                 \/ held.active = m.id /\ holding.epoch = held.epoch
                 \/ m.status \in Grants /\ holding.epoch = m.epoch /\ st = "ACK",
             m.status \in {"CANCEL", "COMPLETE_ACK"} /\ holding.active = m.id => holding.epoch > m.epoch
      PROVE  Obeys(i, m)
  <2>1. /\ inst'[i] = holding /\ uplink'[i] = Append(uplink[i], Env(st, m.id, i, m.epoch))
        /\ \A j \in Instance \ {i} : inst'[j] = inst[j] /\ uplink'[j] = uplink[j]
    BY <1>1, <1>2 DEF Answer
  <2> HIDE DEF held
  <2> QED
    BY <1>2, <2>1 DEF Obeys, held
<1>3. ASSUME NEW holding, Read(i, m, holding),
             \A s \in Subject : holding.active = s => held.active = s /\ holding.epoch = held.epoch,
             m.status \in {"CANCEL", "COMPLETE_ACK"} /\ holding.active = m.id => holding.epoch > m.epoch
      PROVE  Obeys(i, m)
  <2>1. /\ inst'[i] = holding /\ uplink' = uplink
        /\ \A j \in Instance \ {i} : inst'[j] = inst[j]
    BY <1>1, <1>3 DEF Read
  <2> HIDE DEF held
  <2> QED
    BY <1>1, <1>3, <2>1 DEF Obeys, held
<1>4. /\ {"ACK", "NACK", "BID", "CANCEL_ACK"} \subseteq ToAggregate \ {"REVOKE"}
      /\ {"REQUEST", "AWARD"} = Grants
  BY DEF ToAggregate, Grants
<1>5. /\ WithoutActive(i, m).active \in {held.active, None}
      /\ WithoutActive(i, m).active # None => WithoutActive(i, m) = held
      /\ WithoutActive(i, m).active = m.id => held.epoch > m.epoch
      /\ WithoutActive(i, m) \in Holding
  <2>1. CASE held.active = m.id /\ held.epoch <= m.epoch
    BY <1>1, <2>1 DEF WithoutActive, Holding
  <2>2. CASE ~(held.active = m.id /\ held.epoch <= m.epoch)
    BY <1>1, <2>2 DEF WithoutActive
  <2> QED
    BY <2>1, <2>2
<1>6. CASE OnRequest(i, m)
  <2> DEFINE taken == [active |-> m.id, epoch |-> m.epoch, reserved |-> {}]
             again == [inst[i] EXCEPT !.epoch = m.epoch]
  <2>1. taken.active = m.id /\ taken.epoch = m.epoch
        /\ again.active = held.active /\ again.epoch = m.epoch
    BY <1>1 DEF Holding
  <2>2. m.status = "REQUEST"
    BY <1>6 DEF OnRequest
  <2>3. CASE Answer(i, m, taken, "ACK")
    <3> HIDE DEF taken
    <3> QED
      BY <1>1, <1>2, <1>4, <2>1, <2>2, <2>3
  <2>4. CASE held.active = m.id /\ Answer(i, m, again, "ACK")
    <3> HIDE DEF again
    <3> QED
      BY <1>1, <1>2, <1>4, <2>1, <2>2, <2>4
  <2>5. CASE held.active # m.id /\ Answer(i, m, held, "NACK")
    BY <1>1, <1>2, <1>4, <2>2, <2>5
  <2>6. CASE Read(i, m, held)
    BY <1>3, <2>2, <2>6
  <2> QED
    BY <1>6, <2>3, <2>4, <2>5, <2>6 DEF OnRequest
<1>7. CASE OnRequestBid(i, m)
  <2> DEFINE offer == [inst[i] EXCEPT !.reserved = {<<m.id, m.epoch>>}]
  <2>1. offer.active = held.active /\ offer.epoch = held.epoch
    BY <1>1 DEF Holding
  <2>2. m.status = "REQUEST_BID"
    BY <1>7 DEF OnRequestBid
  <2>3. CASE Answer(i, m, offer, "BID")
    <3> HIDE DEF offer
    <3> QED
      BY <1>1, <1>2, <1>4, <2>1, <2>2, <2>3
  <2>4. CASE Answer(i, m, held, "NACK")
    BY <1>1, <1>2, <1>4, <2>2, <2>4
  <2> QED
    BY <1>7, <2>3, <2>4 DEF OnRequestBid
<1>8. CASE OnAward(i, m)
  <2> DEFINE taken == [active |-> m.id, epoch |-> m.epoch, reserved |-> {}]
  <2>1. taken.active = m.id /\ taken.epoch = m.epoch
    OBVIOUS
  <2>2. m.status = "AWARD"
    BY <1>8 DEF OnAward
  <2>3. CASE Answer(i, m, taken, "ACK")
    <3> HIDE DEF taken
    <3> QED
      BY <1>1, <1>2, <1>4, <2>1, <2>2, <2>3
  <2>4. CASE Answer(i, m, held, "NACK")
    BY <1>1, <1>2, <1>4, <2>2, <2>4
  <2> QED
    BY <1>8, <2>3, <2>4 DEF OnAward
<1>9. CASE OnCancel(i, m)
  <2> DEFINE left == [WithoutActive(i, m) EXCEPT
                        !.reserved = {r \in @ : r[1] # m.id \/ r[2] > m.epoch}]
  <2>1. left.active = WithoutActive(i, m).active /\ left.epoch = WithoutActive(i, m).epoch
    BY <1>5 DEF Holding
  <2>2. Answer(i, m, left, "CANCEL_ACK") /\ m.status = "CANCEL"
    BY <1>9 DEF OnCancel
  <2> HIDE DEF left
  <2>3. ASSUME NEW s \in Subject, left.active = s
        PROVE  held.active = s /\ left.epoch = held.epoch /\ (s = m.id => held.epoch > m.epoch)
    BY <1>1, <1>5, <2>1, <2>3
  <2> HIDE DEF held
  <2> QED
    BY <1>1, <1>2, <1>4, <2>2, <2>3
<1>10. CASE OnCompleteAck(i, m)
  <2>1. Read(i, m, WithoutActive(i, m)) /\ m.status = "COMPLETE_ACK"
    BY <1>10 DEF OnCompleteAck
  <2>2. ASSUME NEW s \in Subject, WithoutActive(i, m).active = s
        PROVE  /\ held.active = s /\ WithoutActive(i, m).epoch = held.epoch
               /\ s = m.id => held.epoch > m.epoch
    BY <1>1, <1>5, <2>2
  <2> HIDE DEF held
  <2> QED
    BY <1>1, <1>3, <2>1, <2>2
<1> QED
  BY <1>6, <1>7, <1>8, <1>9, <1>10

\* A step of the instances leaves both dicts alone.
LEMMA DictsAlone ==
    ASSUME UNCHANGED <<handshakes, elections, epochs>>, NEW s, Conversation(s), Undecided(s)
    PROVE  Conversation(s)' /\ Undecided(s)'
BY DEF Conversation, Undecided

\* Where nothing is touched, all stays.
LEMMA WireAlone ==
    ASSUME NEW s, NEW i, Wire(s, i), Accounted(s, i),
           UNCHANGED <<handshakes[s], elections[s], epochs[s], net[<<s, i>>], uplink[i], inst[i]>>
    PROVE  Wire(s, i)' /\ Accounted(s, i)'
<1>1. /\ (Holds(s, i)' <=> Holds(s, i)) /\ (Bidding(s, i)' <=> Bidding(s, i))
      /\ \A states : With(s, i, states)' <=> With(s, i, states)
      /\ \A statuses : Coming(s, i, statuses)' <=> Coming(s, i, statuses)
      /\ \A statuses : Said(s, i, statuses)' <=> Said(s, i, statuses)
      /\ LettingGo(s, i)' <=> LettingGo(s, i)
  BY DEF Holds, Bidding, With, Coming, Said, Says, About, LettingGo
<1> QED
  BY <1>1 DEF Wire, Accounted

\* An instance reads what it was sent.
LEMMA ReceiveAccounts ==
    ASSUME HolderInv, NEW i \in Instance, Receive(i)
    PROVE  Tracked'
<1>0. /\ CoordTypeOK /\ RespondersTypeOK /\ DownCovered
      /\ \A s \in Subject : Conversation(s) /\ Undecided(s)
      /\ \A s \in Subject, j \in Instance : Wire(s, j) /\ Accounted(s, j)
  BY DEF HolderInv, Tracked, Inv, TypeOK, Covered
<1>1. PICK t \in Subject :
         /\ net[<<t, i>>] # <<>>
         /\ net' = [net EXCEPT ![<<t, i>>] = Tail(net[<<t, i>>])]
         /\ UNCHANGED <<handshakes, elections, epochs, cooling>>
         /\ LET m == Head(net[<<t, i>>])
            IN  \/ OnRequest(i, m) \/ OnRequestBid(i, m) \/ OnAward(i, m)
                \/ OnCancel(i, m) \/ OnCompleteAck(i, m)
  BY DEF Receive
<1>2. PICK m \in Envelope : m = Head(net[<<t, i>>]) /\ m.id = t
  BY <1>0, <1>1, TailComes
<1>3. Obeys(i, m)
  BY <1>0, <1>1, <1>2, ReadsObey
<1>4. /\ uplink[i] \in Seq(Envelope) /\ net[<<t, i>>] \in Seq(Envelope)
      /\ net'[<<t, i>>] = Tail(net[<<t, i>>])
      /\ \A s \in Subject, j \in Instance : s # t \/ j # i => net'[<<s, j>>] = net[<<s, j>>]
      /\ m.epoch \in Nat /\ inst[i].epoch \in Nat
  BY <1>0, <1>1 DEF CoordTypeOK, RespondersTypeOK, Envelope, Holding
<1>5. \/ Elements(uplink'[i]) = Elements(uplink[i])
      \/ \E st \in ToAggregate \ {"REVOKE"} :
            /\ Elements(uplink'[i]) = Elements(uplink[i]) \cup {Env(st, t, i, m.epoch)}
            /\ st = "ACK" => m.status \in Grants
  <2>1. CASE uplink'[i] = uplink[i]
    BY <2>1
  <2>2. ASSUME NEW st \in ToAggregate \ {"REVOKE"},
               uplink'[i] = Append(uplink[i], Env(st, t, i, m.epoch)),
               st = "ACK" => m.status \in Grants
        PROVE  \E u \in ToAggregate \ {"REVOKE"} :
                  /\ Elements(uplink'[i]) = Elements(uplink[i]) \cup {Env(u, t, i, m.epoch)}
                  /\ u = "ACK" => m.status \in Grants
    <3>1. Env(st, t, i, m.epoch) \in Envelope
      BY <1>4, EnvelopeType
    <3>2. Elements(uplink'[i]) = Elements(uplink[i]) \cup {Env(st, t, i, m.epoch)}
      BY <1>4, <2>2, <3>1, QueueExact
    <3> QED
      BY <2>2, <3>2
  <2> QED
    BY <1>2, <1>3, <2>1, <2>2 DEF Obeys
<1>6. \A s \in Subject :
         /\ Said(s, i, {"ACK"})' => Said(s, i, {"ACK"}) \/ About(s, m, Grants)
         /\ Said(s, i, {"REVOKE"})' => Said(s, i, {"REVOKE"})
         /\ \A n \in Elements(uplink[i]) : n \in Elements(uplink'[i])
  <2> TAKE s \in Subject
  <2>1. \A n \in Elements(uplink'[i]) : n \notin Elements(uplink[i]) =>
           n.status # "REVOKE" /\ n.id = t /\ n.epoch = m.epoch
              /\ (n.status = "ACK" => m.status \in Grants)
    BY <1>5 DEF Env
  <2>2. \A n \in Elements(uplink[i]) : n \in Elements(uplink'[i])
    BY <1>5
  <2>3. ASSUME NEW statuses, Said(s, i, statuses)'
        PROVE  \/ Said(s, i, statuses)
               \/ \E n \in Elements(uplink'[i]) \ Elements(uplink[i]) :
                     n.id = s /\ n.epoch = epochs[s] /\ n.status \in statuses
    <3>1. epochs'[s] = epochs[s]
      BY <1>1
    <3> QED
      BY <2>3, <3>1, WireViews DEF About
  <2>4. Said(s, i, {"ACK"})' => Said(s, i, {"ACK"}) \/ About(s, m, Grants)
    <3> SUFFICES ASSUME Said(s, i, {"ACK"})', ~Said(s, i, {"ACK"}) PROVE About(s, m, Grants)
      OBVIOUS
    <3>1. PICK n \in Elements(uplink'[i]) \ Elements(uplink[i]) :
             n.id = s /\ n.epoch = epochs[s] /\ n.status \in {"ACK"}
      BY <2>3
    <3> QED
      BY <1>2, <2>1, <3>1 DEF About
  <2>5. Said(s, i, {"REVOKE"})' => Said(s, i, {"REVOKE"})
    <3> SUFFICES ASSUME Said(s, i, {"REVOKE"})', ~Said(s, i, {"REVOKE"}) PROVE FALSE
      OBVIOUS
    <3>1. PICK n \in Elements(uplink'[i]) \ Elements(uplink[i]) : n.status \in {"REVOKE"}
      BY <2>3
    <3> QED
      BY <2>1, <3>1
  <2> QED
    BY <2>2, <2>4, <2>5
<1>7. ASSUME NEW s \in Subject \ {t} PROVE Wire(s, i)' /\ Accounted(s, i)'
  <2>1. Wire(s, i) /\ Accounted(s, i) /\ ~About(s, m, Grants) /\ net'[<<s, i>>] = net[<<s, i>>]
    BY <1>0, <1>2, <1>4 DEF About
  <2>2. inst'[i].active = s => inst[i].active = s /\ inst'[i].epoch = inst[i].epoch
    BY <1>2, <1>3 DEF Obeys
  <2>3. \A statuses : Coming(s, i, statuses)' <=> Coming(s, i, statuses)
    BY <1>1, <2>1 DEF Coming
  <2>4. Holds(s, i)' => Holds(s, i)
    BY <1>1, <2>2 DEF Holds
  <2>5. Wire(s, i)'
    <3>1. GrantFirst(net'[<<s, i>>], epochs[s])
      BY <2>1 DEF Wire
    <3> QED
      BY <1>1, <1>6, <2>1, <2>3, <2>4, <3>1, WireLocal
  <2>6. Accounted(s, i)'
    <3> SUFFICES ASSUME inst'[i].active = s
                 PROVE  \/ With(s, i, {"CONFIRMED"})' /\ Holds(s, i)'
                        \/ Env("ACK", s, i, inst'[i].epoch) \in Elements(uplink'[i])
                        \/ LettingGo(s, i)'
      BY DEF Accounted
    <3>1. (With(s, i, {"CONFIRMED"})' <=> With(s, i, {"CONFIRMED"})) /\ (Holds(s, i)' <=> Holds(s, i))
      BY <1>1, <2>2 DEF With, Holds
    <3>2. LettingGo(s, i)' <=> LettingGo(s, i)
      BY <2>1, <2>2 DEF LettingGo
    <3> QED
      BY <1>6, <2>1, <2>2, <3>1, <3>2 DEF Accounted
  <2> QED
    BY <2>5, <2>6
<1>8. Wire(t, i)' /\ Accounted(t, i)'
  <2> DEFINE q == net[<<t, i>>]
             r == Tail(q)
  <2>1. /\ Wire(t, i) /\ Accounted(t, i) /\ GrantFirst(q, epochs[t])
        /\ Elements(q) = Elements(r) \cup {m}
    BY <1>0, <1>1, <1>2, <1>4, QueueExact DEF Wire
  <2>2. /\ GrantFirst(r, epochs[t])
        /\ About(t, m, Grants \cup {"CANCEL"}) => ~Has(r, epochs[t], Grants)
    BY <1>1, <1>2, <1>4, <2>1, GrantFirstRead DEF About
  <2>3. net'[<<t, i>>] = r /\ epochs'[t] = epochs[t]
    BY <1>1, <1>4
  <2> HIDE DEF q, r
  <2>4. \A statuses : /\ Coming(t, i, statuses) <=> Has(q, epochs[t], statuses)
                      /\ Coming(t, i, statuses)' <=> Has(r, epochs[t], statuses)
    BY <2>3, WireViews DEF q
  <2>5. \A statuses : Has(q, epochs[t], statuses) <=>
                          Has(r, epochs[t], statuses) \/ About(t, m, statuses)
    BY <1>2, <2>1 DEF Has, About
  <2>6. About(t, m, Grants) => Coming(t, i, Grants) /\ ~Coming(t, i, Grants)'
    BY <2>2, <2>4, <2>5 DEF About
  <2>7. Holds(t, i)' => Holds(t, i) \/ About(t, m, Grants)
    BY <1>1, <1>2, <1>3 DEF Holds, Obeys, About
  <2>8. About(t, m, {"CANCEL"}) => ~Holds(t, i)' /\ ~Coming(t, i, Grants)'
    <3> SUFFICES ASSUME About(t, m, {"CANCEL"}) PROVE ~Holds(t, i)' /\ ~Coming(t, i, Grants)'
      OBVIOUS
    <3>1. m.status = "CANCEL" /\ m.epoch = epochs[t]
      BY DEF About
    <3>2. inst'[i].active = t => inst'[i].epoch > m.epoch
      BY <1>2, <1>3, <3>1 DEF Obeys
    <3>3. ~Holds(t, i)'
      BY <1>1, <1>4, <3>1, <3>2 DEF Holds
    <3> QED
      BY <2>2, <2>4, <3>3 DEF About
  <2>9. Wire(t, i)'
    BY <1>1, <1>6, <2>1, <2>2, <2>3, <2>4, <2>5, <2>6, <2>7, <2>8, WireLocal
  <2>10. Accounted(t, i)'
    <3> SUFFICES ASSUME inst'[i].active = t
                 PROVE  \/ With(t, i, {"CONFIRMED"})' /\ Holds(t, i)'
                        \/ Env("ACK", t, i, inst'[i].epoch) \in Elements(uplink'[i])
                        \/ LettingGo(t, i)'
      BY DEF Accounted
    <3>1. CASE inst[i].active = t /\ inst'[i].epoch = inst[i].epoch
      <4>1. (With(t, i, {"CONFIRMED"})' <=> With(t, i, {"CONFIRMED"})) /\ (Holds(t, i)' <=> Holds(t, i))
        BY <1>1, <3>1 DEF With, Holds
      <4>2. LettingGo(t, i) => LettingGo(t, i)'
        <5> SUFFICES ASSUME NEW n \in Elements(q), n.status \in {"CANCEL", "COMPLETE_ACK"},
                            n.epoch >= inst[i].epoch
                     PROVE  LettingGo(t, i)'
          BY DEF LettingGo, q
        <5>1. n # m
          BY <1>2, <1>3, <1>4, <3>1 DEF Obeys
        <5>2. n \in Elements(r)
          BY <2>1, <5>1
        <5> QED
          BY <2>3, <3>1, <5>2 DEF LettingGo
      <4> QED
        BY <1>6, <2>1, <3>1, <4>1, <4>2 DEF Accounted
    <3>2. CASE /\ inst'[i].epoch = m.epoch
               /\ uplink'[i] = Append(uplink[i], Env("ACK", t, i, m.epoch))
      <4>1. Env("ACK", t, i, m.epoch) \in Envelope
        BY <1>4, EnvelopeType DEF ToAggregate
      <4> QED
        BY <1>4, <3>2, <4>1, QueueExact
    <3> QED
      BY <1>2, <1>3, <3>1, <3>2 DEF Obeys
  <2> QED
    BY <2>9, <2>10
<1>9. ASSUME NEW s \in Subject, NEW j \in Instance \ {i} PROVE Wire(s, j)' /\ Accounted(s, j)'
  <2>1. UNCHANGED <<handshakes[s], elections[s], epochs[s], net[<<s, j>>], uplink[j], inst[j]>>
    BY <1>1, <1>3, <1>4 DEF Obeys
  <2> QED
    BY <1>0, <2>1, WireAlone
<1>10. ASSUME NEW s \in Subject PROVE Conversation(s)' /\ Undecided(s)'
  BY <1>0, <1>1, DictsAlone
<1> QED
  BY <1>7, <1>8, <1>9, <1>10 DEF Tracked

\* An instance speaks up by itself: it gives back what it holds, or goes on holding it.
LEMMA AnnounceAccounts ==
    ASSUME HolderInv, NEW i \in Instance, Revoke(i) \/ Complete(i)
    PROVE  Tracked'
<1>0. /\ CoordTypeOK /\ RespondersTypeOK
      /\ \A s \in Subject : Conversation(s) /\ Undecided(s)
      /\ \A s \in Subject, j \in Instance : Wire(s, j) /\ Accounted(s, j)
  BY DEF HolderInv, Tracked, Inv, TypeOK
<1> DEFINE held == inst[i]
           st == IF Revoke(i) THEN "REVOKE" ELSE "COMPLETE"
           w == Env(st, held.active, i, held.epoch)
<1>1. /\ inst \in [Instance -> Holding] /\ uplink \in [Instance -> Seq(Envelope)]
      /\ held.active \in Subject /\ held.epoch \in Nat /\ held \in Holding
      /\ uplink' = [uplink EXCEPT ![i] = Append(uplink[i], w)]
      /\ inst' = [inst EXCEPT ![i] = IF Revoke(i)
                                     THEN [held EXCEPT !.active = None, !.epoch = 0] ELSE held]
      /\ UNCHANGED coordVars
  BY <1>0 DEF Revoke, Complete, Announce, Free, RespondersTypeOK, Holding
<1>2. /\ inst'[i].active = None \/ (inst'[i] = held /\ st # "REVOKE")
      /\ None \notin Subject
  BY <1>1, HandshakeAssumption DEF Holding
<1>3. /\ w \in Envelope /\ w.id = held.active /\ w.epoch = held.epoch /\ w.status = st
      /\ uplink'[i] = Append(uplink[i], w) /\ st # "ACK"
  <2>1. st \in ToAggregate
    BY DEF ToAggregate
  <2> QED
    BY <1>1, <2>1, EnvelopeType DEF Env
<1>4. Elements(uplink'[i]) = Elements(uplink[i]) \cup {w}
  <2> HIDE DEF w
  <2> QED
    BY <1>1, <1>3, QueueExact
<1>5. \A j \in Instance \ {i} : inst'[j] = inst[j] /\ uplink'[j] = uplink[j]
  BY <1>1
<1>6. UNCHANGED <<handshakes, elections, epochs, net>>
  BY <1>1 DEF coordVars
<1> HIDE DEF w, st
<1>7. ASSUME NEW s \in Subject PROVE Wire(s, i)' /\ Accounted(s, i)'
  <2>1. Wire(s, i) /\ Accounted(s, i)
    BY <1>0
  <2>2. \A statuses : Said(s, i, statuses)' <=> Said(s, i, statuses) \/ About(s, w, statuses)
    BY <1>4, <1>6, WireViews DEF About
  <2>3. \A statuses : Coming(s, i, statuses)' <=> Coming(s, i, statuses)
    BY <1>6 DEF Coming
  <2>4. Holds(s, i)' => Holds(s, i)
    BY <1>2, <1>6 DEF Holds
  <2>5. About(s, w, {"REVOKE"}) => Holds(s, i) /\ ~Holds(s, i)'
    BY <1>2, <1>3, <1>6 DEF About, Holds
  <2>6. ~About(s, w, {"ACK"})
    BY <1>3 DEF About
  <2>7. GrantFirst(net'[<<s, i>>], epochs[s])
    BY <1>6, <2>1 DEF Wire
  <2>8. Wire(s, i)'
    BY <1>6, <2>1, <2>2, <2>3, <2>4, <2>5, <2>6, <2>7, WireLocal
  <2>9. Accounted(s, i)'
    <3> SUFFICES ASSUME inst'[i].active = s, inst'[i] = inst[i]
                 PROVE  Accounted(s, i)'
      BY <1>2 DEF Accounted
    <3>1. /\ With(s, i, {"CONFIRMED"})' <=> With(s, i, {"CONFIRMED"})
          /\ Holds(s, i)' <=> Holds(s, i)
          /\ LettingGo(s, i)' <=> LettingGo(s, i)
      BY <1>6 DEF With, Holds, LettingGo
    <3> QED
      BY <1>4, <2>1, <3>1 DEF Accounted
  <2> QED
    BY <2>8, <2>9
<1>8. ASSUME NEW s \in Subject, NEW j \in Instance \ {i} PROVE Wire(s, j)' /\ Accounted(s, j)'
  BY <1>0, <1>5, <1>6, WireAlone
<1>9. ASSUME NEW s \in Subject PROVE Conversation(s)' /\ Undecided(s)'
  BY <1>0, <1>6, DictsAlone
<1> QED
  BY <1>7, <1>8, <1>9 DEF Tracked

\* An instance forgets a reservation, or everything.
LEMMA ForgettingAccounts ==
    ASSUME HolderInv, NEW i \in Instance, ReservationLapses(i) \/ Restart(i)
    PROVE  Tracked'
<1>0. /\ RespondersTypeOK
      /\ \A s \in Subject : Conversation(s) /\ Undecided(s)
      /\ \A s \in Subject, j \in Instance : Wire(s, j) /\ Accounted(s, j)
  BY DEF HolderInv, Tracked, Inv, TypeOK
<1>1. /\ UNCHANGED <<handshakes, elections, epochs, net, uplink>>
      /\ \A j \in Instance \ {i} : inst'[j] = inst[j]
      /\ inst'[i].active # None => inst'[i].active = inst[i].active /\ inst'[i].epoch = inst[i].epoch
      /\ None \notin Subject
  BY <1>0, HandshakeAssumption
     DEF ReservationLapses, Restart, coordVars, RespondersTypeOK, Holding, Idle
<1>2. ASSUME NEW s \in Subject PROVE Wire(s, i)' /\ Accounted(s, i)'
  <2>1. Wire(s, i) /\ Accounted(s, i)
    BY <1>0
  <2>2. \A statuses : Said(s, i, statuses)' <=> Said(s, i, statuses)
    BY <1>1 DEF Said, Says, About
  <2>3. \A statuses : Coming(s, i, statuses)' <=> Coming(s, i, statuses)
    BY <1>1 DEF Coming
  <2>4. Holds(s, i)' => Holds(s, i)
    BY <1>1 DEF Holds
  <2>5. GrantFirst(net'[<<s, i>>], epochs[s])
    BY <1>1, <2>1 DEF Wire
  <2>6. Wire(s, i)'
    BY <1>1, <2>1, <2>2, <2>3, <2>4, <2>5, WireLocal
  <2>7. Accounted(s, i)'
    <3> SUFFICES ASSUME inst'[i].active = s, inst[i].active = s, inst'[i].epoch = inst[i].epoch
                 PROVE  Accounted(s, i)'
      BY <1>1 DEF Accounted
    <3>1. /\ With(s, i, {"CONFIRMED"})' <=> With(s, i, {"CONFIRMED"})
          /\ Holds(s, i)' <=> Holds(s, i)
          /\ LettingGo(s, i)' <=> LettingGo(s, i)
      BY <1>1 DEF With, Holds, LettingGo
    <3> QED
      BY <1>1, <2>1, <3>1 DEF Accounted
  <2> QED
    BY <2>6, <2>7
<1>3. ASSUME NEW s \in Subject, NEW j \in Instance \ {i} PROVE Wire(s, j)' /\ Accounted(s, j)'
  BY <1>0, <1>1, WireAlone
<1>4. ASSUME NEW s \in Subject PROVE Conversation(s)' /\ Undecided(s)'
  BY <1>0, <1>1, DictsAlone
<1> QED
  BY <1>2, <1>3, <1>4 DEF Tracked

\* An opening is all that is said about its attempt.
LEMMA OpeningAccounts ==
    ASSUME HolderInv, NEW s \in Subject, NEW status \in Openings, NEW out, Opens(s, status, out)
    PROVE  Tracked'
<1>0. /\ CoordTypeOK /\ RespondersTypeOK /\ DownCovered /\ UpCovered /\ HoldersCovered
      /\ epochs \in [Subject -> Nat]
      /\ \A t \in Subject : Conversation(t) /\ Undecided(t)
      /\ \A t \in Subject, j \in Instance : Wire(t, j) /\ Accounted(t, j)
  BY DEF HolderInv, Tracked, Inv, TypeOK, Covered, CoordTypeOK
<1>1. /\ epochs'[s] = epochs[s] + 1 /\ epochs[s] \in Nat
      /\ \A t \in Subject \ {s} : /\ handshakes'[t] = handshakes[t] /\ elections'[t] = elections[t]
                                  /\ epochs'[t] = epochs[t]
      /\ out \in SUBSET Envelope /\ Send(out)
      /\ \A m \in out : m.id = s /\ m.epoch = epochs[s] + 1 /\ m.status = status
      /\ ~InFlight(s) /\ inst' = inst /\ uplink' = uplink
  BY <1>0 DEF Opens, responderVars
<1>2. ASSUME NEW t \in Subject \ {s}, NEW i \in Instance PROVE Wire(t, i)' /\ Accounted(t, i)'
  <2>1. net'[<<t, i>>] = net[<<t, i>>]
    BY <1>1, SendAppends
  <2> QED
    BY <1>0, <1>1, <2>1, WireAlone
<1>3. /\ handshakes[s].state = "NONE" /\ elections[s] = NoElection
      /\ handshakes[s].receiver = None
  BY <1>0, <1>1 DEF InFlight, HasHandshake, HasElection, Conversation
<1>4. /\ handshakes'[s].state \in {"NONE", "REQUESTED"} /\ handshakes'[s].receiver = None
      /\ handshakes'[s].state # "NONE" => handshakes'[s].epoch = epochs'[s]
      /\ elections'[s].candidates = {} => elections'[s] = NoElection
      /\ elections'[s].candidates # {} => /\ elections'[s].epoch = epochs'[s]
                                          /\ elections'[s].silent # {}
      /\ status = "REQUEST" => elections'[s] = NoElection
  <2>1. CASE status = "REQUEST"
    <3>1. elections'[s] = NoElection
          /\ \E targets \in SUBSET Instance : handshakes'[s] = Requested(targets, epochs[s] + 1)
      BY <1>3, <2>1 DEF Opens
    <3>2. handshakes'[s].state = "REQUESTED" /\ handshakes'[s].receiver = None
          /\ handshakes'[s].epoch = epochs'[s]
      BY <1>1, <3>1 DEF Requested
    <3> QED
      BY <3>1, <3>2 DEF NoElection
  <2>2. CASE status = "REQUEST_BID"
    <3>1. handshakes'[s] = handshakes[s]
          /\ \E cands \in (SUBSET Instance) \ {{}} : elections'[s] = Opened(cands, epochs[s] + 1)
      BY <2>2 DEF Opens
    <3>2. elections'[s].candidates # {} /\ elections'[s].silent # {}
          /\ elections'[s].epoch = epochs'[s]
      BY <1>1, <3>1 DEF Opened
    <3> QED
      BY <1>3, <2>2, <3>1, <3>2
  <2> QED
    BY <2>1, <2>2 DEF Openings
<1>5. Conversation(s)' /\ Undecided(s)'
  BY <1>4 DEF Conversation, Undecided
<1>6. ASSUME NEW i \in Instance PROVE Wire(s, i)'
  <2>1. ~Holds(s, i)'
    <3> SUFFICES ASSUME inst[i].active = s, inst[i].epoch = epochs[s] + 1 PROVE FALSE
      BY <1>1 DEF Holds
    <3>1. inst[i].epoch <= epochs[s]
      BY <1>0, HandshakeAssumption DEF HoldersCovered
    <3> QED
      BY <1>1, <3>1
  <2>2. \A statuses : ~Said(s, i, statuses)'
    <3>1. \A m \in Elements(uplink[i]) : m.id = s => m.epoch # epochs[s] + 1
      <4> SUFFICES ASSUME NEW m \in Elements(uplink[i]), m.id = s PROVE m.epoch # epochs[s] + 1
        OBVIOUS
      <4>1. m \in Envelope
        BY <1>0 DEF Elements, RespondersTypeOK
      <4>2. m.epoch \in Nat /\ m.epoch <= epochs[s]
        BY <1>0, <4>1 DEF UpCovered, Envelope
      <4> QED
        BY <1>1, <4>2
    <3> SUFFICES ASSUME NEW statuses, Said(s, i, statuses)' PROVE FALSE
      OBVIOUS
    <3>2. PICK m \in Elements(uplink'[i]) : m.id = s /\ m.epoch = epochs'[s]
      BY WireViews
    <3> QED
      BY <1>1, <3>1, <3>2
  <2>3. \A statuses : Coming(s, i, statuses)' => status \in statuses
    BY <1>0, <1>1, OpeningComes
  <2>4. Bidding(s, i)' => status = "REQUEST_BID"
    BY <1>4 DEF Bidding, EngagedIn, NoElection, Openings
  <2>5. ~With(s, i, {"CANCELLED"})'
    BY <1>4 DEF With
  <2>6. ~Has(net[<<s, i>>], epochs[s] + 1, Grants \cup {"CANCEL"})
        /\ \A m \in Elements(net[<<s, i>>]) : m.epoch # epochs[s] + 1
    <3> SUFFICES ASSUME NEW m \in Elements(net[<<s, i>>]) PROVE m.epoch # epochs[s] + 1
      BY DEF Has
    <3>1. m \in Envelope
      BY <1>0 DEF Elements, CoordTypeOK
    <3>2. m.epoch \in Nat /\ m.epoch <= epochs[s]
      BY <1>0, <3>1 DEF DownCovered, Envelope
    <3> QED
      BY <1>1, <3>2
  <2>7. GrantFirst(net[<<s, i>>], epochs[s] + 1)
    BY <2>6 DEF GrantFirst, Elements
  <2>8. GrantFirst(net'[<<s, i>>], epochs[s] + 1)
    <3>1. net[<<s, i>>] \in Seq(Envelope)
      BY <1>0 DEF CoordTypeOK
    <3>2. CASE net'[<<s, i>>] = net[<<s, i>>]
      BY <2>7, <3>2
    <3>3. ASSUME NEW m \in out, net'[<<s, i>>] = Append(net[<<s, i>>], m)
          PROVE  GrantFirst(net'[<<s, i>>], epochs[s] + 1)
      <4>1. m \in Envelope
        BY <1>1
      <4> QED
        BY <2>6, <2>7, <3>1, <3>3, <4>1, GrantFirstSent
    <3> QED
      BY <1>1, <3>2, <3>3, SendAppends
  <2>9. Bidding(s, i)' => ~Coming(s, i, Grants)' /\ ~Coming(s, i, {"CANCEL"})'
    BY <2>3, <2>4 DEF Grants
  <2> QED
    BY <1>1, <2>1, <2>2, <2>5, <2>8, <2>9 DEF Wire
<1>7. ASSUME NEW i \in Instance PROVE Accounted(s, i)'
  <2>1. Accounted(s, i) /\ ~With(s, i, {"CONFIRMED"})
    BY <1>0, <1>3 DEF With
  <2>2. Elements(net[<<s, i>>]) \subseteq Elements(net'[<<s, i>>])
    BY <1>0, <1>1, NothingUnsaid
  <2>3. LettingGo(s, i) => LettingGo(s, i)'
    BY <1>1, <2>2 DEF LettingGo
  <2> QED
    BY <1>1, <2>1, <2>3 DEF Accounted
<1>8. ASSUME NEW t \in Subject \ {s} PROVE Conversation(t)' /\ Undecided(t)'
  BY <1>0, <1>1 DEF Conversation, Undecided
<1> QED
  BY <1>2, <1>5, <1>6, <1>7, <1>8 DEF Tracked

-----------------------------------------------------------------------------
(* What the methods make of it                                             *)

\* What a method makes of the conversation about s, and what it says: nobody bids who did
\* not; only a bidder is awarded the subject, and the round is then over; who bids is
\* not told to let go; and a release is told to the receiver.
Minds(s, x) ==
    LET h == handshakes[s]
        n == Retire(x.hs)
    IN  /\ n.state \in {"NONE", "REQUESTED"} => n.receiver = None
        /\ n.state # "NONE" => n.epoch = epochs[s]
        /\ x.el.candidates = {} => x.el = NoElection
        /\ x.el.candidates # {} => x.el.epoch = epochs[s] /\ x.el.silent # {}
        /\ EngagedIn(x.el) \subseteq EngagedIn(elections[s])
        /\ \A m \in x.out : m.epoch = epochs[s] =>
              /\ m.status = "AWARD" => /\ m.inst \in EngagedIn(elections[s])
                                       /\ x.el = NoElection /\ n.state # "CANCELLED"
              /\ m.status = "CANCEL" => m.inst \notin EngagedIn(x.el)
        /\ \A l, m \in x.out : l.inst = m.inst => l = m
        /\ n.state = "CANCELLED" =>
              \/ h.state = "CANCELLED" /\ n.receiver = h.receiver
              \/ Env("CANCEL", s, n.receiver, epochs[s]) \in x.out

\* Whoever holds s and is no longer counted on is told.
Dismisses(s, x) ==
    LET h == handshakes[s]
        n == Retire(x.hs)
    IN  h.state = "CONFIRMED" =>
           \/ n.state = "CONFIRMED" /\ n.receiver = h.receiver
           \/ \E m \in x.out : /\ m.status \in {"CANCEL", "COMPLETE_ACK"}
                               /\ m.inst = h.receiver /\ m.epoch = epochs[s]

\* An instance that took s is confirmed, or told to let go, or being released, or bids.
Heeds(m, x) ==
    LET h == handshakes[m.id]
        n == Retire(x.hs)
    IN  m.status = "ACK" =>
           \/ n.state = "CONFIRMED" /\ n.receiver = m.inst /\ m.epoch = epochs[m.id]
           \/ Env("CANCEL", m.id, m.inst, m.epoch) \in x.out
           \/ h.state = "CANCELLED" /\ h.receiver = m.inst /\ m.epoch = epochs[m.id]
           \/ m.inst \in EngagedIn(elections[m.id]) /\ m.epoch = epochs[m.id]

\* Settling a round.
LEMMA SettledMinds ==
    ASSUME NEW s \in Subject, NEW el \in Election, el.epoch = epochs[s],
           el.offers \subseteq EngagedIn(elections[s]), ~HasHandshake(s),
           NEW x \in Settled(s, el)
    PROVE  Minds(s, x) /\ Dismisses(s, x)
<1>1. PICK w \in Winners(el) :
         x = Effect(Settle(s, el, w), NoElection, AwardOut(s, el, w), "NOTHING", None)
  BY DEF Settled
<1>2. x.hs = Settle(s, el, w) /\ x.el = NoElection /\ x.out = AwardOut(s, el, w)
  BY <1>1 DEF Effect
<1>3. /\ Retire(x.hs).state = "NONE" => Retire(x.hs).receiver = None
      /\ Retire(x.hs).state \in {"NONE", "AWARDED"}
      /\ Retire(x.hs).state # "NONE" => Retire(x.hs).epoch = epochs[s]
  BY <1>2 DEF Settle, Retire, NoInitiator, Awarded
<1>4. EngagedIn(x.el) = {} /\ NoElection.candidates = {}
  BY <1>2 DEF EngagedIn, NoElection
<1>5. ASSUME NEW m \in x.out
      PROVE  /\ m.status = "CANCEL" => m.inst # w
             /\ m.status = "AWARD" => m.inst = w /\ m.inst \in el.offers
             /\ m = Env(m.status, s, m.inst, el.epoch) /\ m.status \in {"CANCEL", "AWARD"}
  BY <1>2 DEF AwardOut, ToEach, Env, Winners
<1>6. ASSUME NEW l \in x.out, NEW m \in x.out, l.inst = m.inst PROVE l = m
  BY <1>5, <1>6
<1>7. handshakes[s].state = "NONE"
  BY DEF HasHandshake
<1>8. ASSUME NEW m \in x.out, m.status = "AWARD" PROVE m.inst \in EngagedIn(elections[s])
  BY <1>5, <1>8
<1> QED
  BY <1>2, <1>3, <1>4, <1>6, <1>7, <1>8 DEF Minds, Dismisses

\* A conversation that is left as it is, and only others are told to let go.
LEMMA StaysMinds ==
    ASSUME NEW s \in Subject, Conversation(s), Undecided(s), NEW x, x.hs = handshakes[s],
           x.el = elections[s],
           \A n \in x.out : /\ n.status \in {"CANCEL", "COMPLETE_ACK"}
                            /\ n.epoch = epochs[s] => n.inst \notin EngagedIn(elections[s]),
           \A l, n \in x.out : l = n
    PROVE  Minds(s, x) /\ Dismisses(s, x)
<1>1. Retire(x.hs) = handshakes[s]
  BY DEF Retire, Conversation
<1>2. \A n \in x.out : n.status # "AWARD"
  OBVIOUS
<1> QED
  BY <1>1, <1>2 DEF Minds, Dismisses, Conversation, Undecided

\* A conversation that is over.
LEMMA LeavesMinds ==
    ASSUME NEW s \in Subject, NEW x, Retire(x.hs) = NoInitiator, x.el = NoElection,
           \A n \in x.out : n.status \in {"CANCEL", "COMPLETE_ACK"},
           \A l, n \in x.out : l.inst = n.inst => l = n
    PROVE  Minds(s, x)
<1>1. EngagedIn(x.el) = {} /\ x.el.candidates = {}
  BY DEF EngagedIn, NoElection
<1>2. \A n \in x.out : n.status # "AWARD"
  OBVIOUS
<1> QED
  BY <1>1, <1>2 DEF Minds, NoInitiator

\* A conversation with a receiver who is told to let go.
LEMMA ReleasesMinds ==
    ASSUME NEW s \in Subject, NEW x, x.el = NoElection, x.hs.state = "CANCELLED",
           x.hs.epoch = epochs[s], x.hs.receiver = handshakes[s].receiver,
           x.out = {Env("CANCEL", s, handshakes[s].receiver, epochs[s])}
    PROVE  Minds(s, x) /\ Dismisses(s, x)
<1>1. EngagedIn(x.el) = {} /\ x.el.candidates = {}
  BY DEF EngagedIn, NoElection
<1>2. Retire(x.hs) = x.hs
  BY DEF Retire
<1>3. \A n \in x.out : n.status = "CANCEL" /\ n.inst = handshakes[s].receiver /\ n.epoch = epochs[s]
  BY DEF Env
<1>4. \E n \in x.out : n.status = "CANCEL" /\ n.inst = handshakes[s].receiver /\ n.epoch = epochs[s]
  BY <1>3
<1>5. \A l, n \in x.out : l = n
  OBVIOUS
<1>6. \A n \in x.out : n.status # "AWARD"
  BY <1>3
<1> QED
  BY <1>1, <1>2, <1>4, <1>5, <1>6 DEF Minds, Dismisses

\* A conversation handles a word.
LEMMA HandleMinds ==
    ASSUME CoordTypeOK, NEW m \in Envelope, NEW s \in Subject, m.id = s, Conversation(s), Undecided(s),
           ~HasElection(s), HasHandshake(s),
           NEW x, x = FromInitiator(Handle(handshakes[s], m))
    PROVE  /\ Minds(s, x) /\ Heeds(m, x)
           /\ ~(m.status = "REVOKE" /\ m.inst = handshakes[s].receiver /\ m.epoch = epochs[s]) =>
                 Dismisses(s, x)
<1> DEFINE h == handshakes[s]
           out == Handle(h, m).out
           linked == [h EXCEPT !.state = "CONFIRMED", !.receiver = m.inst, !.asked = {}]
           holder == m.inst = h.receiver
<1>0. /\ h.epoch = epochs[s] /\ h.state \in {"REQUESTED", "AWARDED", "CONFIRMED", "CANCELLED"}
      /\ h.state = "REQUESTED" => h.receiver = None
      /\ elections[s] = NoElection /\ Retire(h) = h /\ Retire(Finished(h)) = NoInitiator
      /\ m.inst \in Instance /\ None \notin Instance /\ EngagedIn(elections[s]) = {}
      /\ h \in Initiator
  BY HandshakeAssumption
     DEF CoordTypeOK, HasElection, HasHandshake, Conversation, Retire, Finished, Initiator,
         InitiatorRecord, Envelope, EngagedIn, NoElection
<1>1. x.hs = Handle(h, m).next /\ x.el = NoElection /\ x.out = out
  BY DEF FromInitiator, Effect
<1>2. /\ \A n \in LetGo(m) : n.status = "CANCEL" /\ n.epoch = m.epoch
      /\ \A l, n \in LetGo(m) : l = n
      /\ m.status = "ACK" => Env("CANCEL", s, m.inst, m.epoch) \in LetGo(m)
  BY DEF LetGo, Env
<1>3. CASE m.epoch # h.epoch
  <2>1. x.hs = h /\ x.out = LetGo(m)
    BY <1>1, <1>3 DEF Handle, Quietly, Outcome
  <2>2. Minds(s, x) /\ Dismisses(s, x)
    BY <1>0, <1>1, <1>2, <2>1, StaysMinds
  <2> QED
    BY <1>2, <2>1, <2>2 DEF Heeds
<1>4. CASE m.epoch = h.epoch /\ m.status = "ACK" /\ Answers(h, m.inst)
  <2>1. x.hs = linked /\ x.out = {}
    BY <1>1, <1>4 DEF Handle, Outcome
  <2>2. /\ linked.state = "CONFIRMED" /\ linked.receiver = m.inst /\ linked.epoch = h.epoch
    BY <1>0 DEF Initiator, InitiatorRecord
  <2>3. Retire(linked) = linked
    BY <2>2 DEF Retire
  <2>4. h.state # "CONFIRMED"
    BY <1>4 DEF Answers
  <2> HIDE DEF linked
  <2>5. Minds(s, x)
    BY <1>0, <1>1, <2>1, <2>2, <2>3 DEF Minds, NoElection
  <2> QED
    BY <1>0, <1>4, <2>1, <2>2, <2>3, <2>4, <2>5 DEF Heeds, Dismisses
<1>5. CASE \/ m.epoch = h.epoch /\ m.status = "NACK" /\ Answers(h, m.inst) /\ (h.asked # {} \/ holder)
           \/ m.epoch = h.epoch /\ m.status = "REVOKE" /\ holder /\ h.state \in {"CONFIRMED", "CANCELLED"}
           \/ m.epoch = h.epoch /\ m.status = "CANCEL_ACK" /\ holder /\ h.state = "CANCELLED"
  <2>1. x.hs = Finished(h) /\ x.out = {}
    BY <1>1, <1>5 DEF Handle, Quietly, Outcome
  <2>2. Minds(s, x)
    BY <1>0, <1>1, <2>1, LeavesMinds
  <2>3. m.status # "ACK"
    BY <1>5
  <2>4. CASE m.status = "REVOKE"
    BY <1>0, <1>5, <2>2, <2>4 DEF Heeds
  <2>5. CASE m.status # "REVOKE"
    <3>1. h.state # "CONFIRMED"
      BY <1>5, <2>5 DEF Answers
    <3> QED
      BY <2>2, <2>3, <3>1 DEF Heeds, Dismisses
  <2> QED
    BY <2>4, <2>5
<1>6. CASE m.epoch = h.epoch /\ m.status = "COMPLETE" /\ holder /\ h.state = "CONFIRMED" /\ CompletionLeg
  <2>1. x.hs = Finished(h) /\ x.out = {Env("COMPLETE_ACK", m.id, m.inst, m.epoch)}
    BY <1>1, <1>6 DEF Handle, Quietly, Outcome
  <2>2. \A n \in x.out : n.status = "COMPLETE_ACK" /\ n.inst = h.receiver /\ n.epoch = epochs[s]
    BY <1>0, <1>6, <2>1 DEF Env
  <2>3. (\A l, n \in x.out : l = n) /\ \E n \in x.out : n \in x.out
    BY <2>1
  <2>4. Minds(s, x)
    BY <1>0, <1>1, <2>1, <2>2, <2>3, LeavesMinds
  <2>5. Dismisses(s, x)
    BY <2>2, <2>3 DEF Dismisses
  <2> QED
    BY <1>6, <2>4, <2>5 DEF Heeds
<1>7. CASE /\ m.epoch = h.epoch
           /\ ~(m.status = "ACK" /\ Answers(h, m.inst))
           /\ ~(m.status = "NACK" /\ Answers(h, m.inst) /\ (h.asked # {} \/ holder))
           /\ ~(m.status = "REVOKE" /\ holder /\ h.state \in {"CONFIRMED", "CANCELLED"})
           /\ ~(m.status = "CANCEL_ACK" /\ holder /\ h.state = "CANCELLED")
           /\ ~(m.status = "COMPLETE" /\ holder /\ h.state = "CONFIRMED" /\ CompletionLeg)
  <2>1. x.hs = h /\ x.out = IF holder THEN {} ELSE LetGo(m)
    BY <1>1, <1>7 DEF Handle, Quietly, Outcome
  <2>2. Minds(s, x) /\ Dismisses(s, x)
    BY <1>0, <1>1, <1>2, <2>1, StaysMinds
  <2>3. CASE holder
    <3>1. m.status = "ACK" => h.state \in {"CONFIRMED", "CANCELLED"}
      BY <1>0, <1>7, <2>3 DEF Answers
    <3> QED
      BY <1>0, <1>7, <2>1, <2>2, <2>3, <3>1 DEF Heeds
  <2>4. CASE ~holder
    BY <1>2, <2>1, <2>2, <2>4 DEF Heeds
  <2> QED
    BY <2>3, <2>4
<1> QED
  BY <1>3, <1>4, <1>5, <1>6, <1>7

\* route().
LEMMA RouteMinds ==
    ASSUME CoordTypeOK, OneDict, NEW m \in Envelope, NEW s \in Subject, m.id = s,
           Conversation(s), Undecided(s), NEW x \in RouteEffects(m)
    PROVE  /\ Minds(s, x) /\ Heeds(m, x)
           /\ ~(m.status = "REVOKE" /\ m.inst = handshakes[s].receiver /\ m.epoch = epochs[s]) =>
                 Dismisses(s, x)
<1> DEFINE el == elections[s]
           tallied == Tally(el, m)
<1>0. el \in Election /\ handshakes[s] \in Initiator /\ m.inst \in Instance
  BY DEF CoordTypeOK, Envelope
<1>1. /\ \A n \in LetGo(m) : n.status = "CANCEL" /\ n.epoch = m.epoch /\ n.inst = m.inst
      /\ \A l, n \in LetGo(m) : l = n
      /\ m.status = "ACK" => Env("CANCEL", s, m.inst, m.epoch) \in LetGo(m)
  BY DEF LetGo, Env
<1>2. ASSUME HasElection(s)
      PROVE  /\ ~HasHandshake(s) /\ el.epoch = epochs[s] /\ el.silent # {} /\ el.candidates # {}
             /\ tallied.epoch = epochs[s] /\ tallied.candidates = el.candidates
             /\ EngagedIn(tallied) \subseteq EngagedIn(el) /\ tallied.offers \subseteq EngagedIn(el)
             /\ tallied \in Election
             /\ m.status = "ACK" \/ m.epoch # el.epoch \/ m.inst \notin EngagedIn(el) => tallied = el
  <2>1. ~HasHandshake(s) /\ el.epoch = epochs[s] /\ el.silent # {} /\ el.candidates # {}
    BY <1>2 DEF OneDict, Conversation, Undecided, HasElection
  <2>2. tallied \in Election
    BY <1>0, TallyType
  <2>3. /\ tallied.epoch = el.epoch /\ tallied.candidates = el.candidates
        /\ EngagedIn(tallied) \subseteq EngagedIn(el) /\ tallied.offers \subseteq EngagedIn(el)
    BY <1>0 DEF Tally, EngagedIn, Election
  <2>4. m.status = "ACK" \/ m.epoch # el.epoch \/ m.inst \notin EngagedIn(el) => tallied = el
    BY DEF Tally
  <2> QED
    BY <2>1, <2>2, <2>3, <2>4
<1>3. CASE HasElection(s) /\ tallied.silent = {}
  <2>1. x \in Settled(s, tallied)
    BY <1>3 DEF RouteEffects
  <2>2. m.status # "ACK"
    BY <1>2, <1>3
  <2> HIDE DEF tallied
  <2>3. Minds(s, x) /\ Dismisses(s, x)
    BY <1>2, <1>3, <2>1, SettledMinds
  <2> QED
    BY <2>2, <2>3 DEF Heeds
<1>4. CASE HasElection(s) /\ tallied.silent # {}
  <2>1. x = Effect(handshakes[s], tallied, TallyOut(el, m), "NOTHING", None)
    BY <1>4 DEF RouteEffects
  <2>2. x.hs = handshakes[s] /\ x.el = tallied /\ x.out = TallyOut(el, m)
    BY <2>1 DEF Effect
  <2>3. handshakes[s].state = "NONE" /\ handshakes[s].receiver = None /\ Retire(handshakes[s]) = handshakes[s]
    BY <1>2, <1>4 DEF HasHandshake, Retire, Conversation
  <2>4. /\ m.epoch = el.epoch /\ m.inst \in EngagedIn(el) => x.out = {}
        /\ ~(m.epoch = el.epoch /\ m.inst \in EngagedIn(el)) => x.out = LetGo(m)
    BY <2>2 DEF TallyOut
  <2> HIDE DEF tallied
  <2>5. ASSUME NEW n \in x.out
        PROVE  n.status = "CANCEL" /\ (n.epoch = epochs[s] => n.inst \notin EngagedIn(x.el))
    BY <1>1, <1>2, <1>4, <2>2, <2>4
  <2>6. \A l, n \in x.out : l = n
    BY <1>1, <2>4
  <2>7. \A n \in x.out : n.status # "AWARD"
    BY <2>5
  <2>8. Minds(s, x)
    BY <1>2, <1>4, <2>2, <2>3, <2>5, <2>6, <2>7 DEF Minds
  <2>9. Dismisses(s, x)
    BY <2>3 DEF Dismisses
  <2> QED
    BY <1>1, <1>2, <1>4, <2>4, <2>8, <2>9 DEF Heeds
<1>5. CASE ~HasElection(s) /\ HasHandshake(s)
  <2>1. x = FromInitiator(Handle(handshakes[s], m))
    BY <1>5 DEF RouteEffects
  <2> QED
    BY <1>5, <2>1, HandleMinds
<1>6. CASE ~HasElection(s) /\ ~HasHandshake(s)
  <2>1. x.hs = NoInitiator /\ x.el = NoElection /\ x.out = OrphanReply(m)
    BY <1>6 DEF RouteEffects, Effect
  <2>2. Retire(x.hs) = NoInitiator
    BY <2>1 DEF Retire
  <2>3. /\ \A n \in x.out : n.status \in {"CANCEL", "COMPLETE_ACK"}
        /\ \A l, n \in x.out : l = n
        /\ m.status = "ACK" => Env("CANCEL", s, m.inst, m.epoch) \in x.out
    BY <2>1 DEF OrphanReply, LetGo, Env
  <2>4. Minds(s, x)
    BY <2>1, <2>2, <2>3, LeavesMinds
  <2>5. handshakes[s].state # "CONFIRMED"
    BY <1>6 DEF HasHandshake
  <2> QED
    BY <2>3, <2>4, <2>5 DEF Heeds, Dismisses
<1> QED
  BY <1>3, <1>4, <1>5, <1>6

\* tick().
LEMMA TickMinds ==
    ASSUME CoordTypeOK, OneDict, NEW s \in Subject, Conversation(s), Undecided(s), InFlight(s),
           NEW x \in TickEffects(s)
    PROVE  Minds(s, x) /\ Dismisses(s, x)
<1>1. CASE HasElection(s)
  <2>1. x \in Settled(s, elections[s]) /\ ~HasHandshake(s) /\ elections[s].epoch = epochs[s]
        /\ elections[s].offers \subseteq EngagedIn(elections[s])
    BY <1>1 DEF TickEffects, OneDict, Conversation, HasElection, EngagedIn
  <2>2. elections[s] \in Election
    BY DEF CoordTypeOK
  <2> QED
    BY <2>1, <2>2, SettledMinds
<1>2. CASE ~HasElection(s)
  <2> DEFINE h == handshakes[s]
             o == Overdue(s, h)
  <2>1. x.hs = o.next /\ x.el = NoElection /\ x.out = o.out
    BY <1>2 DEF TickEffects, FromInitiator, Effect
  <2>2. /\ h.state \in {"REQUESTED", "AWARDED", "CONFIRMED", "CANCELLED"} /\ elections[s] = NoElection
        /\ h.epoch = epochs[s] /\ h \in Initiator /\ EngagedIn(elections[s]) = {}
        /\ h.tries \in Nat /\ MaxTries \in Nat
    BY <1>2, HandshakeAssumption
       DEF InFlight, HasHandshake, HasElection, Conversation, CoordTypeOK, Initiator, InitiatorRecord,
           EngagedIn, NoElection
  <2>3. CASE h.state = "REQUESTED" \/ (h.state = "CANCELLED" /\ h.tries >= MaxTries)
    <3>1. o.next = Finished(h) /\ o.out = {}
      BY <2>2, <2>3 DEF Overdue, Quietly, Outcome
    <3>2. Retire(Finished(h)) = NoInitiator
      BY <2>2 DEF Retire, Finished, Initiator, InitiatorRecord
    <3>3. Retire(x.hs) = NoInitiator /\ x.out = {}
      BY <2>1, <3>1, <3>2
    <3>4. Minds(s, x)
      BY <2>1, <3>3, LeavesMinds
    <3> QED
      BY <2>3, <3>4 DEF Dismisses
  <2>4. CASE h.state = "CONFIRMED"
    <3>1. o.next = h /\ o.out = {}
      BY <2>4 DEF Overdue, Quietly, Outcome
    <3>2. x.hs = handshakes[s] /\ x.el = elections[s] /\ x.out = {}
      BY <2>1, <2>2, <3>1
    <3> QED
      BY <3>2, StaysMinds
  <2>5. CASE h.state = "AWARDED" \/ (h.state = "CANCELLED" /\ h.tries < MaxTries)
    <3> DEFINE again == [h EXCEPT !.tries = @ + 1]
               ending == [h EXCEPT !.state = "CANCELLED"]
    <3>1. /\ again.state = h.state /\ again.receiver = h.receiver /\ again.epoch = h.epoch
          /\ ending.state = "CANCELLED" /\ ending.receiver = h.receiver /\ ending.epoch = h.epoch
      BY <2>2 DEF Initiator, InitiatorRecord
    <3>2. /\ o.out = {Env("CANCEL", s, h.receiver, h.epoch)}
          /\ o.next = ending \/ (o.next = again /\ h.state = "CANCELLED")
      <4> HIDE DEF h, again, ending
      <4>1. CASE h.state = "AWARDED"
        BY <4>1 DEF Overdue, Quietly, Outcome, ending
      <4>2. CASE h.state = "CANCELLED" /\ h.tries < MaxTries
        BY <2>2, <4>2 DEF Overdue, Quietly, Outcome, again
      <4> QED
        BY <2>5, <4>1, <4>2
    <3> HIDE DEF o, again, ending
    <3>3. /\ x.hs.state = "CANCELLED" /\ x.hs.epoch = epochs[s] /\ x.hs.receiver = handshakes[s].receiver
          /\ x.out = {Env("CANCEL", s, handshakes[s].receiver, epochs[s])}
      BY <2>1, <2>2, <3>1, <3>2
    <3> QED
      BY <2>1, <3>3, ReleasesMinds
  <2> QED
    BY <2>2, <2>3, <2>4, <2>5
<1> QED
  BY <1>1, <1>2

\* cancel().
LEMMA CancelMinds ==
    ASSUME CoordTypeOK, OneDict, NEW s \in Subject, Conversation(s), Undecided(s), InFlight(s),
           NEW x, x = CancelEffect(s)
    PROVE  Minds(s, x) /\ Dismisses(s, x)
<1> DEFINE h == handshakes[s]
<1>0. h \in Initiator /\ elections[s] \in Election
  BY DEF CoordTypeOK
<1>1. CASE HasElection(s)
  <2>1. /\ x.hs = NoInitiator /\ x.el = NoElection
        /\ x.out = ToEach("CANCEL", s, EngagedIn(elections[s]), elections[s].epoch)
    BY <1>1 DEF CancelEffect, Effect
  <2>2. Retire(x.hs) = NoInitiator
    BY <2>1 DEF Retire
  <2>3. /\ \A n \in x.out : n.status \in {"CANCEL", "COMPLETE_ACK"}
        /\ \A l, n \in x.out : l.inst = n.inst => l = n
    BY <2>1 DEF ToEach, Env
  <2>4. Minds(s, x)
    BY <2>1, <2>2, <2>3, LeavesMinds
  <2>5. h.state # "CONFIRMED"
    BY <1>1 DEF OneDict, HasHandshake
  <2> QED
    BY <2>4, <2>5 DEF Dismisses
<1>2. CASE ~HasElection(s) /\ Releasing(s)
  <2>1. x.hs = handshakes[s] /\ x.out = {} /\ x.el = elections[s]
    BY <1>2 DEF CancelEffect, Effect, Conversation, HasElection
  <2> QED
    BY <2>1, StaysMinds
<1>3. CASE ~HasElection(s) /\ ~Releasing(s)
  <2>1. /\ h.state \in {"REQUESTED", "AWARDED", "CONFIRMED"} /\ h.epoch = epochs[s]
        /\ (h.receiver = None <=> h.state = "REQUESTED")
    BY <1>0, <1>3 DEF InFlight, HasHandshake, Releasing, Conversation, Initiator, InitiatorRecord
  <2>2. x.hs = Withdraw(s, h).next /\ x.out = Withdraw(s, h).out /\ x.el = NoElection
    BY <1>3, <2>1 DEF CancelEffect, FromInitiator, Effect, HasHandshake
  <2>3. CASE h.receiver = None
    <3>1. x.hs = Finished(h) /\ x.out = ToEach("CANCEL", s, EngagedBy(h), h.epoch)
      BY <2>2, <2>3 DEF Withdraw, Quietly, Outcome
    <3>2. Retire(x.hs) = NoInitiator
      BY <1>0, <3>1 DEF Retire, Finished, Initiator, InitiatorRecord
    <3>3. /\ \A n \in x.out : n.status \in {"CANCEL", "COMPLETE_ACK"}
          /\ \A l, n \in x.out : l.inst = n.inst => l = n
      BY <3>1 DEF ToEach, Env
    <3>4. Minds(s, x)
      BY <2>2, <3>2, <3>3, LeavesMinds
    <3> QED
      BY <2>1, <2>3, <3>4 DEF Dismisses
  <2>4. CASE h.receiver # None
    <3>1. x.hs = [h EXCEPT !.state = "CANCELLED", !.tries = 0]
          /\ x.out = ToEach("CANCEL", s, {h.receiver}, h.epoch)
      BY <2>2, <2>4 DEF Withdraw, Quietly, Outcome, EngagedBy
    <3>2. /\ x.hs.state = "CANCELLED" /\ x.hs.epoch = epochs[s] /\ x.hs.receiver = handshakes[s].receiver
          /\ x.out = {Env("CANCEL", s, handshakes[s].receiver, epochs[s])}
      BY <1>0, <2>1, <3>1 DEF ToEach, Initiator, InitiatorRecord
    <3> QED
      BY <2>2, <3>2, ReleasesMinds
  <2> QED
    BY <2>3, <2>4
<1> QED
  BY <1>1, <1>2, <1>3

\* What is sent to an instance, and nothing else is sent to it, is under way.
LEMMA SendArrives ==
    ASSUME CoordTypeOK, NEW out \in SUBSET Envelope, Send(out), NEW m \in out,
           NEW s \in Subject, NEW i \in Instance, m.id = s, m.inst = i,
           \A n \in out : n.inst = i => n = m
    PROVE  m \in Elements(net'[<<s, i>>])
<1> DEFINE p == <<s, i>>
           new == {n \in out : n.id = p[1] /\ n.inst = p[2]}
           late == IF net[p] = <<>> THEN {} ELSE {net[p][Len(net[p])]}
<1>1. net'[p] = IF new \subseteq late THEN net[p] ELSE Append(net[p], CHOOSE n \in new : TRUE)
  BY DEF Send, Sent
<1>2. new = {m}
  OBVIOUS
<1>3. net[p] \in Seq(Envelope) /\ m \in Envelope
  BY DEF CoordTypeOK
<1>4. CASE new \subseteq late
  <2>1. net[p] # <<>> /\ m = net[p][Len(net[p])]
    BY <1>2, <1>4
  <2>2. Len(net[p]) \in DOMAIN net[p]
    <3> HIDE DEF p
    <3> QED
      BY <1>3, <2>1, TailPositions
  <2> QED
    BY <1>1, <1>4, <2>1, <2>2 DEF Elements
<1>5. CASE ~(new \subseteq late)
  <2>1. (CHOOSE n \in new : TRUE) = m
    BY <1>2
  <2>2. net'[p] = Append(net[p], m)
    BY <1>1, <1>5, <2>1
  <2> HIDE DEF p
  <2>3. Elements(Append(net[p], m)) = Elements(net[p]) \cup {m}
    BY <1>3, QueueExact
  <2> QED
    BY <2>2, <2>3 DEF p
<1> QED
  BY <1>4, <1>5

\* A method that minds the conversation about s, dismisses its holder unless he gave s
\* back, and heard the word it took off the bus.
LEMMA BecomesAccounts ==
    ASSUME HolderInv, NEW s \in Subject, NEW x, Minds(s, x),
           Becomes(s, Retire(x.hs), x.el, x.out),
           \A i \in Instance : Elements(uplink'[i]) \subseteq Elements(uplink[i]),
           \A i \in Instance : \A m \in Elements(uplink[i]) \ Elements(uplink'[i]) :
               m.id = s /\ m.inst = i /\ Heeds(m, x),
           \/ Dismisses(s, x)
           \/ \E i \in Instance : With(s, i, {"CONFIRMED"}) /\ Said(s, i, {"REVOKE"})
    PROVE  Tracked'
<1>0. /\ CoordTypeOK /\ RespondersTypeOK
      /\ \A t \in Subject : Conversation(t) /\ Undecided(t)
      /\ \A t \in Subject, i \in Instance : Wire(t, i) /\ Accounted(t, i)
  BY DEF HolderInv, Tracked, Inv, TypeOK
<1> DEFINE n == Retire(x.hs)
<1>1. /\ handshakes'[s] = n /\ elections'[s] = x.el
      /\ \A t \in Subject \ {s} : handshakes'[t] = handshakes[t] /\ elections'[t] = elections[t]
      /\ epochs' = epochs /\ inst' = inst
      /\ x.out \in SUBSET Envelope /\ Send(x.out)
      /\ \A m \in x.out : m.id = s /\ m.status \notin Openings
  BY DEF Becomes
<1>2. /\ n.state \in {"NONE", "REQUESTED"} => n.receiver = None
      /\ n.state # "NONE" => n.epoch = epochs[s]
      /\ x.el.candidates = {} => x.el = NoElection
      /\ x.el.candidates # {} => x.el.epoch = epochs[s] /\ x.el.silent # {}
      /\ EngagedIn(x.el) \subseteq EngagedIn(elections[s])
      /\ \A m \in x.out : m.epoch = epochs[s] =>
            /\ m.status = "AWARD" => /\ m.inst \in EngagedIn(elections[s])
                                     /\ x.el = NoElection /\ n.state # "CANCELLED"
            /\ m.status = "CANCEL" => m.inst \notin EngagedIn(x.el)
      /\ \A l, m \in x.out : l.inst = m.inst => l = m
      /\ n.state = "CANCELLED" =>
            \/ handshakes[s].state = "CANCELLED" /\ n.receiver = handshakes[s].receiver
            \/ Env("CANCEL", s, n.receiver, epochs[s]) \in x.out
  BY DEF Minds
<1>3. n.state # "DONE"
  BY DEF Retire, NoInitiator
<1> HIDE DEF n
<1>4. Conversation(s)' /\ Undecided(s)'
  BY <1>1, <1>2, <1>3 DEF Conversation, Undecided
<1>5. ASSUME NEW t \in Subject \ {s} PROVE Conversation(t)' /\ Undecided(t)'
  BY <1>0, <1>1 DEF Conversation, Undecided
<1>6. ASSUME NEW t \in Subject, NEW i \in Instance, NEW statuses, Said(t, i, statuses)'
      PROVE  Said(t, i, statuses)
  <2>1. PICK m \in Elements(uplink'[i]) : m.id = t /\ m.epoch = epochs'[t] /\ m.status \in statuses
    BY <1>6, WireViews
  <2>2. m \in Elements(uplink[i]) /\ About(t, m, statuses)
    BY <1>1, <2>1 DEF About
  <2> QED
    BY <2>2, WireViews
<1>7. \A t \in Subject, i \in Instance : Elements(net[<<t, i>>]) \subseteq Elements(net'[<<t, i>>])
  BY <1>0, <1>1, NothingUnsaid
<1>8. ASSUME NEW m \in x.out, NEW i \in Instance, m.inst = i PROVE m \in Elements(net'[<<s, i>>])
  <2>1. m.id = s /\ \A l \in x.out : l.inst = i => l = m
    BY <1>1, <1>2, <1>8
  <2> QED
    BY <1>0, <1>1, <1>8, <2>1, SendArrives
<1>9. ASSUME NEW t \in Subject, NEW i \in Instance, LettingGo(t, i) PROVE LettingGo(t, i)'
  BY <1>1, <1>7, <1>9 DEF LettingGo
<1>10. ASSUME NEW t \in Subject \ {s}, NEW i \in Instance PROVE Wire(t, i)' /\ Accounted(t, i)'
  <2>1. net'[<<t, i>>] = net[<<t, i>>]
    <3>1. \A e \in x.out : e.id # t
      BY <1>1
    <3> QED
      BY <1>1, <3>1, SendAppends
  <2>2. /\ Bidding(t, i)' <=> Bidding(t, i)
        /\ \A states : With(t, i, states)' <=> With(t, i, states)
        /\ Holds(t, i)' <=> Holds(t, i)
    BY <1>1 DEF Bidding, EngagedIn, With, Holds
  <2>3. Wire(t, i)'
    BY <1>0, <1>1, <1>6, <2>1, <2>2, WireMoves
  <2>4. ASSUME NEW e, Env("ACK", t, i, e) \in Elements(uplink[i])
        PROVE  Env("ACK", t, i, e) \in Elements(uplink'[i])
    BY <2>4 DEF Env
  <2>5. Accounted(t, i)'
    BY <1>0, <1>1, <1>9, <2>2, <2>4 DEF Accounted
  <2> QED
    BY <2>3, <2>5
<1>11. ASSUME NEW i \in Instance PROVE Wire(s, i)'
  <2>1. Bidding(s, i)' => Bidding(s, i)
    BY <1>1, <1>2 DEF Bidding
  <2>2. With(s, i, {"CANCELLED"})' => With(s, i, {"CANCELLED"}) \/ Coming(s, i, {"CANCEL"})'
    <3> SUFFICES ASSUME n.state = "CANCELLED", n.receiver = i,
                        Env("CANCEL", s, i, epochs[s]) \in x.out
                 PROVE  Coming(s, i, {"CANCEL"})'
      BY <1>1, <1>2 DEF With
    <3>1. PICK m \in x.out : m = Env("CANCEL", s, i, epochs[s])
      OBVIOUS
    <3>2. m.inst = i /\ m.epoch = epochs[s] /\ m.status = "CANCEL"
      BY <3>1 DEF Env
    <3>3. m \in Elements(net'[<<s, i>>])
      BY <1>8, <3>2
    <3>4. Has(net'[<<s, i>>], epochs'[s], {"CANCEL"})
      BY <1>1, <3>2, <3>3 DEF Has
    <3> QED
      BY <3>4, WireViews
  <2>3. \/ net'[<<s, i>>] = net[<<s, i>>]
        \/ \E m \in Envelope :
              /\ net'[<<s, i>>] = Append(net[<<s, i>>], m)
              /\ m.epoch = epochs[s] /\ m.status \in Grants =>
                    Bidding(s, i) /\ ~Bidding(s, i)' /\ ~With(s, i, {"CANCELLED"})'
              /\ m.epoch = epochs[s] /\ m.status = "CANCEL" => ~Bidding(s, i)'
    <3> SUFFICES ASSUME net'[<<s, i>>] # net[<<s, i>>]
                 PROVE  \E m \in Envelope :
              /\ net'[<<s, i>>] = Append(net[<<s, i>>], m)
              /\ m.epoch = epochs[s] /\ m.status \in Grants =>
                    Bidding(s, i) /\ ~Bidding(s, i)' /\ ~With(s, i, {"CANCELLED"})'
              /\ m.epoch = epochs[s] /\ m.status = "CANCEL" => ~Bidding(s, i)'
      OBVIOUS
    <3>1. PICK m \in x.out : m.id = s /\ m.inst = i /\ net'[<<s, i>>] = Append(net[<<s, i>>], m)
      BY <1>1, SendAppends
    <3>2. m \in Envelope /\ m.status \notin Openings
      BY <1>1
    <3>3. ASSUME m.epoch = epochs[s], m.status \in Grants
          PROVE  Bidding(s, i) /\ ~Bidding(s, i)' /\ ~With(s, i, {"CANCELLED"})'
      <4>1. m.status = "AWARD"
        BY <3>2, <3>3 DEF Grants, Openings
      <4>2. i \in EngagedIn(elections[s]) /\ x.el = NoElection /\ n.state # "CANCELLED"
        BY <1>2, <3>1, <3>3, <4>1
      <4>3. EngagedIn(NoElection) = {}
        BY DEF EngagedIn, NoElection
      <4> QED
        BY <1>1, <4>2, <4>3 DEF Bidding, With, EngagedIn
    <3>4. ASSUME m.epoch = epochs[s], m.status = "CANCEL" PROVE ~Bidding(s, i)'
      <4>1. i \notin EngagedIn(x.el)
        BY <1>2, <3>1, <3>4
      <4> QED
        BY <1>1, <4>1 DEF Bidding, EngagedIn
    <3> QED
      BY <3>1, <3>2, <3>3, <3>4
  <2>4. /\ Wire(s, i) /\ inst'[i] = inst[i] /\ epochs'[s] = epochs[s]
        /\ \A statuses : Said(s, i, statuses)' => Said(s, i, statuses)
    BY <1>0, <1>1, <1>6
  <2> QED
    BY <1>0, <2>1, <2>2, <2>3, <2>4, WireMoves
<1>12. ASSUME NEW i \in Instance PROVE Accounted(s, i)'
  <2> DEFINE e == inst[i].epoch
  <2>1. SUFFICES ASSUME inst[i].active = s
        PROVE  \/ With(s, i, {"CONFIRMED"})' /\ Holds(s, i)'
               \/ Env("ACK", s, i, e) \in Elements(uplink'[i])
               \/ LettingGo(s, i)'
    BY <1>1 DEF Accounted
  <2>2. /\ Wire(s, i) /\ Accounted(s, i) /\ (Holds(s, i) <=> e = epochs[s])
        /\ Holds(s, i)' <=> Holds(s, i)
        /\ e \in Nat
    BY <1>0, <1>1, <2>1 DEF Holds, RespondersTypeOK, Holding
  <2>3. ASSUME NEW m \in x.out, m.inst = i, m.status \in {"CANCEL", "COMPLETE_ACK"}, m.epoch = e
        PROVE  LettingGo(s, i)'
    <3>1. m \in Elements(net'[<<s, i>>]) /\ m.epoch >= e
      BY <1>8, <2>2, <2>3
    <3> QED
      BY <1>1, <2>3, <3>1 DEF LettingGo
  <2>4. CASE With(s, i, {"CONFIRMED"}) /\ Holds(s, i)
    <3>1. Dismisses(s, x)
      <4> SUFFICES ASSUME NEW j \in Instance, With(s, j, {"CONFIRMED"}), Said(s, j, {"REVOKE"})
                   PROVE  FALSE
        OBVIOUS
      <4>1. j = i
        BY <2>4 DEF With
      <4> QED
        BY <2>2, <2>4, <4>1 DEF Wire
    <3>2. CASE n.state = "CONFIRMED" /\ n.receiver = handshakes[s].receiver
      BY <1>1, <2>2, <2>4, <3>2 DEF With
    <3>3. ASSUME NEW m \in x.out, m.status \in {"CANCEL", "COMPLETE_ACK"},
                 m.inst = handshakes[s].receiver, m.epoch = epochs[s]
          PROVE  LettingGo(s, i)'
      BY <2>2, <2>3, <2>4, <3>3 DEF With
    <3> QED
      BY <2>4, <3>1, <3>2, <3>3 DEF Dismisses, With, n
  <2>5. CASE Env("ACK", s, i, e) \in Elements(uplink[i]) \ Elements(uplink'[i])
    <3>1. PICK m \in Elements(uplink[i]) \ Elements(uplink'[i]) : m = Env("ACK", s, i, e)
      BY <2>5
    <3>2. Heeds(m, x) /\ m.status = "ACK" /\ m.id = s /\ m.inst = i /\ m.epoch = e
      BY <3>1 DEF Env
    <3>3. CASE n.state = "CONFIRMED" /\ n.receiver = i /\ e = epochs[s]
      BY <1>1, <2>2, <3>3 DEF With
    <3>4. CASE Env("CANCEL", s, i, e) \in x.out
      <4>1. PICK l \in x.out : l = Env("CANCEL", s, i, e)
        BY <3>4
      <4>2. l.inst = i /\ l.status = "CANCEL" /\ l.epoch = e
        BY <4>1 DEF Env
      <4> QED
        BY <2>3, <4>2
    <3>5. CASE handshakes[s].state = "CANCELLED" /\ handshakes[s].receiver = i /\ e = epochs[s]
      <4>1. Coming(s, i, {"CANCEL"})
        BY <2>2, <3>5 DEF Wire, With
      <4>2. Has(net[<<s, i>>], epochs[s], {"CANCEL"})
        BY <4>1, WireViews
      <4>3. LettingGo(s, i)
        BY <2>2, <3>5, <4>2 DEF Has, LettingGo
      <4> QED
        BY <1>9, <4>3
    <3>6. CASE i \in EngagedIn(elections[s]) /\ e = epochs[s]
      BY <2>2, <3>6 DEF Wire, Bidding
    <3> QED
      BY <3>2, <3>3, <3>4, <3>5, <3>6 DEF Heeds, n
  <2>6. CASE LettingGo(s, i)
    BY <1>9, <2>6
  <2> QED
    BY <2>1, <2>2, <2>4, <2>5, <2>6 DEF Accounted
<1> QED
  BY <1>4, <1>5, <1>10, <1>11, <1>12 DEF Tracked

\* route().
LEMMA RouteAccounts ==
    ASSUME HolderInv, NEW o \in Instance, Route(o)
    PROVE  Tracked'
<1>0. /\ CoordTypeOK /\ RespondersTypeOK /\ OneDict /\ Covered
      /\ \A s \in Subject : Conversation(s) /\ Undecided(s)
  BY DEF HolderInv, Tracked, Inv, TypeOK
<1>1. Take(o) /\ \E x \in RouteEffects(Head(uplink[o])) : Perform(Head(uplink[o]).id, x)
  BY DEF Route
<1>2. /\ Head(uplink[o]) \in Envelope /\ Head(uplink[o]).inst = o
      /\ Head(uplink[o]).epoch <= epochs[Head(uplink[o]).id]
  <2>1. epochs' = epochs
    BY <1>1 DEF Perform, Interrupted
  <2> QED
    BY <1>0, <1>1, <2>1, TakeCovers DEF Covered
<1>3. PICK m \in Envelope : m = Head(uplink[o])
  BY <1>2
<1>4. PICK x \in RouteEffects(m) : Perform(m.id, x)
  BY <1>1, <1>3
<1>5. PICK s \in Subject : s = m.id
  BY DEF Envelope
<1>6. x \in Effects /\ EffectCovered(s, x)
  BY <1>0, <1>2, <1>3, <1>5, RouteEffectsType, MethodsCover DEF Covered
<1>7. Becomes(s, Retire(x.hs), x.el, x.out)
  <2>1. \A l \in x.out : l.status \notin Openings
    BY NothingReopens
  <2>2. UNCHANGED inst
    BY <1>1 DEF Take
  <2> QED
    BY <1>0, <1>4, <1>5, <1>6, <2>1, <2>2, PerformBecomes
<1>8. /\ Minds(s, x) /\ Heeds(m, x)
      /\ ~(m.status = "REVOKE" /\ m.inst = handshakes[s].receiver /\ m.epoch = epochs[s]) =>
            Dismisses(s, x)
  BY <1>0, <1>4, <1>5, RouteMinds
<1>9. /\ uplink[o] \in Seq(Envelope) /\ uplink[o] # <<>>
      /\ uplink'[o] = Tail(uplink[o])
      /\ \A i \in Instance \ {o} : uplink'[i] = uplink[i]
  BY <1>0, <1>1 DEF Take, RespondersTypeOK
<1>10. Elements(uplink[o]) = Elements(uplink'[o]) \cup {m}
  BY <1>3, <1>9, QueueExact
<1>11. \A i \in Instance : Elements(uplink'[i]) \subseteq Elements(uplink[i])
  BY <1>9, <1>10
<1>12. ASSUME NEW i \in Instance, NEW l \in Elements(uplink[i]) \ Elements(uplink'[i])
       PROVE  l.id = s /\ l.inst = i /\ Heeds(l, x)
  BY <1>2, <1>3, <1>5, <1>8, <1>9, <1>10, <1>12
<1>13. Dismisses(s, x) \/ \E i \in Instance : With(s, i, {"CONFIRMED"}) /\ Said(s, i, {"REVOKE"})
  <2> SUFFICES ASSUME m.status = "REVOKE", m.inst = handshakes[s].receiver, m.epoch = epochs[s],
                      handshakes[s].state = "CONFIRMED"
               PROVE  With(s, o, {"CONFIRMED"}) /\ Said(s, o, {"REVOKE"})
    BY <1>8 DEF Dismisses
  <2>1. m \in Elements(uplink[o]) /\ About(s, m, {"REVOKE"})
    BY <1>5, <1>10 DEF About
  <2> QED
    BY <1>2, <1>3, <2>1, WireViews DEF With
<1> QED
  BY <1>7, <1>8, <1>11, <1>12, <1>13, BecomesAccounts

\* tick().
LEMMA TickAccounts ==
    ASSUME HolderInv, NEW s \in Subject, Tick(s)
    PROVE  Tracked'
<1>0. /\ CoordTypeOK /\ RespondersTypeOK /\ OneDict /\ Covered /\ Conversation(s) /\ Undecided(s)
  BY DEF HolderInv, Tracked, Inv, TypeOK
<1>1. UNCHANGED <<inst, uplink>> /\ InFlight(s)
  BY DEF Tick, responderVars
<1>2. PICK x \in TickEffects(s) : Perform(s, x)
  BY DEF Tick
<1>3. x \in Effects /\ EffectCovered(s, x)
  BY <1>0, TickEffectsType, MethodsCover DEF Covered
<1>4. Becomes(s, Retire(x.hs), x.el, x.out)
  <2>1. \A l \in x.out : l.status \notin Openings
    BY NothingReopens
  <2> QED
    BY <1>0, <1>1, <1>2, <1>3, <2>1, PerformBecomes
<1>5. Minds(s, x) /\ Dismisses(s, x)
  BY <1>0, <1>1, <1>2, TickMinds
<1> QED
  BY <1>1, <1>4, <1>5, BecomesAccounts

\* cancel().
LEMMA CancelAccounts ==
    ASSUME HolderInv, NEW s \in Subject, CancelSubject(s)
    PROVE  Tracked'
<1>0. /\ CoordTypeOK /\ RespondersTypeOK /\ OneDict /\ Covered /\ Conversation(s) /\ Undecided(s)
      /\ handshakes[s] \in Initiator
  BY DEF HolderInv, Tracked, Inv, TypeOK, CoordTypeOK
<1>1. UNCHANGED <<inst, uplink>> /\ InFlight(s) /\ Cancel(s)
  BY DEF CancelSubject, responderVars
<1>2. PICK x \in Effects : x = CancelEffect(s) /\ EffectCovered(s, x)
  BY <1>0, CancelEffectType, MethodsCover DEF Covered
<1>3. x.el = NoElection
  BY <1>2 DEF CancelEffect, Effect, FromInitiator
<1>4. Becomes(s, Retire(x.hs), x.el, x.out)
  <2>1. /\ handshakes' = [t \in Subject |-> IF t \in {s} THEN Retire(CancelEffect(t).hs)
                                            ELSE handshakes[t]]
        /\ elections' = [t \in Subject |-> IF t \in {s} THEN NoElection ELSE elections[t]]
        /\ epochs' = [t \in Subject |-> IF t \in {} THEN 0 ELSE epochs[t]]
        /\ Send(UNION {CancelEffect(t).out : t \in {s}})
    BY <1>1 DEF Cancel, CancelAndForget
  <2>2. epochs' = epochs
    BY <1>0, <2>1 DEF CoordTypeOK
  <2>3. UNION {CancelEffect(t).out : t \in {s}} = x.out
    BY <1>2
  <2>4. \A l \in x.out : l.id = s /\ l.status \notin Openings
    BY <1>2, NothingReopens DEF EffectCovered
  <2>5. x.out \in SUBSET Envelope /\ Send(x.out)
    BY <2>1, <2>3 DEF Effects
  <2>6. handshakes'[s] = Retire(x.hs) /\ elections'[s] = x.el
    BY <1>2, <1>3, <2>1
  <2>7. \A t \in Subject \ {s} : handshakes'[t] = handshakes[t] /\ elections'[t] = elections[t]
    BY <2>1
  <2> QED
    BY <1>1, <2>2, <2>4, <2>5, <2>6, <2>7 DEF Becomes
<1>5. Minds(s, x) /\ Dismisses(s, x)
  BY <1>0, <1>1, <1>2, CancelMinds
<1> QED
  BY <1>1, <1>4, <1>5, BecomesAccounts

-----------------------------------------------------------------------------
(* The theorem about holders                                               *)

\* A cooldown ends, or nothing happens.
LEMMA UntouchedAccounts ==
    ASSUME HolderInv, UNCHANGED <<handshakes, elections, epochs, net, inst, uplink>>
    PROVE  Tracked'
<1>1. \A s \in Subject : Conversation(s) /\ Undecided(s)
  BY DEF HolderInv, Tracked
<1>2. ASSUME NEW s \in Subject PROVE Conversation(s)' /\ Undecided(s)'
  BY <1>1, DictsAlone
<1>3. ASSUME NEW s \in Subject, NEW i \in Instance PROVE Wire(s, i)' /\ Accounted(s, i)'
  BY WireAlone DEF HolderInv, Tracked
<1> QED
  BY <1>2, <1>3 DEF Tracked

\* Nobody holds anything yet.
LEMMA InitAccounts == Init => HolderInv
<1> SUFFICES ASSUME Init PROVE HolderInv
  OBVIOUS
<1>1. Inv /\ Covered
  BY InitEstablishes, InitCovers
<1>2. /\ \A s \in Subject : handshakes[s] = NoInitiator /\ elections[s] = NoElection
      /\ \A s \in Subject, i \in Instance : net[<<s, i>>] = <<>>
      /\ \A i \in Instance : inst[i] = Idle /\ uplink[i] = <<>>
      /\ None \notin Subject
  BY HandshakeAssumption DEF Init, CoordInit, RespondersInit
<1>3. ASSUME NEW s \in Subject PROVE Conversation(s) /\ Undecided(s)
  BY <1>2 DEF Conversation, Undecided, NoInitiator, NoElection
<1>4. ASSUME NEW s \in Subject, NEW i \in Instance PROVE Wire(s, i)
  <2>1. /\ \A statuses : ~Coming(s, i, statuses) /\ ~Said(s, i, statuses)
        /\ ~Holds(s, i) /\ ~Bidding(s, i) /\ ~With(s, i, {"CANCELLED"})
        /\ GrantFirst(net[<<s, i>>], epochs[s])
    BY <1>2 DEF Coming, Said, Holds, Bidding, EngagedIn, With, Says, GrantFirst, Idle,
                NoInitiator, NoElection
  <2> QED
    BY <2>1 DEF Wire
<1>5. ASSUME NEW s \in Subject, NEW i \in Instance PROVE Accounted(s, i)
  BY <1>2 DEF Accounted, Idle
<1> QED
  BY <1>1, <1>3, <1>4, <1>5 DEF HolderInv, Tracked

\* Every step on a bus that loses nothing keeps account of the holders.
LEMMA NextAccounts ==
    ASSUME ~Lossy, HolderInv, [Next]_vars
    PROVE  HolderInv'
<1>0. Inv /\ Covered /\ CoordTypeOK
  BY DEF HolderInv, Tracked, Inv, TypeOK
<1>1. Inv' /\ Covered'
  BY <1>0, NextKeeps, NextCovers
<1> SUFFICES Tracked'
  BY <1>1 DEF HolderInv
<1>2. ASSUME NEW s \in Subject, Request(s) \/ StartElection(s) PROVE Tracked'
  BY <1>0, <1>2, StartOpens, OpeningAccounts
<1>3. ASSUME NEW s \in Subject, CancelSubject(s) PROVE Tracked'
  BY <1>3, CancelAccounts
<1>4. ASSUME NEW s \in Subject, Tick(s) PROVE Tracked'
  BY <1>4, TickAccounts
<1>5. ASSUME NEW i \in Instance, Route(i) PROVE Tracked'
  BY <1>5, RouteAccounts
<1>6. CASE Cool
  BY <1>6, UntouchedAccounts DEF Cool, CooldownOver, responderVars
<1>7. ASSUME NEW i \in Instance, InstanceStep(i) PROVE Tracked'
  BY <1>7, ReceiveAccounts, AnnounceAccounts, ForgettingAccounts DEF InstanceStep
<1>8. ~Lose
  BY DEF Lose, LoseUp, LoseDown
<1>9. CASE UNCHANGED vars
  BY <1>9, UntouchedAccounts DEF vars, coordVars, responderVars
<1> QED
  BY <1>2, <1>3, <1>4, <1>5, <1>6, <1>7, <1>8, <1>9 DEF Next, Environment

\* The same as one formula, for the temporal step.
LEMMA AccountsKept == ~Lossy /\ HolderInv /\ [Next]_vars => HolderInv'
BY NextAccounts

\* When all is quiet, nobody is about to be told anything: the holder is known.
LEMMA HolderIsKnown == HolderInv => NoOrphanHolder
<1> SUFFICES ASSUME HolderInv, Quiescent, NEW i \in Instance, ~Free(i)
             PROVE  handshakes[inst[i].active].receiver = i
  BY DEF NoOrphanHolder
<1>1. /\ CoordTypeOK /\ RespondersTypeOK
  BY DEF HolderInv, Tracked, Inv, TypeOK
<1>2. PICK s \in Subject : s = inst[i].active
  BY <1>1 DEF RespondersTypeOK, Holding, Free
<1>3. Accounted(s, i)
  BY DEF HolderInv, Tracked
<1>4. uplink[i] = <<>> /\ net[<<s, i>>] = <<>>
  BY <1>1 DEF Quiescent, CoordTypeOK
<1>5. Elements(uplink[i]) = {} /\ Elements(net[<<s, i>>]) = {}
  BY <1>4 DEF Elements
<1> QED
  BY <1>2, <1>3, <1>5 DEF Accounted, LettingGo, With

\* Nobody is forgotten: on a bus that loses nothing, whatever an instance still holds
\* when all is quiet, the aggregate knows who holds it, though instances may restart
\* and forget what they hold, and reservations lapse.
THEOREM NoOrphanHolds == ~Lossy => (Spec => []NoOrphanHolder)
<1>1. SUFFICES ASSUME ~Lossy PROVE Spec => []NoOrphanHolder
  OBVIOUS
<1>2. HolderInv /\ [Next]_vars => HolderInv'
  BY <1>1, AccountsKept
<1> QED
  BY <1>2, InitAccounts, HolderIsKnown, PTL DEF Spec
=============================================================================
