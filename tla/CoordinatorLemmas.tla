-------------------------- MODULE CoordinatorLemmas --------------------------
(***************************************************************************)
(* What every method of the coordinator and every step of the responders   *)
(* preserves, whoever owns the coordinator: types, and one dict per        *)
(* subject.  Any sets of subjects and instances, any bound, any faults.    *)
(***************************************************************************)
EXTENDS Responders, TLAPS

Effects == [hs : Initiator, el : Election, out : SUBSET Envelope,
            act : {"NOTHING", "LINK", "RELEASE", "COMPLETE"}, by : Instance \cup {None}]

USE DEF Effect

-----------------------------------------------------------------------------
(* The values the library hands out                                        *)

\* An envelope about a known subject and instance is an envelope.
LEMMA EnvelopeType ==
    ASSUME NEW status \in ToInstance \cup ToAggregate, NEW s \in Subject,
           NEW i \in Instance, NEW e \in Nat
    PROVE  Env(status, s, i, e) \in Envelope
BY DEF Env, Envelope

\* So is each of a batch.
LEMMA ToEachType ==
    ASSUME NEW status \in ToInstance, NEW s \in Subject,
           NEW is \in SUBSET Instance, NEW e \in Nat
    PROVE  ToEach(status, s, is, e) \in SUBSET Envelope
BY DEF Env, Envelope, ToEach

\* The absence of an initiator or of an election is a value of its type.
LEMMA NothingThereType == NoInitiator \in Initiator /\ NoElection \in Election
BY HandshakeAssumption DEF NoInitiator, NoElection, Initiator, InitiatorRecord, Election

\* Answering somebody nobody waits for sends at most an envelope.
LEMMA OrphanReplyType ==
    ASSUME NEW m \in Envelope
    PROVE  LetGo(m) \in SUBSET Envelope /\ OrphanReply(m) \in SUBSET Envelope
BY DEF LetGo, OrphanReply, Env, Envelope, ToInstance

\* Finishing a conversation keeps its type.
LEMMA FinishedType ==
    ASSUME NEW h \in Initiator
    PROVE  Finished(h) \in Initiator
BY DEF Finished, Initiator, InitiatorRecord

Outcomes == [next : Initiator, out : SUBSET Envelope,
             act : {"NOTHING", "LINK", "RELEASE", "COMPLETE"}, by : Instance \cup {None}]

\* HandshakeInitiator.handle() hands out a well-typed outcome.
LEMMA HandleType ==
    ASSUME NEW h \in Initiator, NEW m \in Envelope
    PROVE  Handle(h, m) \in Outcomes
<1> USE DEF Outcomes, Outcome, Quietly
<1>1. LetGo(m) \in SUBSET Envelope /\ Finished(h) \in Initiator
  BY OrphanReplyType, FinishedType
<1>2. m.inst \in Instance
  BY DEF Envelope
<1>3. [h EXCEPT !.state = "CONFIRMED", !.receiver = m.inst, !.asked = {}] \in Initiator
  BY <1>2, HandshakeAssumption DEF Initiator, InitiatorRecord
<1>4. {Env("COMPLETE_ACK", m.id, m.inst, m.epoch)} \in SUBSET Envelope
  BY DEF Env, Envelope, ToInstance
<1> QED
  BY <1>1, <1>2, <1>3, <1>4 DEF Handle

\* So does tick() when the deadline has passed.
LEMMA OverdueType ==
    ASSUME NEW s \in Subject, NEW h \in Initiator
    PROVE  Overdue(s, h) \in Outcomes
<1> USE DEF Outcomes, Outcome, Quietly
<1>1. Finished(h) \in Initiator
  BY FinishedType
<1>2. CASE h.state = "REQUESTED"
  BY <1>1, <1>2 DEF Overdue
<1>3. CASE h.state = "AWARDED"
  <2>1. [h EXCEPT !.state = "CANCELLED"] \in Initiator
    BY <1>3 DEF Initiator, InitiatorRecord
  <2>2. {Env("CANCEL", s, h.receiver, h.epoch)} \in SUBSET Envelope
    BY <1>3 DEF Initiator, InitiatorRecord, Env, Envelope, ToInstance
  <2> QED
    BY <1>3, <2>1, <2>2 DEF Overdue
<1>4. CASE h.state = "CANCELLED"
  <2>1. {Env("CANCEL", s, h.receiver, h.epoch)} \in SUBSET Envelope /\ h.receiver \in Instance
    BY <1>4 DEF Initiator, InitiatorRecord, Env, Envelope, ToInstance
  <2>2. h.tries < MaxTries => [h EXCEPT !.tries = @ + 1] \in Initiator
    BY <1>4, HandshakeAssumption DEF Initiator, InitiatorRecord
  <2>3. h.tries < MaxTries \/ h.tries >= MaxTries
    BY HandshakeAssumption DEF Initiator, InitiatorRecord
  <2> QED
    BY <1>1, <1>4, <2>1, <2>2, <2>3 DEF Overdue
<1>5. CASE h.state \notin {"REQUESTED", "AWARDED", "CANCELLED"}
  BY <1>5 DEF Overdue
<1> QED
  BY <1>2, <1>3, <1>4, <1>5

\* So does cancel().
LEMMA WithdrawType ==
    ASSUME NEW s \in Subject, NEW h \in Initiator
    PROVE  Withdraw(s, h) \in Outcomes
<1>1. EngagedBy(h) \in SUBSET Instance /\ h.epoch \in Nat
  BY DEF EngagedBy, Initiator, InitiatorRecord
<1>2. ToEach("CANCEL", s, EngagedBy(h), h.epoch) \in SUBSET Envelope
  BY <1>1, ToEachType DEF ToInstance
<1>3. ASSUME h.receiver # None
      PROVE  [h EXCEPT !.state = "CANCELLED", !.tries = 0] \in Initiator
  <2>1. 0 \in 0 .. MaxTries
    BY HandshakeAssumption
  <2>2. [h EXCEPT !.state = "CANCELLED", !.tries = 0] \in InitiatorRecord
    BY <2>1 DEF Initiator, InitiatorRecord
  <2> QED
    BY <1>3, <2>2 DEF Initiator, InitiatorRecord
<1> QED
  BY <1>2, <1>3, FinishedType DEF Withdraw, Outcomes, Outcome, Quietly

\* Counting a bid keeps the election well typed.
LEMMA TallyType ==
    ASSUME NEW el \in Election, NEW m \in Envelope
    PROVE  Tally(el, m) \in Election /\ TallyOut(el, m) \in SUBSET Envelope
BY OrphanReplyType DEF Tally, TallyOut, Election, Envelope, EngagedIn

\* Settling a round leaves no election behind (_settle).
LEMMA SettledType ==
    ASSUME NEW s \in Subject, NEW el \in Election, NEW x \in Settled(s, el)
    PROVE  x \in Effects /\ x.el = NoElection
<1>1. PICK w \in Winners(el) :
         x = Effect(Settle(s, el, w), NoElection, AwardOut(s, el, w), "NOTHING", None)
  BY DEF Settled
<1>2. w \in Instance \cup {None} /\ el.epoch \in Nat /\ el.offers \in SUBSET Instance
  BY DEF Winners, Election
<1>3. Settle(s, el, w) \in Initiator
  <2>1. CASE w = None
    BY <2>1, NothingThereType DEF Settle
  <2>2. CASE w # None
    BY <1>2, <2>2, HandshakeAssumption DEF Settle, Awarded, Initiator, InitiatorRecord
  <2> QED
    BY <2>1, <2>2
<1>4. AwardOut(s, el, w) \in SUBSET Envelope
  <2>1. ToEach("CANCEL", s, el.offers \ {w}, el.epoch) \in SUBSET Envelope
    BY <1>2, ToEachType DEF ToInstance
  <2>2. w # None => Env("AWARD", s, w, el.epoch) \in Envelope
    BY <1>2, EnvelopeType DEF ToInstance
  <2> QED
    BY <2>1, <2>2 DEF AwardOut
<1> QED
  BY <1>1, <1>3, <1>4, NothingThereType DEF Effects

-----------------------------------------------------------------------------
(* The effects of the coordinator's methods                                *)

\* An outcome of the initiator is an effect without an election.
LEMMA FromInitiatorType ==
    ASSUME NEW o \in Outcomes
    PROVE  FromInitiator(o) \in Effects /\ FromInitiator(o).el = NoElection
BY NothingThereType DEF FromInitiator, Outcomes, Effects

\* Whatever is routed or ticked, the effect has the right type and leaves the
\* subject in at most one of the two dicts.
AtMostOne(x) == x.hs.state = "NONE" \/ x.el.candidates = {}

\* No election has no candidates.
LEMMA NobodyAsked == NoElection.candidates = {}
BY DEF NoElection

\* route(): see AtMostOne.
LEMMA RouteEffectsType ==
    ASSUME CoordTypeOK, OneDict, NEW m \in Envelope, NEW x \in RouteEffects(m)
    PROVE  x \in Effects /\ AtMostOne(x)
<1> DEFINE s == m.id
           tallied == Tally(elections[s], m)
<1>1. s \in Subject /\ handshakes[s] \in Initiator /\ elections[s] \in Election
  BY DEF CoordTypeOK, Envelope
<1>2. tallied \in Election /\ TallyOut(elections[s], m) \in SUBSET Envelope
  BY <1>1, TallyType
<1>3. CASE HasElection(s) /\ tallied.silent = {}
  BY <1>1, <1>2, <1>3, SettledType, NobodyAsked DEF RouteEffects, AtMostOne
<1>4. CASE HasElection(s) /\ tallied.silent # {}
  <2>1. x = Effect(handshakes[s], tallied, TallyOut(elections[s], m), "NOTHING", None)
    BY <1>4 DEF RouteEffects
  <2>2. handshakes[s].state = "NONE"
    BY <1>1, <1>4 DEF OneDict, HasHandshake
  <2> QED
    BY <1>1, <1>2, <2>1, <2>2 DEF Effects, AtMostOne
<1>5. CASE ~HasElection(s) /\ HasHandshake(s)
  <2>1. x = FromInitiator(Handle(handshakes[s], m))
    BY <1>5 DEF RouteEffects
  <2> QED
    BY <1>1, <2>1, HandleType, FromInitiatorType, NobodyAsked DEF AtMostOne
<1>6. CASE ~HasElection(s) /\ ~HasHandshake(s)
  <2>1. x = Effect(NoInitiator, NoElection, OrphanReply(m), "NOTHING", None)
    BY <1>6 DEF RouteEffects
  <2> QED
    BY <2>1, OrphanReplyType, NothingThereType, NobodyAsked DEF Effects, AtMostOne
<1> QED
  BY <1>3, <1>4, <1>5, <1>6

\* The same for a tick.
LEMMA TickEffectsType ==
    ASSUME CoordTypeOK, NEW s \in Subject, NEW x \in TickEffects(s)
    PROVE  x \in Effects /\ AtMostOne(x)
<1>1. handshakes[s] \in Initiator /\ elections[s] \in Election
  BY DEF CoordTypeOK
<1>2. CASE HasElection(s)
  BY <1>1, <1>2, SettledType, NobodyAsked DEF TickEffects, AtMostOne
<1>3. CASE ~HasElection(s)
  <2>1. x = FromInitiator(Overdue(s, handshakes[s]))
    BY <1>3 DEF TickEffects
  <2> QED
    BY <1>1, <2>1, OverdueType, FromInitiatorType, NobodyAsked DEF AtMostOne
<1> QED
  BY <1>2, <1>3

\* cancel() has a well-typed effect.
LEMMA CancelEffectType ==
    ASSUME CoordTypeOK, NEW s \in Subject
    PROVE  CancelEffect(s) \in Effects
<1>1. handshakes[s] \in Initiator /\ elections[s] \in Election
  BY DEF CoordTypeOK
<1>2. CASE HasElection(s)
  <2>1. ToEach("CANCEL", s, EngagedIn(elections[s]), elections[s].epoch) \in SUBSET Envelope
    BY <1>1, ToEachType DEF EngagedIn, Election, ToInstance
  <2> QED
    BY <1>2, <2>1, NothingThereType DEF CancelEffect, Effects
<1>3. CASE ~HasElection(s)
  BY <1>1, <1>3, WithdrawType, FromInitiatorType, NothingThereType DEF CancelEffect, Effects
<1> QED
  BY <1>2, <1>3

\* _retire keeps the type.
LEMMA RetireType ==
    ASSUME NEW h \in Initiator
    PROVE  Retire(h) \in Initiator
BY NothingThereType DEF Retire

\* Sending envelopes keeps the downlink well typed.
LEMMA SendType ==
    ASSUME CoordTypeOK, NEW out \in SUBSET Envelope, Send(out)
    PROVE  net' \in [Subject \X Instance -> Seq(Envelope)]
<1>1. ASSUME NEW p \in Subject \X Instance
      PROVE  Sent(out, p) \in Seq(Envelope)
  <2> DEFINE new == {m \in out : m.id = p[1] /\ m.inst = p[2]}
             late == IF net[p] = <<>> THEN {} ELSE {net[p][Len(net[p])]}
  <2>1. net[p] \in Seq(Envelope)
    BY DEF CoordTypeOK
  <2>2. CASE new \subseteq late
    BY <2>1, <2>2 DEF Sent
  <2>3. CASE ~(new \subseteq late)
    <3>1. (CHOOSE m \in new : TRUE) \in Envelope
      BY <2>3
    <3> HIDE DEF new, late
    <3>2. Append(net[p], CHOOSE m \in new : TRUE) \in Seq(Envelope)
      BY <2>1, <3>1
    <3> QED
      BY <2>3, <3>2 DEF Sent, new, late
  <2> QED
    BY <2>2, <2>3
<1> QED
  BY <1>1 DEF Send

-----------------------------------------------------------------------------
(* The coordinator's steps keep its types and keep a subject in one dict   *)

\* request() on subjects that are not in flight.
LEMMA OpenRequestsKeeps ==
    ASSUME CoordTypeOK, OneDict, NEW who \in SUBSET Subject,
           NEW targets \in [Subject -> SUBSET Instance],
           \A s \in who : ~InFlight(s),
           OpenRequests(who, targets)
    PROVE  CoordTypeOK' /\ OneDict'
<1>1. epochs \in [Subject -> Nat] /\ epochs' \in [Subject -> Nat]
  BY DEF CoordTypeOK, OpenRequests
<1>2. \A s \in Subject : Requested(targets[s], epochs[s] + 1) \in Initiator
  BY <1>1, HandshakeAssumption DEF Requested, Initiator, InitiatorRecord
<1>3. handshakes' \in [Subject -> Initiator]
  BY <1>2 DEF CoordTypeOK, OpenRequests
<1>4. net' \in [Subject \X Instance -> Seq(Envelope)]
  <2> DEFINE to(s) == IF targets[s] = {} THEN Instance ELSE targets[s]
             out == UNION {ToEach("REQUEST", s, to(s), epochs[s] + 1) : s \in who}
  <2>1. \A s \in who : ToEach("REQUEST", s, to(s), epochs[s] + 1) \in SUBSET Envelope
    <3>1. TAKE s \in who
    <3>2. s \in Subject /\ to(s) \in SUBSET Instance /\ epochs[s] + 1 \in Nat
      BY <1>1
    <3> HIDE DEF to
    <3> QED
      BY <3>2, ToEachType DEF ToInstance
  <2>2. out \in SUBSET Envelope
    BY <2>1
  <2>3. Send(out)
    BY DEF OpenRequests
  <2> HIDE DEF out
  <2> QED
    BY <2>2, <2>3, SendType
<1>5. cooling' \in SUBSET (Subject \X Instance)
  BY DEF CoordTypeOK, OpenRequests
<1>6. elections' = elections
  BY DEF OpenRequests
<1>7. OneDict'
  BY <1>6 DEF CoordTypeOK, OneDict, OpenRequests, HasHandshake, HasElection, InFlight
<1> QED
  BY <1>1, <1>3, <1>4, <1>5, <1>6, <1>7 DEF CoordTypeOK

\* elect() on subjects that are not in flight.
LEMMA OpenElectionsKeeps ==
    ASSUME CoordTypeOK, OneDict, NEW cands \in [Subject -> SUBSET Instance],
           \A s \in Subject : cands[s] # {} => ~InFlight(s),
           OpenElections(cands)
    PROVE  CoordTypeOK' /\ OneDict'
<1> DEFINE who == {s \in Subject : cands[s] # {}}
<1>1. epochs \in [Subject -> Nat] /\ epochs' \in [Subject -> Nat]
  BY DEF CoordTypeOK, OpenElections
<1>2. \A s \in Subject : Opened(cands[s], epochs[s] + 1) \in Election
  BY <1>1 DEF Opened, Election
<1>3. elections' \in [Subject -> Election]
  BY <1>2 DEF CoordTypeOK, OpenElections
<1>4. net' \in [Subject \X Instance -> Seq(Envelope)]
  <2> DEFINE out == UNION {ToEach("REQUEST_BID", s, cands[s], epochs[s] + 1) : s \in who}
  <2>1. \A s \in Subject : ToEach("REQUEST_BID", s, cands[s], epochs[s] + 1) \in SUBSET Envelope
    <3>1. TAKE s \in Subject
    <3>2. cands[s] \in SUBSET Instance /\ epochs[s] + 1 \in Nat
      BY <1>1
    <3> QED
      BY <3>2, ToEachType DEF ToInstance
  <2>2. out \in SUBSET Envelope
    BY <2>1
  <2>3. Send(out)
    BY DEF OpenElections
  <2> HIDE DEF out
  <2> QED
    BY <2>2, <2>3, SendType
<1>5. handshakes' = handshakes /\ cooling' = cooling
  BY DEF OpenElections
<1>6. OneDict'
  BY <1>5 DEF CoordTypeOK, OneDict, OpenElections, HasHandshake, HasElection, InFlight
<1> QED
  BY <1>1, <1>3, <1>4, <1>5, <1>6 DEF CoordTypeOK

\* route() and tick(), once the effect is known.
LEMMA PerformKeeps ==
    ASSUME CoordTypeOK, OneDict, NEW s \in Subject, NEW x \in Effects, AtMostOne(x),
           Perform(s, x)
    PROVE  CoordTypeOK' /\ OneDict'
<1>1. /\ handshakes' = [handshakes EXCEPT ![s] = Retire(x.hs)]
      /\ elections' = [elections EXCEPT ![s] = x.el]
      /\ Send(x.out)
      /\ epochs' = epochs /\ cooling' = cooling
  BY DEF Perform, Interrupted, Effects
<1>2. x.hs \in Initiator /\ x.el \in Election /\ x.out \in SUBSET Envelope
  BY DEF Effects
<1>3. Retire(x.hs) \in Initiator /\ (x.hs.state = "NONE" => Retire(x.hs).state = "NONE")
  BY <1>2, RetireType DEF Retire
<1>4. net' \in [Subject \X Instance -> Seq(Envelope)]
  BY <1>1, <1>2, SendType
<1>5. OneDict'
  BY <1>1, <1>3 DEF CoordTypeOK, OneDict, HasHandshake, HasElection, AtMostOne
<1> QED
  BY <1>1, <1>2, <1>3, <1>4, <1>5 DEF CoordTypeOK

\* cancel() and forget(), one sweep at a time.
LEMMA CancelAndForgetKeeps ==
    ASSUME CoordTypeOK, OneDict, NEW who \in SUBSET Subject, NEW gone \in SUBSET Subject,
           CancelAndForget(who, gone)
    PROVE  CoordTypeOK' /\ OneDict'
<1>1. \A s \in Subject : CancelEffect(s) \in Effects
  BY CancelEffectType
<1>2. \A s \in Subject : Retire(CancelEffect(s).hs) \in Initiator
  BY <1>1, RetireType DEF Effects
<1>3. handshakes' \in [Subject -> Initiator] /\ epochs' \in [Subject -> Nat]
  BY <1>2 DEF CoordTypeOK, CancelAndForget
<1>4. elections' \in [Subject -> Election]
  BY NothingThereType DEF CoordTypeOK, CancelAndForget
<1>5. net' \in [Subject \X Instance -> Seq(Envelope)]
  <2> DEFINE out == UNION {CancelEffect(s).out : s \in who}
  <2>1. out \in SUBSET Envelope
    BY <1>1 DEF Effects
  <2>2. Send(out)
    BY DEF CancelAndForget
  <2> HIDE DEF out
  <2> QED
    BY <2>1, <2>2, SendType
<1>6. cooling' = cooling
  BY DEF CancelAndForget
<1>7. OneDict'
  BY NobodyAsked DEF CoordTypeOK, OneDict, CancelAndForget, HasHandshake, HasElection
<1> QED
  BY <1>3, <1>4, <1>5, <1>6, <1>7 DEF CoordTypeOK

-----------------------------------------------------------------------------
(* The steps of the instances and of the network                           *)

DownTypeOK == net \in [Subject \X Instance -> Seq(Envelope)]

\* A step that touches no more than the downlink.
LEMMA RestoreCoord ==
    ASSUME CoordTypeOK, OneDict, DownTypeOK',
           handshakes' = handshakes, elections' = elections,
           epochs' = epochs, cooling' = cooling
    PROVE  CoordTypeOK' /\ OneDict'
BY DEF CoordTypeOK, DownTypeOK, OneDict, HasHandshake, HasElection

\* Taking the head of a downlink queue.
LEMMA TailKeeps ==
    ASSUME CoordTypeOK, NEW s \in Subject, NEW i \in Instance, net[<<s, i>>] # <<>>,
           net' = [net EXCEPT ![<<s, i>>] = Tail(@)]
    PROVE  DownTypeOK'
<1>1. Tail(net[<<s, i>>]) \in Seq(Envelope)
  BY DEF CoordTypeOK
<1> QED
  BY <1>1 DEF CoordTypeOK, DownTypeOK

\* An instance that reads and stays silent.
LEMMA ReadKeeps ==
    ASSUME RespondersTypeOK, NEW i \in Instance, NEW m, NEW holding \in Holding,
           Read(i, m, holding)
    PROVE  RespondersTypeOK'
BY DEF Read, RespondersTypeOK

\* An instance that answers.
LEMMA AnswerKeeps ==
    ASSUME RespondersTypeOK, NEW i \in Instance, NEW m \in Envelope,
           NEW holding \in Holding, NEW st \in ToAggregate,
           Answer(i, m, holding, st)
    PROVE  RespondersTypeOK'
<1>1. Env(st, m.id, i, m.epoch) \in Envelope
  BY DEF Envelope, Env
<1>2. Append(uplink[i], Env(st, m.id, i, m.epoch)) \in Seq(Envelope)
  BY <1>1 DEF RespondersTypeOK
<1> QED
  BY <1>2 DEF Answer, RespondersTypeOK

\* Everything an instance may end up holding has the right type.
LEMMA HoldingType ==
    ASSUME RespondersTypeOK, NEW i \in Instance, NEW m \in Envelope
    PROVE  /\ inst[i] \in Holding /\ Idle \in Holding
           /\ [active |-> m.id, epoch |-> m.epoch, reserved |-> {}] \in Holding
           /\ [inst[i] EXCEPT !.epoch = m.epoch] \in Holding
           /\ [inst[i] EXCEPT !.reserved = {<<m.id, m.epoch>>}] \in Holding
           /\ [inst[i] EXCEPT !.active = None, !.epoch = 0] \in Holding
           /\ [inst[i] EXCEPT !.reserved = {}] \in Holding
           /\ WithoutActive(i, m) \in Holding
           /\ [WithoutActive(i, m) EXCEPT
                  !.reserved = {r \in @ : r[1] # m.id \/ r[2] > m.epoch}] \in Holding
<1>1. inst[i] \in Holding /\ m.id \in Subject /\ m.epoch \in Nat
  BY DEF RespondersTypeOK, Envelope
<1>2. WithoutActive(i, m) \in Holding
  BY <1>1 DEF Holding, WithoutActive
<1>3. \A h \in Holding :
         [h EXCEPT !.reserved = {r \in @ : r[1] # m.id \/ r[2] > m.epoch}] \in Holding
  BY DEF Holding
<1>4. Idle \in Holding /\ [active |-> m.id, epoch |-> m.epoch, reserved |-> {}] \in Holding
  BY <1>1 DEF Holding, Idle
<1>5. \A h \in Holding : /\ [h EXCEPT !.epoch = m.epoch] \in Holding
                          /\ [h EXCEPT !.active = None, !.epoch = 0] \in Holding
                          /\ [h EXCEPT !.reserved = {}] \in Holding
  BY <1>1 DEF Holding
<1>6. \A h \in Holding : [h EXCEPT !.reserved = {<<m.id, m.epoch>>}] \in Holding
  BY <1>1 DEF Holding
<1> QED
  BY <1>1, <1>2, <1>3, <1>4, <1>5, <1>6

\* An instance handles an envelope of the aggregate.
LEMMA ReceiveKeeps ==
    ASSUME CoordTypeOK, OneDict, RespondersTypeOK, NEW i \in Instance, Receive(i)
    PROVE  CoordTypeOK' /\ OneDict' /\ RespondersTypeOK'
<1>1. PICK s \in Subject :
         /\ net[<<s, i>>] # <<>>
         /\ net' = [net EXCEPT ![<<s, i>>] = Tail(@)]
         /\ UNCHANGED <<handshakes, elections, epochs, cooling>>
         /\ LET m == Head(net[<<s, i>>])
            IN  \/ OnRequest(i, m) \/ OnRequestBid(i, m) \/ OnAward(i, m)
                \/ OnCancel(i, m) \/ OnCompleteAck(i, m)
  BY DEF Receive
<1>2. PICK m \in Envelope : \/ OnRequest(i, m) \/ OnRequestBid(i, m) \/ OnAward(i, m)
                            \/ OnCancel(i, m) \/ OnCompleteAck(i, m)
  <2>1. Head(net[<<s, i>>]) \in Envelope
    BY <1>1 DEF CoordTypeOK
  <2> QED
    BY <1>1, <2>1
<1>3. RespondersTypeOK'
  <2> USE HoldingType, AnswerKeeps, ReadKeeps DEF ToAggregate
  <2>1. CASE OnRequest(i, m)
    BY <2>1 DEF OnRequest
  <2>2. CASE OnRequestBid(i, m)
    BY <2>2 DEF OnRequestBid
  <2>3. CASE OnAward(i, m)
    BY <2>3 DEF OnAward
  <2>4. CASE OnCancel(i, m)
    BY <2>4 DEF OnCancel
  <2>5. CASE OnCompleteAck(i, m)
    BY <2>5 DEF OnCompleteAck
  <2> QED
    BY <1>2, <2>1, <2>2, <2>3, <2>4, <2>5
<1>4. DownTypeOK'
  BY <1>1, TailKeeps
<1> QED
  BY <1>1, <1>3, <1>4, RestoreCoord

\* An instance speaks up by itself.
LEMMA AnnounceKeeps ==
    ASSUME RespondersTypeOK, NEW i \in Instance, NEW st \in ToAggregate,
           NEW holding \in Holding, Announce(i, st, holding)
    PROVE  RespondersTypeOK' /\ UNCHANGED coordVars
<1> DEFINE m == Env(st, inst[i].active, i, inst[i].epoch)
<1>1. m \in Envelope
  BY DEF Announce, Free, RespondersTypeOK, Holding, Envelope, Env
<1>2. Append(uplink[i], m) \in Seq(Envelope)
  BY <1>1 DEF RespondersTypeOK
<1> QED
  BY <1>2 DEF Announce, RespondersTypeOK

\* The aggregate takes an envelope off the bus.
LEMMA TakeKeeps ==
    ASSUME RespondersTypeOK, NEW i \in Instance, Take(i)
    PROVE  RespondersTypeOK' /\ Head(uplink[i]) \in Envelope
<1>1. Tail(uplink[i]) \in Seq(Envelope) /\ Head(uplink[i]) \in Envelope
  BY DEF Take, RespondersTypeOK
<1> QED
  BY <1>1 DEF Take, RespondersTypeOK

\* Every step of the instances and of the network.
LEMMA EnvironmentKeeps ==
    ASSUME CoordTypeOK, OneDict, RespondersTypeOK, Environment
    PROVE  CoordTypeOK' /\ OneDict' /\ RespondersTypeOK'
<1>1. ASSUME UNCHANGED coordVars, RespondersTypeOK'
      PROVE  CoordTypeOK' /\ OneDict' /\ RespondersTypeOK'
  BY <1>1 DEF coordVars, CoordTypeOK, OneDict, HasHandshake, HasElection
<1>2. ASSUME NEW i \in Instance, InstanceStep(i)
      PROVE  CoordTypeOK' /\ OneDict' /\ RespondersTypeOK'
  <2>2. /\ inst[i] \in Holding /\ Idle \in Holding
        /\ [inst[i] EXCEPT !.active = None, !.epoch = 0] \in Holding
        /\ [inst[i] EXCEPT !.reserved = {}] \in Holding
    BY DEF RespondersTypeOK, Holding, Idle
  <2>3. CASE Receive(i)
    BY <2>3, ReceiveKeeps
  <2>4. CASE Revoke(i)
    BY <1>1, <2>2, <2>4, AnnounceKeeps DEF Revoke, ToAggregate
  <2>5. CASE Complete(i)
    BY <1>1, <2>2, <2>5, AnnounceKeeps DEF Complete, ToAggregate
  <2>6. CASE ReservationLapses(i)
    BY <1>1, <2>2, <2>6 DEF ReservationLapses, RespondersTypeOK
  <2>7. CASE Restart(i)
    BY <1>1, <2>2, <2>7 DEF Restart, RespondersTypeOK
  <2> QED
    BY <1>2, <2>3, <2>4, <2>5, <2>6, <2>7 DEF InstanceStep
<1>3. ASSUME NEW s \in Subject, NEW i \in Instance, LoseDown(s, i)
      PROVE  CoordTypeOK' /\ OneDict' /\ RespondersTypeOK'
  <2>1. DownTypeOK'
    BY <1>3, TailKeeps DEF LoseDown
  <2> QED
    BY <1>3, <2>1, RestoreCoord DEF LoseDown, RespondersTypeOK
<1>4. ASSUME NEW i \in Instance, LoseUp(i)
      PROVE  CoordTypeOK' /\ OneDict' /\ RespondersTypeOK'
  BY <1>1, <1>4, TakeKeeps DEF LoseUp
<1> QED
  BY <1>2, <1>3, <1>4 DEF Environment, Lose

-----------------------------------------------------------------------------
(* What a conversation tells its owner                                     *)

Held(h) == h.state \in {"CONFIRMED", "CANCELLED"}

\* cancel() on a conversation with somebody: the same somebody gives it back.
LEMMA WithdrawHeld ==
    ASSUME NEW s, NEW h \in Initiator, h.receiver # None
    PROVE  /\ Withdraw(s, h).next.state = "CANCELLED"
           /\ Withdraw(s, h).next.receiver = h.receiver
BY DEF Withdraw, Quietly, Outcome, Initiator, InitiatorRecord

\* A quiet step leaves a held subject where it is, a link comes from a conversation
\* nobody held, a release names the holder, and only a confirmed subject completes.
Told(h, act, by, next) ==
    /\ act = "NOTHING" /\ Held(h) => next.state = h.state /\ next.receiver = h.receiver
    /\ act = "LINK" => ~Held(h) /\ next.state = "CONFIRMED" /\ next.receiver = by /\ by \in Instance
    /\ act = "RELEASE" => Held(h) /\ next.state = "DONE" /\ by = h.receiver /\ by \in Instance
    /\ act = "COMPLETE" => h.state = "CONFIRMED"

Tells(a, x) == Told(handshakes[a], x.act, x.by, x.hs)

\* Settling a round calls no hook.
LEMMA SettledIsQuiet ==
    ASSUME NEW s, NEW el, NEW x \in Settled(s, el)
    PROVE  x.act = "NOTHING"
BY DEF Settled

\* handle() tells it, one branch at a time.
LEMMA HandleTells ==
    ASSUME NEW h \in Initiator, NEW m \in Envelope
    PROVE  LET o == Handle(h, m) IN Told(h, o.act, o.by, o.next)
<1> DEFINE holder == m.inst = h.receiver
           link == m.status = "ACK" /\ Answers(h, m.inst)
           refuse == m.status = "NACK" /\ Answers(h, m.inst) /\ (h.asked # {} \/ holder)
           revoke == m.status = "REVOKE" /\ holder /\ h.state \in {"CONFIRMED", "CANCELLED"}
           ack == m.status = "CANCEL_ACK" /\ holder /\ h.state = "CANCELLED"
           done == m.status = "COMPLETE" /\ holder /\ h.state = "CONFIRMED" /\ CompletionLeg
<1> USE DEF Told, Held, Outcome, Quietly
<1>0. Finished(h).state = "DONE"
  BY DEF Finished, Initiator, InitiatorRecord
<1>1. m.inst \in Instance /\ (Answers(h, m.inst) => ~Held(h))
  BY DEF Envelope, Answers
<1>2. CASE m.epoch # h.epoch
  <2>1. Handle(h, m) = Quietly(h, LetGo(m))
    BY <1>2 DEF Handle
  <2> QED
    BY <2>1
<1>3. CASE m.epoch = h.epoch /\ link
  <2> DEFINE next == [h EXCEPT !.state = "CONFIRMED", !.receiver = m.inst, !.asked = {}]
  <2>1. Handle(h, m) = Outcome(next, {}, "LINK", m.inst)
    BY <1>3 DEF Handle
  <2>2. next.state = "CONFIRMED" /\ next.receiver = m.inst
    BY DEF Initiator, InitiatorRecord
  <2> HIDE DEF next
  <2> QED
    BY <1>1, <1>3, <2>1, <2>2
<1>4. CASE m.epoch = h.epoch /\ refuse
  <2>1. Handle(h, m) = Quietly(Finished(h), {})
    BY <1>4 DEF Handle
  <2> QED
    BY <1>1, <1>4, <2>1
<1>5. CASE m.epoch = h.epoch /\ (revoke \/ ack)
  <2>1. Handle(h, m) = Outcome(Finished(h), {}, "RELEASE", m.inst)
    BY <1>5 DEF Handle
  <2> QED
    BY <1>0, <1>1, <1>5, <2>1
<1>6. CASE m.epoch = h.epoch /\ done
  <2>1. Handle(h, m) = Outcome(Finished(h), {Env("COMPLETE_ACK", m.id, m.inst, m.epoch)},
                               "COMPLETE", m.inst)
    BY <1>6 DEF Handle
  <2> QED
    BY <1>6, <2>1
<1>7. CASE m.epoch = h.epoch /\ ~link /\ ~refuse /\ ~revoke /\ ~ack /\ ~done
  <2>1. Handle(h, m) = Quietly(h, IF holder THEN {} ELSE LetGo(m))
    BY <1>7 DEF Handle
  <2> QED
    BY <2>1
<1> QED
  BY <1>2, <1>3, <1>4, <1>5, <1>6, <1>7

\* route() tells it.
LEMMA RouteTells ==
    ASSUME CoordTypeOK, OneDict, NEW m \in Envelope, NEW x \in RouteEffects(m)
    PROVE  Tells(m.id, x)
<1> DEFINE s == m.id
           h == handshakes[s]
<1>1. s \in Subject /\ h \in Initiator /\ m.inst \in Instance
  BY DEF CoordTypeOK, Envelope
<1>2. CASE HasElection(s)
  <2>1. ~Held(h)
    BY <1>1, <1>2 DEF OneDict, HasHandshake, Held
  <2>2. x.act = "NOTHING"
    BY <1>2, SettledIsQuiet DEF RouteEffects
  <2> QED
    BY <2>1, <2>2 DEF Tells, Told
<1>3. CASE ~HasElection(s) /\ ~HasHandshake(s)
  BY <1>3 DEF RouteEffects, Tells, Told, HasHandshake, Held
<1>4. CASE ~HasElection(s) /\ HasHandshake(s)
  <2>1. x = FromInitiator(Handle(h, m))
    BY <1>4 DEF RouteEffects
  <2>2. /\ x.act = Handle(h, m).act /\ x.by = Handle(h, m).by
        /\ x.hs = Handle(h, m).next
    BY <2>1 DEF FromInitiator
  <2> QED
    BY <1>1, <2>2, HandleTells DEF Tells
<1> QED
  BY <1>2, <1>3, <1>4

\* tick() tells it.
LEMMA TickTells ==
    ASSUME CoordTypeOK, OneDict, NEW s \in Subject, NEW x \in TickEffects(s)
    PROVE  Tells(s, x)
<1> DEFINE h == handshakes[s]
<1>1. h \in Initiator
  BY DEF CoordTypeOK
<1>2. CASE HasElection(s)
  <2>1. ~Held(h)
    BY <1>1, <1>2 DEF OneDict, HasHandshake, Held
  <2>2. x.act = "NOTHING"
    BY <1>2, SettledIsQuiet DEF TickEffects
  <2> QED
    BY <2>1, <2>2 DEF Tells, Told
<1>3. CASE ~HasElection(s)
  <2>1. /\ x.act = Overdue(s, h).act /\ x.by = Overdue(s, h).by
        /\ x.hs = Overdue(s, h).next
    BY <1>3 DEF TickEffects, FromInitiator
  <2> QED
    BY <1>1, <2>1
       DEF Overdue, Quietly, Outcome, Finished, Tells, Told, Held, Initiator, InitiatorRecord
<1> QED
  BY <1>2, <1>3

\* handle() never makes an initiator disappear.
LEMMA HandleStays ==
    ASSUME NEW h \in Initiator, NEW m \in Envelope, h.state # "NONE"
    PROVE  Handle(h, m).next.state # "NONE"
<1> DEFINE linked == [h EXCEPT !.state = "CONFIRMED", !.receiver = m.inst, !.asked = {}]
<1>1. linked.state = "CONFIRMED" /\ Finished(h).state = "DONE"
  BY DEF Finished, Initiator, InitiatorRecord
<1> HIDE DEF linked
<1>2. Handle(h, m).next \in {h, linked, Finished(h)}
  BY DEF Handle, Quietly, Outcome, linked
<1> QED
  BY <1>1, <1>2

\* An effect that leaves a subject in neither dict leaves nothing of it (_retire).
LEMMA LeavesNothing ==
    ASSUME CoordTypeOK, OneDict,
           NEW x, \/ \E m \in Envelope : x \in RouteEffects(m)
                  \/ \E s \in Subject : InFlight(s) /\ x \in TickEffects(s),
           Retire(x.hs).state = "NONE", x.el.candidates = {}
    PROVE  Retire(x.hs) = NoInitiator /\ x.el = NoElection
<1>1. ASSUME NEW s, NEW el, x \in Settled(s, el)
      PROVE  Retire(x.hs) = NoInitiator /\ x.el = NoElection
  BY <1>1 DEF Settled, Settle, Awarded, Retire
<1>2. ASSUME NEW s \in Subject, HasHandshake(s), NEW o, x = FromInitiator(o), o.next.state # "NONE"
      PROVE  Retire(x.hs) = NoInitiator /\ x.el = NoElection
  BY <1>2 DEF FromInitiator, Retire
<1>3. ASSUME NEW m \in Envelope, x \in RouteEffects(m)
      PROVE  Retire(x.hs) = NoInitiator /\ x.el = NoElection
  <2> DEFINE s == m.id
             tallied == Tally(elections[s], m)
  <2>1. s \in Subject /\ handshakes[s] \in Initiator
    BY DEF Envelope, CoordTypeOK
  <2>2. CASE HasElection(s) /\ tallied.silent = {}
    BY <1>1, <1>3, <2>2 DEF RouteEffects
  <2>3. CASE HasElection(s) /\ tallied.silent # {}
    <3>1. tallied.candidates = elections[s].candidates
      BY <2>1 DEF Tally, CoordTypeOK, Election
    <3> QED
      BY <1>3, <2>3, <3>1 DEF RouteEffects, HasElection
  <2>4. CASE ~HasElection(s) /\ HasHandshake(s)
    <3>1. Handle(handshakes[s], m).next.state # "NONE"
      <4>1. handshakes[s].state # "NONE"
        BY <2>4 DEF HasHandshake
      <4> QED
        BY <2>1, <4>1, HandleStays
    <3> QED
      BY <1>2, <1>3, <2>1, <2>4, <3>1 DEF RouteEffects
  <2>5. CASE ~HasElection(s) /\ ~HasHandshake(s)
    BY <1>3, <2>5 DEF RouteEffects, Retire, NoInitiator
  <2> QED
    BY <2>2, <2>3, <2>4, <2>5
<1>4. ASSUME NEW s \in Subject, InFlight(s), x \in TickEffects(s)
      PROVE  Retire(x.hs) = NoInitiator /\ x.el = NoElection
  <2>1. CASE HasElection(s)
    BY <1>1, <1>4, <2>1 DEF TickEffects
  <2>2. CASE ~HasElection(s)
    <3>1. handshakes[s] \in Initiator /\ handshakes[s].state # "NONE" /\ HasHandshake(s)
      BY <1>4, <2>2 DEF InFlight, HasHandshake, CoordTypeOK
    <3>2. Overdue(s, handshakes[s]).next.state # "NONE"
      BY <3>1 DEF Overdue, Quietly, Outcome, Finished, Initiator, InitiatorRecord
    <3> QED
      BY <1>2, <1>4, <2>2, <3>1, <3>2 DEF TickEffects
  <2> QED
    BY <2>1, <2>2
<1> QED
  BY <1>3, <1>4

\* What cancel() leaves is on its way out.
LEMMA CancelEnds ==
    ASSUME CoordTypeOK, NEW s \in Subject
    PROVE  Retire(CancelEffect(s).hs).state \in {"NONE", "CANCELLED"}
<1>1. handshakes[s] \in Initiator
  BY DEF CoordTypeOK
<1>2. CASE HasElection(s) \/ ~HasHandshake(s) \/ Releasing(s) \/ handshakes[s].state = "DONE"
  BY <1>2 DEF CancelEffect, Retire, NoInitiator, HasHandshake, Releasing
<1>3. CASE ~(HasElection(s) \/ ~HasHandshake(s) \/ Releasing(s) \/ handshakes[s].state = "DONE")
  <2>1. CancelEffect(s) = FromInitiator(Withdraw(s, handshakes[s]))
    BY <1>3 DEF CancelEffect
  <2>2. Withdraw(s, handshakes[s]).next.state \in {"DONE", "CANCELLED"}
    BY <1>1, WithdrawHeld DEF Withdraw, Quietly, Outcome, Finished, Initiator, InitiatorRecord
  <2> QED
    BY <2>1, <2>2 DEF FromInitiator, Retire, NoInitiator
<1> QED
  BY <1>2, <1>3
-----------------------------------------------------------------------------
(* Who is engaged: the aggregate's own bookkeeping.  An owner that names   *)
(* everybody it asks never has an instance under two subjects, whatever    *)
(* happens to the messages.                                                *)

\* A request names somebody, and nobody is its receiver before the answer.
Specific(h) == h.state \in {"NONE", "REQUESTED"} =>
    h.receiver = None /\ (h.state = "REQUESTED" <=> h.asked # {})

\* Without candidates there are no bidders.
Counted(el) == el.candidates = {} => EngagedIn(el) = {}

\* Nobody holds the subject yet, but somebody may come to.
Open(h, el) == h.state \in {"REQUESTED", "AWARDED"} \/ el.candidates # {}

\* An instance is engaged by one subject.
Apart == /\ \A s \in Subject : Specific(handshakes[s]) /\ Counted(elections[s])
         /\ \A s, t \in Subject : s # t => Engaged(s) \cap Engaged(t) = {}

\* A conversation that goes on engages nobody else, and only an open one may link.  To
\* link is the one way to be confirmed.
Narrows(s, x) ==
    /\ Specific(x.hs) /\ Counted(x.el)
    /\ EngagedBy(x.hs) \cup EngagedIn(x.el) \subseteq Engaged(s)
    /\ Open(x.hs, x.el) \/ x.act = "LINK" => Open(handshakes[s], elections[s])
    /\ x.hs.state = "CONFIRMED" => x.act = "LINK" \/ handshakes[s].state = "CONFIRMED"

\* The absence of a conversation engages nobody.
LEMMA NobodyEngaged ==
    /\ Specific(NoInitiator) /\ EngagedBy(NoInitiator) = {}
    /\ Counted(NoElection) /\ EngagedIn(NoElection) = {}
    /\ ~Open(NoInitiator, NoElection)
BY DEF Specific, Counted, NoInitiator, NoElection, EngagedBy, EngagedIn, Open

\* handle() and tick() of an initiator.
LEMMA InitiatorNarrows ==
    ASSUME NEW h \in Initiator, Specific(h), NEW o,
           \/ \E m \in Envelope : o = Handle(h, m)
           \/ \E s \in Subject : o = Overdue(s, h)
    PROVE  /\ Specific(o.next) /\ EngagedBy(o.next) \subseteq EngagedBy(h)
           /\ o.next.state \in {"REQUESTED", "AWARDED"} \/ o.act = "LINK" =>
                 h.state \in {"REQUESTED", "AWARDED"}
           /\ o.next.state = "CONFIRMED" => o.act = "LINK" \/ h.state = "CONFIRMED"
<1> USE DEF Outcome, Quietly
<1> DEFINE Fine(n, act) == /\ Specific(n) /\ EngagedBy(n) \subseteq EngagedBy(h)
                           /\ n.state \in {"REQUESTED", "AWARDED"} \/ act = "LINK" =>
                                 h.state \in {"REQUESTED", "AWARDED"}
                           /\ n.state = "CONFIRMED" => act = "LINK" \/ h.state = "CONFIRMED"
<1>1. \A act : act # "LINK" => Fine(h, act) /\ Fine(Finished(h), act)
  BY DEF Finished, Specific, EngagedBy, Initiator, InitiatorRecord
<1>2. ASSUME NEW m \in Envelope, o = Handle(h, m) PROVE Fine(o.next, o.act)
  <2> DEFINE linked == [h EXCEPT !.state = "CONFIRMED", !.receiver = m.inst, !.asked = {}]
  <2>1. Answers(h, m.inst) => Fine(linked, "LINK")
    <3> HAVE Answers(h, m.inst)
    <3>1. linked.state = "CONFIRMED" /\ linked.receiver = m.inst /\ m.inst # None
      BY HandshakeAssumption DEF Initiator, InitiatorRecord, Envelope
    <3>2. m.inst \in EngagedBy(h) /\ h.state \in {"REQUESTED", "AWARDED"}
      BY DEF Answers, EngagedBy, Specific, Initiator, InitiatorRecord
    <3> HIDE DEF linked
    <3> QED
      BY <3>1, <3>2 DEF Specific, EngagedBy
  <2>2. \/ Answers(h, m.inst) /\ o.next = linked /\ o.act = "LINK"
        \/ o.next \in {h, Finished(h)} /\ o.act # "LINK"
    BY <1>2 DEF Handle
  <2> HIDE DEF linked, Fine
  <2> QED
    BY <1>1, <2>1, <2>2
<1>3. ASSUME NEW s \in Subject, o = Overdue(s, h) PROVE Fine(o.next, o.act)
  <2>1. CASE o.next \in {h, Finished(h)} /\ o.act # "LINK"
    <3> HIDE DEF Fine
    <3> QED
      BY <1>1, <2>1
  <2>2. CASE h.state = "AWARDED"
    BY <1>3, <2>2 DEF Overdue, Specific, EngagedBy, Initiator, InitiatorRecord
  <2>3. CASE h.state = "CANCELLED" /\ h.tries < MaxTries
    <3>1. o.next = [h EXCEPT !.tries = @ + 1] /\ o.act = "NOTHING"
      <4>1. ~(h.tries >= MaxTries)
        BY <2>3, HandshakeAssumption DEF Initiator, InitiatorRecord
      <4> QED
        BY <1>3, <2>3, <4>1 DEF Overdue
    <3>2. o.next.state = "CANCELLED" /\ o.next.receiver = h.receiver /\ o.next.asked = h.asked
      BY <2>3, <3>1 DEF Initiator, InitiatorRecord
    <3> QED
      BY <3>1, <3>2 DEF Specific, EngagedBy
  <2> QED
    BY <1>3, <2>1, <2>2, <2>3 DEF Overdue
<1> QED
  BY <1>2, <1>3

\* A round that closes engages the winner at most.
LEMMA SettledNarrows ==
    ASSUME NEW s \in Subject, NEW el \in Election, NEW x \in Settled(s, el)
    PROVE  /\ Specific(x.hs) /\ EngagedBy(x.hs) \cup EngagedIn(x.el) \subseteq EngagedIn(el)
           /\ Counted(x.el) /\ x.act # "LINK" /\ x.hs.state # "CONFIRMED"
<1>1. PICK w \in Winners(el) :
         x = Effect(Settle(s, el, w), NoElection, AwardOut(s, el, w), "NOTHING", None)
  BY DEF Settled
<1>2. CASE w = None
  BY <1>1, <1>2, NobodyEngaged DEF Settle, NoInitiator
<1>3. CASE w # None
  <2>1. w \in el.offers /\ x.hs = Awarded(w, el.epoch) /\ x.el = NoElection
    BY <1>1, <1>3 DEF Winners, Settle
  <2>2. Specific(x.hs) /\ EngagedBy(x.hs) = {w} /\ x.hs.state = "AWARDED"
    BY <1>3, <2>1 DEF Awarded, Specific, EngagedBy
  <2> QED
    BY <1>1, <2>1, <2>2, NobodyEngaged DEF EngagedIn
<1> QED
  BY <1>2, <1>3

\* route() engages nobody else.
LEMMA RouteNarrows ==
    ASSUME CoordTypeOK, OneDict, NEW m \in Envelope, Specific(handshakes[m.id]),
           NEW x \in RouteEffects(m)
    PROVE  Narrows(m.id, x)
<1> DEFINE s == m.id
           tallied == Tally(elections[s], m)
<1>1. s \in Subject /\ handshakes[s] \in Initiator /\ elections[s] \in Election
  BY DEF CoordTypeOK, Envelope
<1>2. /\ tallied \in Election /\ EngagedIn(tallied) \subseteq EngagedIn(elections[s])
      /\ tallied.candidates = elections[s].candidates
  BY <1>1, TallyType DEF Tally, EngagedIn, Election
<1>3. CASE HasElection(s) /\ tallied.silent = {}
  <2>1. x \in Settled(s, tallied)
    BY <1>3 DEF RouteEffects
  <2> HIDE DEF tallied
  <2>2. /\ Specific(x.hs) /\ EngagedBy(x.hs) \cup EngagedIn(x.el) \subseteq EngagedIn(tallied)
        /\ Counted(x.el) /\ x.hs.state # "CONFIRMED"
    BY <1>1, <1>2, <2>1, SettledNarrows
  <2> QED
    BY <1>2, <1>3, <2>2 DEF Narrows, Engaged, Open, HasElection
<1>4. CASE HasElection(s) /\ tallied.silent # {}
  <2>1. x = Effect(handshakes[s], tallied, TallyOut(elections[s], m), "NOTHING", None)
    BY <1>4 DEF RouteEffects
  <2> QED
    BY <1>2, <1>4, <2>1 DEF Narrows, Engaged, Open, HasElection, Counted
<1>5. CASE ~HasElection(s) /\ HasHandshake(s)
  <2> DEFINE o == Handle(handshakes[s], m)
  <2>1. x.hs = o.next /\ x.el = NoElection /\ x.act = o.act
    BY <1>5 DEF RouteEffects, FromInitiator
  <2>2. /\ Specific(o.next) /\ EngagedBy(o.next) \subseteq EngagedBy(handshakes[s])
        /\ o.next.state \in {"REQUESTED", "AWARDED"} \/ o.act = "LINK" =>
              handshakes[s].state \in {"REQUESTED", "AWARDED"}
        /\ o.next.state = "CONFIRMED" => o.act = "LINK" \/ handshakes[s].state = "CONFIRMED"
    BY <1>1, InitiatorNarrows
  <2> HIDE DEF o
  <2> QED
    BY <2>1, <2>2, NobodyEngaged, NobodyAsked DEF Narrows, Engaged, Open
<1>6. CASE ~HasElection(s) /\ ~HasHandshake(s)
  <2>1. x = Effect(NoInitiator, NoElection, OrphanReply(m), "NOTHING", None)
    BY <1>6 DEF RouteEffects
  <2> QED
    BY <2>1, NobodyEngaged DEF Narrows, NoInitiator
<1> QED
  BY <1>3, <1>4, <1>5, <1>6

\* tick() engages nobody else.
LEMMA TickNarrows ==
    ASSUME CoordTypeOK, NEW s \in Subject, Specific(handshakes[s]), NEW x \in TickEffects(s)
    PROVE  Narrows(s, x)
<1>1. handshakes[s] \in Initiator /\ elections[s] \in Election
  BY DEF CoordTypeOK
<1>2. CASE HasElection(s)
  <2>1. /\ Specific(x.hs) /\ Counted(x.el) /\ x.act # "LINK" /\ x.hs.state # "CONFIRMED"
        /\ EngagedBy(x.hs) \cup EngagedIn(x.el) \subseteq EngagedIn(elections[s])
    BY <1>1, <1>2, SettledNarrows DEF TickEffects
  <2> QED
    BY <1>2, <2>1 DEF Narrows, Engaged, Open, HasElection
<1>3. CASE ~HasElection(s)
  <2> DEFINE o == Overdue(s, handshakes[s])
  <2>1. x.hs = o.next /\ x.el = NoElection /\ x.act = o.act
    BY <1>3 DEF TickEffects, FromInitiator
  <2>2. /\ Specific(o.next) /\ EngagedBy(o.next) \subseteq EngagedBy(handshakes[s])
        /\ o.next.state \in {"REQUESTED", "AWARDED"} \/ o.act = "LINK" =>
              handshakes[s].state \in {"REQUESTED", "AWARDED"}
        /\ o.next.state = "CONFIRMED" => o.act = "LINK" \/ handshakes[s].state = "CONFIRMED"
    BY <1>1, InitiatorNarrows
  <2> HIDE DEF o
  <2> QED
    BY <2>1, <2>2, NobodyEngaged, NobodyAsked DEF Narrows, Engaged, Open
<1> QED
  BY <1>2, <1>3

\* cancel() engages nobody else, and what it leaves is not open.
LEMMA CancelNarrows ==
    ASSUME CoordTypeOK, NEW s \in Subject
    PROVE  /\ Specific(Retire(CancelEffect(s).hs)) \/ Retire(CancelEffect(s).hs) = handshakes[s]
           /\ EngagedBy(Retire(CancelEffect(s).hs)) \subseteq Engaged(s)
           /\ Retire(CancelEffect(s).hs).state \notin {"REQUESTED", "AWARDED"}
<1>1. handshakes[s] \in Initiator
  BY DEF CoordTypeOK
<1>2. Retire(CancelEffect(s).hs).state \notin {"REQUESTED", "AWARDED"}
  BY CancelEnds
<1>3. CASE HasElection(s) \/ ~HasHandshake(s) \/ Releasing(s) \/ handshakes[s].state = "DONE"
  BY <1>2, <1>3, NobodyEngaged DEF CancelEffect, Retire, Engaged
<1>4. CASE ~(HasElection(s) \/ ~HasHandshake(s) \/ Releasing(s) \/ handshakes[s].state = "DONE")
  <2>1. CancelEffect(s).hs = Withdraw(s, handshakes[s]).next
    BY <1>4 DEF CancelEffect, FromInitiator
  <2>2. CASE handshakes[s].receiver = None
    <3>1. CancelEffect(s).hs.state = "DONE"
      BY <1>1, <2>1, <2>2 DEF Withdraw, Quietly, Outcome, Finished, Initiator, InitiatorRecord
    <3> QED
      BY <1>2, <3>1, NobodyEngaged DEF Retire
  <2>3. CASE handshakes[s].receiver # None
    <3>1. /\ CancelEffect(s).hs.state = "CANCELLED"
          /\ CancelEffect(s).hs.receiver = handshakes[s].receiver
      BY <1>1, <2>1, <2>3, WithdrawHeld
    <3>2. Retire(CancelEffect(s).hs) = CancelEffect(s).hs
      BY <3>1 DEF Retire
    <3> QED
      BY <1>2, <2>3, <3>1, <3>2 DEF Specific, Engaged, EngagedBy
  <2> QED
    BY <2>2, <2>3
<1> QED
  BY <1>3, <1>4

\* Nobody is engaged by two subjects if whoever is engaged anew was engaged by none.
LEMMA ApartAfter ==
    ASSUME Apart, NEW new \in [Subject -> SUBSET Instance],
           \A s \in Subject : /\ Specific(handshakes'[s]) /\ Counted(elections'[s])
                              /\ Engaged(s)' \subseteq Engaged(s) \cup new[s]
                              /\ new[s] \cap EngagedInstances = {},
           \A s, t \in Subject : s # t => new[s] \cap new[t] = {}
    PROVE  Apart'
<1> SUFFICES ASSUME NEW s \in Subject, NEW t \in Subject, s # t, NEW i \in Engaged(s)', i \in Engaged(t)'
             PROVE  FALSE
  BY DEF Apart
<1>1. i \in Engaged(s) \cup new[s] /\ i \in Engaged(t) \cup new[t]
  OBVIOUS
<1>2. Engaged(s) \subseteq EngagedInstances /\ Engaged(t) \subseteq EngagedInstances
  BY DEF EngagedInstances
<1>3. Engaged(s) \cap Engaged(t) = {} /\ new[s] \cap new[t] = {}
  BY DEF Apart
<1> QED
  BY <1>1, <1>2, <1>3

\* request() engages whom it asks.
LEMMA OpenRequestsEngages ==
    ASSUME CoordTypeOK, NEW who \in SUBSET Subject, NEW targets \in [Subject -> SUBSET Instance],
           OpenRequests(who, targets), NEW s \in Subject
    PROVE  /\ s \in who => /\ Engaged(s)' \subseteq Engaged(s) \cup targets[s]
                           /\ targets[s] # {} => Specific(handshakes'[s])
           /\ s \notin who => handshakes'[s] = handshakes[s] /\ Engaged(s)' = Engaged(s)
           /\ elections'[s] = elections[s]
<1>1. elections' = elections
  BY DEF OpenRequests
<1>2. s \in who => handshakes'[s] = Requested(targets[s], epochs[s] + 1)
  BY DEF OpenRequests
<1>3. s \notin who => handshakes'[s] = handshakes[s]
  BY DEF OpenRequests
<1> QED
  BY <1>1, <1>2, <1>3 DEF Requested, Specific, Engaged, EngagedBy

\* elect() engages its candidates.
LEMMA OpenElectionsEngages ==
    ASSUME CoordTypeOK, NEW cands \in [Subject -> SUBSET Instance],
           OpenElections(cands), NEW s \in Subject
    PROVE  /\ Engaged(s)' \subseteq Engaged(s) \cup cands[s]
           /\ Counted(elections[s]) => Counted(elections'[s])
           /\ handshakes'[s] = handshakes[s]
           /\ cands[s] = {} => elections'[s] = elections[s]
<1>1. handshakes' = handshakes
  BY DEF OpenElections
<1>2. elections'[s] = IF cands[s] # {} THEN Opened(cands[s], epochs[s] + 1) ELSE elections[s]
  BY DEF OpenElections
<1> QED
  BY <1>1, <1>2 DEF Opened, Engaged, EngagedIn, Counted

\* cancel() and forget() engage nobody.
LEMMA CancelAndForgetApart ==
    ASSUME CoordTypeOK, Apart, NEW who \in SUBSET Subject, NEW gone, CancelAndForget(who, gone)
    PROVE  /\ Apart'
           /\ \A s \in Subject : /\ Engaged(s)' \subseteq Engaged(s)
                                 /\ s \in who => ~Open(handshakes'[s], elections'[s])
                                 /\ s \notin who => /\ handshakes'[s] = handshakes[s]
                                                    /\ elections'[s] = elections[s]
<1> DEFINE new == [s \in Subject |-> {}]
<1>1. ASSUME NEW s \in Subject
      PROVE  /\ Specific(handshakes'[s]) /\ Counted(elections'[s])
             /\ Engaged(s)' \subseteq Engaged(s)
             /\ s \in who => ~Open(handshakes'[s], elections'[s])
             /\ s \notin who => handshakes'[s] = handshakes[s] /\ elections'[s] = elections[s]
  <2>1. CASE s \in who
    <3>1. handshakes'[s] = Retire(CancelEffect(s).hs) /\ elections'[s] = NoElection
      BY <2>1 DEF CancelAndForget
    <3>2. Specific(handshakes[s])
      BY DEF Apart
    <3> QED
      BY <2>1, <3>1, <3>2, CancelNarrows, NobodyEngaged DEF Engaged, Open
  <2>2. CASE s \notin who
    <3>1. handshakes'[s] = handshakes[s] /\ elections'[s] = elections[s]
      BY <2>2 DEF CancelAndForget
    <3> QED
      BY <2>2, <3>1 DEF Engaged, Apart
  <2> QED
    BY <2>1, <2>2
<1>2. Apart'
  BY <1>1, ApartAfter, new \in [Subject -> SUBSET Instance]
<1> QED
  BY <1>1, <1>2

\* _apply with an effect that engages nobody else, retired or not.
LEMMA EffectApart ==
    ASSUME CoordTypeOK, Apart, NEW s \in Subject, NEW x, Narrows(s, x),
           handshakes' \in {[handshakes EXCEPT ![s] = x.hs], [handshakes EXCEPT ![s] = Retire(x.hs)]},
           elections' = [elections EXCEPT ![s] = x.el]
    PROVE  /\ Apart'
           /\ \A t \in Subject : Engaged(t)' \subseteq Engaged(t)
           /\ \A t \in Subject : Open(handshakes'[t], elections'[t]) => Open(handshakes[t], elections[t])
<1> DEFINE new == [t \in Subject |-> {}]
<1>1. /\ handshakes'[s] \in {x.hs, NoInitiator} /\ elections'[s] = x.el
      /\ \A t \in Subject \ {s} : handshakes'[t] = handshakes[t] /\ elections'[t] = elections[t]
  BY DEF CoordTypeOK, Retire
<1>2. /\ Specific(handshakes'[s]) /\ Counted(elections'[s])
      /\ EngagedBy(handshakes'[s]) \cup EngagedIn(elections'[s]) \subseteq Engaged(s)
      /\ Open(handshakes'[s], elections'[s]) => Open(handshakes[s], elections[s])
  BY <1>1, NobodyEngaged DEF Narrows, Open, NoInitiator
<1>3. ASSUME NEW t \in Subject
      PROVE  /\ Specific(handshakes'[t]) /\ Counted(elections'[t])
             /\ Engaged(t)' \subseteq Engaged(t)
             /\ Open(handshakes'[t], elections'[t]) => Open(handshakes[t], elections[t])
  <2>1. CASE t = s
    BY <1>2, <2>1 DEF Engaged
  <2>2. CASE t # s
    BY <1>1, <2>2 DEF Engaged, Apart
  <2> QED
    BY <2>1, <2>2
<1>4. Apart'
  BY <1>3, ApartAfter, new \in [Subject -> SUBSET Instance]
<1> QED
  BY <1>3, <1>4

\* Nobody is in flight: nobody is engaged.
LEMMA InitApart ==
    ASSUME CoordInit
    PROVE  Apart
<1>1. \A s \in Subject : handshakes[s] = NoInitiator /\ elections[s] = NoElection
  BY DEF CoordInit
<1> QED
  BY <1>1, NobodyEngaged DEF Apart, Engaged

\* Nothing changed.
LEMMA ApartAlone ==
    ASSUME Apart, handshakes' = handshakes, elections' = elections
    PROVE  Apart' /\ \A s \in Subject : Engaged(s)' = Engaged(s)
BY DEF Apart, Engaged
=============================================================================
