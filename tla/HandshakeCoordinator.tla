------------------------ MODULE HandshakeCoordinator ------------------------
(***************************************************************************)
(* handshake_coordinator.py: the aggregate's owner of one kind of subject. *)
(*                                                                         *)
(* The module has no Next of its own: the class is a base class, and its   *)
(* methods are steps that a subclass completes with hooks.  A method is    *)
(* modelled by the effect it has on one subject (a record: what becomes of *)
(* the two dicts, what is sent, which hook is called); Perform commits an  *)
(* effect, and the subclass modules conjoin what their hooks do.           *)
(*                                                                         *)
(* The outbox is flushed by the owner after every handler                  *)
(* (AggregateTwin._flush), so a sent envelope goes straight into `net`;    *)
(* a conversation keeps its order on the way to an instance, and different *)
(* conversations may overtake each other.                                  *)
(***************************************************************************)
EXTENDS Handshake, Sequences

CONSTANT MaxEpoch       \* bound on the attempts per subject, for the model checker

ASSUME CoordinatorAssumption == MaxEpoch \in Nat

VARIABLES
    handshakes,     \* subject -> HandshakeInitiator
    elections,      \* subject -> HandshakeElection
    epochs,         \* subject -> last epoch used (0 when forgotten)
    cooling,        \* the (subject, target) keys of request_register on cooldown
    net             \* <<subject, instance>> -> envelopes under way there

coordVars == <<handshakes, elections, epochs, cooling, net>>

CoordTypeOK ==
    /\ handshakes \in [Subject -> Initiator]
    /\ elections \in [Subject -> Election]
    /\ epochs \in [Subject -> Nat]
    /\ cooling \in SUBSET (Subject \X Instance)
    /\ net \in [Subject \X Instance -> Seq(Envelope)]

CoordInit ==
    /\ handshakes = [s \in Subject |-> NoInitiator]
    /\ elections = [s \in Subject |-> NoElection]
    /\ epochs = [s \in Subject |-> 0]
    /\ cooling = {}
    /\ net = [p \in Subject \X Instance |-> <<>>]

-----------------------------------------------------------------------------
(* Views                                                                   *)

HasHandshake(s) == handshakes[s].state # "NONE"
HasElection(s) == elections[s].candidates # {}
InFlight(s) == HasHandshake(s) \/ HasElection(s)

Engaged(s) == EngagedBy(handshakes[s]) \cup EngagedIn(elections[s])
EngagedInstances == UNION {Engaged(s) : s \in Subject}
SubjectsOn(i) == {s \in Subject : i \in Engaged(s)}

Releasing(s) == handshakes[s].state = "CANCELLED"

\* Subjects that can open another attempt within the bound.
EpochLeft(s) == epochs[s] < MaxEpoch

\* Every method sends an instance at most one envelope about a subject.  A repeat
\* of the last envelope still under way makes no difference to its reader.
Sent(out, p) ==
    LET new == {m \in out : m.id = p[1] /\ m.inst = p[2]}
        late == IF net[p] = <<>> THEN {} ELSE {net[p][Len(net[p])]}
    IN  IF new \subseteq late THEN net[p] ELSE Append(net[p], CHOOSE m \in new : TRUE)

Send(out) == net' = [p \in Subject \X Instance |-> Sent(out, p)]

\* handshake_coordinator.py, docstring: "A subject is in at most one of them"
\* (of handshakes and elections), whatever the order of calls and answers.
OneDict == \A s \in Subject : ~(HasHandshake(s) /\ HasElection(s))

-----------------------------------------------------------------------------
(* Starting a conversation                                                 *)

\* The guards of request() for a target; a pooled request only has the first.
MayRequest(s, i) ==
    /\ ~InFlight(s)
    /\ i \notin EngagedInstances
    /\ <<s, i>> \notin cooling

\* Requests opened in one handler: targets[s] is the set of instances asked for
\* s ({} is the broadcast of a pooled request) for every s in `who`.
OpenRequests(who, targets) ==
    /\ handshakes' = [s \in Subject |-> IF s \in who
                                        THEN Requested(targets[s], epochs[s] + 1)
                                        ELSE handshakes[s]]
    /\ epochs' = [s \in Subject |-> IF s \in who THEN epochs[s] + 1 ELSE epochs[s]]
    /\ cooling' = cooling \cup UNION {{s} \X targets[s] : s \in who}
    /\ Send(UNION {ToEach("REQUEST", s, IF targets[s] = {} THEN Instance ELSE targets[s],
                           epochs[s] + 1) : s \in who})
    /\ UNCHANGED elections

\* Variant: a missing target is taken for an instance.
RequestNobody(s) ==
    /\ ~InFlight(s) /\ EpochLeft(s)
    /\ OpenRequests({s}, [x \in Subject |-> {None}])

RequestPooled(s) ==
    /\ ~InFlight(s) /\ EpochLeft(s)
    /\ OpenRequests({s}, [x \in Subject |-> {}])

RequestDirected(s, i) ==
    /\ MayRequest(s, i) /\ EpochLeft(s)
    /\ OpenRequests({s}, [x \in Subject |-> {i}])

\* Rounds opened in one handler, among cands[s] for every s that has candidates.
OpenElections(cands) ==
    LET who == {s \in Subject : cands[s] # {}}
    IN  /\ elections' = [s \in Subject |-> IF s \in who THEN Opened(cands[s], epochs[s] + 1)
                                           ELSE elections[s]]
        /\ epochs' = [s \in Subject |-> IF s \in who THEN epochs[s] + 1 ELSE epochs[s]]
        /\ Send(UNION {ToEach("REQUEST_BID", s, cands[s], epochs[s] + 1) : s \in who})
        /\ UNCHANGED <<handshakes, cooling>>

\* elect(): engaged candidates are dropped first; none left, no round.
Elect(s, hints) ==
    LET candidates == hints \ EngagedInstances
    IN  /\ ~InFlight(s) /\ EpochLeft(s)
        /\ candidates # {}
        /\ OpenElections([x \in Subject |-> IF x = s THEN candidates ELSE {}])

-----------------------------------------------------------------------------
(* What a method does to one subject: the initiator and the election it    *)
(* leaves, what it appends to the outbox, and the hook it calls with which *)
(* receiver.                                                               *)

Effect(h, el, out, act, by) == [hs |-> h, el |-> el, out |-> out, act |-> act, by |-> by]

FromInitiator(o) == Effect(o.next, NoElection, o.out, o.act, o.by)

\* _settle: the election leaves; a winner carries the subject on in handshakes.
Settle(s, el, w) == IF w = None THEN NoInitiator ELSE Awarded(w, el.epoch)

\* Variant: the round is not popped.
SettledKept(s, el) == {Effect(Settle(s, el, w), el, AwardOut(s, el, w), "NOTHING", None) :
                          w \in Winners(el)}

\* Variant: the winner comes from the hints instead of the bids.
SettledUnbid(s, el) ==
    {Effect(Settle(s, el, w), NoElection, AwardOut(s, el, w), "NOTHING", None) :
        w \in el.candidates \cup {None}}

Settled(s, el) == {Effect(Settle(s, el, w), NoElection, AwardOut(s, el, w), "NOTHING", None) :
                      w \in Winners(el)}

\* Variant: an unknown subject is ignored.
RouteKnown(m) ==
    LET s == m.id
        tallied == Tally(elections[s], m)
    IN  IF HasElection(s)
        THEN IF tallied.silent = {} THEN Settled(s, tallied)
             ELSE {Effect(handshakes[s], tallied, TallyOut(elections[s], m), "NOTHING", None)}
        ELSE {IF HasHandshake(s) THEN FromInitiator(Handle(handshakes[s], m))
              ELSE Effect(NoInitiator, NoElection, {}, "NOTHING", None)}

\* route(): the election first, then the handshake, else nobody knows the subject.
RouteEffects(m) ==
    LET s == m.id
        tallied == Tally(elections[s], m)
    IN  IF HasElection(s)
        THEN IF tallied.silent = {} THEN Settled(s, tallied)
             ELSE {Effect(handshakes[s], tallied, TallyOut(elections[s], m), "NOTHING", None)}
        ELSE IF HasHandshake(s) THEN {FromInitiator(Handle(handshakes[s], m))}
        ELSE {Effect(NoInitiator, NoElection, OrphanReply(m), "NOTHING", None)}

\* tick() for a subject whose deadline has passed: an election closes among the
\* instances that answered, an initiator retries, gives up or is dropped.
TickEffects(s) ==
    IF HasElection(s) THEN Settled(s, elections[s])
    ELSE {FromInitiator(Overdue(s, handshakes[s]))}

\* Variant: a release is cancelled again.
CancelTwice(s) ==
    IF HasElection(s)
    THEN Effect(NoInitiator, NoElection,
                ToEach("CANCEL", s, EngagedIn(elections[s]), elections[s].epoch),
                "NOTHING", None)
    ELSE FromInitiator(Withdraw(s, handshakes[s]))

\* cancel(): an election is abandoned; a handshake nobody holds is dropped; one
\* on its way out is left alone.
CancelEffect(s) ==
    IF HasElection(s)
    THEN Effect(NoInitiator, NoElection,
                ToEach("CANCEL", s, EngagedIn(elections[s]), elections[s].epoch),
                "NOTHING", None)
    ELSE IF ~HasHandshake(s) \/ Releasing(s)
         THEN Effect(handshakes[s], NoElection, {}, "NOTHING", None)
    ELSE IF handshakes[s].state = "DONE"
         THEN Effect(NoInitiator, NoElection, {}, "NOTHING", None)
    ELSE FromInitiator(Withdraw(s, handshakes[s]))

\* Variant: a cancelled initiator leaves at once.
RetireCancelled(h) == IF h.state \in {"DONE", "CANCELLED"} THEN NoInitiator ELSE h

\* _retire: a finished initiator leaves the dict.
Retire(h) == IF h.state = "DONE" THEN NoInitiator ELSE h

\* The hook raised: what follows _apply, _retire included, never runs.
Interrupted(s, x) ==
    /\ handshakes' = [handshakes EXCEPT ![s] = x.hs]
    /\ elections' = [elections EXCEPT ![s] = x.el]
    /\ Send(x.out)
    /\ UNCHANGED <<epochs, cooling>>

\* The method ran to its end.
Perform(s, x) == Interrupted(s, [x EXCEPT !.hs = Retire(@)])

\* cancel() for every subject of `who` and forget() for every subject of `gone`,
\* the way one sweep does it.
CancelAndForget(who, gone) ==
    /\ handshakes' = [s \in Subject |-> IF s \in who THEN Retire(CancelEffect(s).hs)
                                        ELSE handshakes[s]]
    /\ elections' = [s \in Subject |-> IF s \in who THEN NoElection ELSE elections[s]]
    /\ Send(UNION {CancelEffect(s).out : s \in who})
    /\ epochs' = [s \in Subject |-> IF s \in gone THEN 0 ELSE epochs[s]]
    /\ UNCHANGED cooling

\* Variant: giving up an attempt forgets the subject.
CancelForgets(s) == CancelAndForget({s}, {s})

Cancel(s) == CancelAndForget({s}, {})
Forget(s) == CancelAndForget({}, {s})

-----------------------------------------------------------------------------
(* Time                                                                    *)

\* Twenty seconds after a directed request the same pair may be asked again.
CooldownOver(s, i) ==
    /\ <<s, i>> \in cooling
    /\ cooling' = cooling \ {<<s, i>>}
    /\ UNCHANGED <<handshakes, elections, epochs, net>>

-----------------------------------------------------------------------------
(* Progress                                                                *)

\* "a candidate that never answers would hold the election open": it does not; a
\* request nobody answers is dropped, an award nobody confirms is withdrawn.
\* releasing(): "Cancelling again would keep resetting the retry clock, so a dead
\* instance would never reach the give-up point": whoever is dead, it does reach it.
ConversationsEnd == \A s \in Subject :
    /\ HasElection(s) ~> ~HasElection(s)
    /\ handshakes[s].state \in {"REQUESTED", "AWARDED"} ~>
          handshakes[s].state \notin {"REQUESTED", "AWARDED"}
    /\ Releasing(s) ~> ~Releasing(s)
=============================================================================
