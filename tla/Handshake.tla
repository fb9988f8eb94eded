------------------------------ MODULE Handshake ------------------------------
(***************************************************************************)
(* The handshake library the aggregate twin is built on (the package       *)
(* core_msgs, which is not part of this repository).  Everything here is   *)
(* external: it is modelled from how handshake_coordinator.py calls it and *)
(* from what test_handshake_coordinator.py asserts about it.               *)
(*                                                                         *)
(* A HandshakeInitiator is one conversation about one subject; a           *)
(* HandshakeElection is a bidding round in front of one.  Payloads, hints  *)
(* and bids are abstracted away: only who was asked, who offered and who   *)
(* holds the subject matter to the coordinator.                            *)
(***************************************************************************)
EXTENDS Naturals

CONSTANTS
    Subject,        \* agents for the link manager, missions for the mission manager
    Instance,       \* the digital-twin instances that may hold a subject
    None,           \* no instance, no subject
    MaxTries,       \* CANCELs sent again before a release is given up on
    CompletionLeg   \* MissionInitiator (TRUE) or the base HandshakeInitiator (FALSE)

ASSUME HandshakeAssumption ==
    /\ None \notin Instance
    /\ None \notin Subject
    /\ MaxTries \in Nat
    /\ CompletionLeg \in BOOLEAN

ToInstance == {"REQUEST", "REQUEST_BID", "AWARD", "CANCEL", "COMPLETE_ACK"}
ToAggregate == {"BID", "ACK", "NACK", "REVOKE", "CANCEL_ACK", "COMPLETE"}

\* One envelope between the aggregate and instance `inst`; the status says which
\* way it travels.  A broadcast is one envelope for every instance.
Envelope == [status : ToInstance \cup ToAggregate, id : Subject,
             inst : Instance, epoch : Nat]

Env(status, s, i, e) == [status |-> status, id |-> s, inst |-> i, epoch |-> e]
ToEach(status, s, is, e) == {Env(status, s, i, e) : i \in is}

-----------------------------------------------------------------------------
(* HandshakeInitiator.  "NONE" stands for the absence of the object.       *)

InitiatorRecord == [state : {"NONE", "REQUESTED", "AWARDED", "CONFIRMED", "CANCELLED", "DONE"},
                    receiver : Instance \cup {None},
                    asked : SUBSET Instance,      \* {} when the request was broadcast
                    epoch : Nat,
                    tries : 0 .. MaxTries]

\* Who was awarded, holds or is giving back the subject has a name.
Initiator == {h \in InitiatorRecord :
                 h.state \in {"AWARDED", "CONFIRMED", "CANCELLED"} => h.receiver # None}

NoInitiator == [state |-> "NONE", receiver |-> None, asked |-> {}, epoch |-> 0, tries |-> 0]

Requested(targets, e) ==
    [state |-> "REQUESTED", receiver |-> None, asked |-> targets, epoch |-> e, tries |-> 0]

Awarded(i, e) ==
    [state |-> "AWARDED", receiver |-> i, asked |-> {}, epoch |-> e, tries |-> 0]

\* Every instance that may hold a reservation or the subject for this conversation.
EngagedBy(h) == IF h.receiver = None THEN h.asked ELSE {h.receiver}

Outcome(h, out, act, by) == [next |-> h, out |-> out, act |-> act, by |-> by]
Quietly(h, out) == Outcome(h, out, "NOTHING", None)
Finished(h) == [h EXCEPT !.state = "DONE"]

\* An offer or an acceptance nobody is waiting for is told to let go.
LetGo(m) == IF m.status \in {"BID", "ACK"}
            THEN {Env("CANCEL", m.id, m.inst, m.epoch)} ELSE {}

OrphanReply(m) == IF CompletionLeg /\ m.status = "COMPLETE"
                  THEN {Env("COMPLETE_ACK", m.id, m.inst, m.epoch)} ELSE LetGo(m)

Answers(h, i) == IF h.state = "AWARDED" THEN i = h.receiver
                 ELSE h.state = "REQUESTED" /\ (h.asked = {} \/ i \in h.asked)

Handle(h, m) ==
    LET holder == m.inst = h.receiver
    IN  IF m.epoch # h.epoch THEN Quietly(h, LetGo(m)) ELSE
        CASE m.status = "ACK" /\ Answers(h, m.inst) ->
                Outcome([h EXCEPT !.state = "CONFIRMED", !.receiver = m.inst, !.asked = {}],
                        {}, "LINK", m.inst)
          [] m.status = "NACK" /\ Answers(h, m.inst) /\ (h.asked # {} \/ holder) ->
                Quietly(Finished(h), {})
          [] m.status = "REVOKE" /\ holder /\ h.state \in {"CONFIRMED", "CANCELLED"} ->
                Outcome(Finished(h), {}, "RELEASE", m.inst)
          [] m.status = "CANCEL_ACK" /\ holder /\ h.state = "CANCELLED" ->
                Outcome(Finished(h), {}, "RELEASE", m.inst)
          [] m.status = "COMPLETE" /\ holder /\ h.state = "CONFIRMED" /\ CompletionLeg ->
                Outcome(Finished(h), {Env("COMPLETE_ACK", m.id, m.inst, m.epoch)},
                        "COMPLETE", m.inst)
          [] OTHER -> Quietly(h, IF holder THEN {} ELSE LetGo(m))

\* tick() once the deadline of the current state has passed.
Overdue(s, h) ==
    CASE h.state = "REQUESTED" -> Quietly(Finished(h), {})
      [] h.state = "AWARDED" ->
            Quietly([h EXCEPT !.state = "CANCELLED"],
                    {Env("CANCEL", s, h.receiver, h.epoch)})
      [] h.state = "CANCELLED" /\ h.tries < MaxTries ->
            Quietly([h EXCEPT !.tries = @ + 1], {Env("CANCEL", s, h.receiver, h.epoch)})
      [] h.state = "CANCELLED" /\ h.tries >= MaxTries ->
            Outcome(Finished(h), {}, "RELEASE", h.receiver)
      [] OTHER -> Quietly(h, {})

\* cancel(): the retry clock starts over.
Withdraw(s, h) ==
    Quietly(IF h.receiver = None THEN Finished(h)
            ELSE [h EXCEPT !.state = "CANCELLED", !.tries = 0],
            ToEach("CANCEL", s, EngagedBy(h), h.epoch))

-----------------------------------------------------------------------------
(* HandshakeElection.  No candidates stands for the absence of the object. *)

Election == [candidates : SUBSET Instance,  \* everybody who was asked to bid
             offers : SUBSET Instance,      \* who offered
             silent : SUBSET Instance,      \* who has not answered yet
             epoch : Nat]

NoElection == [candidates |-> {}, offers |-> {}, silent |-> {}, epoch |-> 0]

Opened(is, e) == [candidates |-> is, offers |-> {}, silent |-> is, epoch |-> e]

EngagedIn(el) == el.offers \cup el.silent

\* A bid counts once; a refusal takes the candidate out.
Tally(el, m) ==
    IF m.epoch # el.epoch \/ m.inst \notin EngagedIn(el) THEN el ELSE
    CASE m.status = "BID" -> [el EXCEPT !.offers = @ \cup {m.inst}, !.silent = @ \ {m.inst}]
      [] m.status = "NACK" -> [el EXCEPT !.offers = @ \ {m.inst}, !.silent = @ \ {m.inst}]
      [] OTHER -> el

TallyOut(el, m) == IF m.epoch = el.epoch /\ m.inst \in EngagedIn(el) THEN {} ELSE LetGo(m)

\* get_winner_fn may pick any offer, nothing at all, or fail (which counts as nothing).
Winners(el) == el.offers \cup {None}

\* Closing the round: the winner gets the award, every other offer is cancelled.
AwardOut(s, el, w) ==
    ToEach("CANCEL", s, el.offers \ {w}, el.epoch)
      \cup (IF w = None THEN {} ELSE {Env("AWARD", s, w, el.epoch)})
=============================================================================
