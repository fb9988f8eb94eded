----------------------------- MODULE Responders -----------------------------
(***************************************************************************)
(* The other side of the conversations: the digital-twin instances and the *)
(* network between them and the aggregate.  External (HandshakeResponder   *)
(* and the message bus), modelled from what the aggregate's tests assert   *)
(* about them.                                                             *)
(*                                                                         *)
(* What one instance publishes reaches the aggregate in the order it was   *)
(* published.  Where Lossy says so, envelopes may be lost in either        *)
(* direction.                                                              *)
(***************************************************************************)
EXTENDS HandshakeCoordinator

CONSTANTS
    Lossy,      \* envelopes may be lost
    Lapses,     \* a reservation may lapse while the aggregate still counts on it
    Restarts    \* instances may crash and come back having forgotten everything

ASSUME RespondersAssumption == Lossy \in BOOLEAN /\ Lapses \in BOOLEAN /\ Restarts \in BOOLEAN

VARIABLES
    inst,       \* instance -> what it holds
    uplink      \* instance -> envelopes published and not yet routed

responderVars == <<inst, uplink>>

Holding == [active : Subject \cup {None}, epoch : Nat, reserved : SUBSET (Subject \X Nat)]

Idle == [active |-> None, epoch |-> 0, reserved |-> {}]

RespondersTypeOK ==
    /\ inst \in [Instance -> Holding]
    /\ uplink \in [Instance -> Seq(Envelope)]

RespondersInit ==
    /\ inst = [i \in Instance |-> Idle]
    /\ uplink = [i \in Instance |-> <<>>]

\* The envelopes of a queue.
Elements(q) == {q[k] : k \in DOMAIN q}

Free(i) == inst[i].active = None

\* Reserved for somebody else (max_reserved = 1).
Promised(i, s) == \E r \in inst[i].reserved : r[1] # s

\* Instance i reads m, ends up holding `holding` and answers with `status`.
Answer(i, m, holding, status) ==
    /\ inst' = [inst EXCEPT ![i] = holding]
    /\ uplink' = [uplink EXCEPT ![i] = Append(@, Env(status, m.id, i, m.epoch))]

Read(i, m, holding) ==
    /\ inst' = [inst EXCEPT ![i] = holding]
    /\ UNCHANGED uplink

\* A direct request: taken at once, confirmed again, or refused.
OnRequest(i, m) ==
    /\ m.status = "REQUEST"
    /\ \/ /\ Free(i) /\ ~Promised(i, m.id)
          /\ Answer(i, m, [active |-> m.id, epoch |-> m.epoch, reserved |-> {}], "ACK")
       \/ /\ inst[i].active = m.id /\ inst[i].epoch <= m.epoch
          /\ Answer(i, m, [inst[i] EXCEPT !.epoch = m.epoch], "ACK")
       \/ /\ inst[i].active # m.id
          /\ Answer(i, m, inst[i], "NACK")
       \/ /\ inst[i].active = m.id /\ inst[i].epoch > m.epoch
          /\ Read(i, m, inst[i])

\* A call for bids: reserve and offer, or refuse.
OnRequestBid(i, m) ==
    /\ m.status = "REQUEST_BID"
    /\ \/ /\ Free(i) /\ ~Promised(i, m.id)
          /\ Answer(i, m, [inst[i] EXCEPT !.reserved = {<<m.id, m.epoch>>}], "BID")
       \/ Answer(i, m, inst[i], "NACK")

OnAward(i, m) ==
    /\ m.status = "AWARD"
    /\ IF Free(i) /\ <<m.id, m.epoch>> \in inst[i].reserved
       THEN Answer(i, m, [active |-> m.id, epoch |-> m.epoch, reserved |-> {}], "ACK")
       ELSE Answer(i, m, inst[i], "NACK")

\* What is left when instance i gives up the attempt m is about, and older ones.
WithoutActive(i, m) ==
    IF inst[i].active = m.id /\ inst[i].epoch <= m.epoch
    THEN [inst[i] EXCEPT !.active = None, !.epoch = 0] ELSE inst[i]

\* Lets go of anything as old as the cancelled attempt, and always confirms.
OnCancel(i, m) ==
    /\ m.status = "CANCEL"
    /\ Answer(i, m, [WithoutActive(i, m) EXCEPT
                        !.reserved = {r \in @ : r[1] # m.id \/ r[2] > m.epoch}], "CANCEL_ACK")

OnCompleteAck(i, m) ==
    /\ m.status = "COMPLETE_ACK"
    /\ Read(i, m, WithoutActive(i, m))

Receive(i) == \E s \in Subject :
    /\ net[<<s, i>>] # <<>>
    /\ net' = [net EXCEPT ![<<s, i>>] = Tail(@)]
    /\ UNCHANGED <<handshakes, elections, epochs, cooling>>
    /\ LET m == Head(net[<<s, i>>])
       IN  \/ OnRequest(i, m) \/ OnRequestBid(i, m) \/ OnAward(i, m)
           \/ OnCancel(i, m) \/ OnCompleteAck(i, m)

\* The binding failed, or the subject finished: the instance says so by itself
\* (and says it again, but not while the last one is still under way).
Announce(i, status, holding) ==
    LET m == Env(status, inst[i].active, i, inst[i].epoch)
    IN  /\ ~Free(i)
        /\ m \notin Elements(uplink[i])
        /\ uplink' = [uplink EXCEPT ![i] = Append(@, m)]
        /\ inst' = [inst EXCEPT ![i] = holding]
        /\ UNCHANGED coordVars

Revoke(i) == Announce(i, "REVOKE", [inst[i] EXCEPT !.active = None, !.epoch = 0])
Complete(i) == CompletionLeg /\ Announce(i, "COMPLETE", inst[i])

\* A reservation the aggregate never came back for lapses.  The responder waits
\* longer than the aggregate bids, so without Lapses the round is over by then.
ReservationLapses(i) ==
    /\ inst[i].reserved # {}
    /\ Lapses \/ \A r \in inst[i].reserved : i \notin Engaged(r[1])
    /\ inst' = [inst EXCEPT ![i].reserved = {}]
    /\ UNCHANGED <<coordVars, uplink>>

Restart(i) ==
    /\ Restarts
    /\ inst[i] # Idle
    /\ inst' = [inst EXCEPT ![i] = Idle]
    /\ UNCHANGED <<coordVars, uplink>>

InstanceStep(i) ==
    Receive(i) \/ Revoke(i) \/ Complete(i) \/ ReservationLapses(i) \/ Restart(i)

\* The aggregate takes the next envelope of instance i off the bus.
Take(i) ==
    /\ uplink[i] # <<>>
    /\ uplink' = [uplink EXCEPT ![i] = Tail(@)]
    /\ UNCHANGED inst

LoseDown(s, i) ==
    /\ Lossy
    /\ net[<<s, i>>] # <<>>
    /\ net' = [net EXCEPT ![<<s, i>>] = Tail(@)]
    /\ UNCHANGED <<handshakes, elections, epochs, cooling, inst, uplink>>

LoseUp(i) == Lossy /\ Take(i) /\ UNCHANGED coordVars

Lose == \E i \in Instance : LoseUp(i) \/ \E s \in Subject : LoseDown(s, i)

Environment == (\E i \in Instance : InstanceStep(i)) \/ Lose

-----------------------------------------------------------------------------
(* Everything on its way, for the properties.                              *)

InTransit(s) == (UNION {Elements(net[<<s, i>>]) : i \in Instance})
                  \cup {m \in UNION {Elements(uplink[i]) : i \in Instance} : m.id = s}

\* The attempt the aggregate is at.
AttemptEpoch(s) == IF HasElection(s) THEN elections[s].epoch ELSE handshakes[s].epoch

\* A conversation about s opens only with an epoch above that of every envelope
\* of the given statuses still under way about s.
OpensFresh(s, statuses) == ~InFlight(s) /\ InFlight(s)' =>
    \A m \in InTransit(s) : m.status \in statuses => m.epoch < AttemptEpoch(s)'
=============================================================================
