---------------------------- MODULE AggregateTwin ----------------------------
(***************************************************************************)
(* The loop of aggregate_twin.py: transport threads fill an inbox and HTTP *)
(* threads a queue of commands while one timer thread steps: drain the     *)
(* inbox, run the commands, see, plan, tick, sweep, match, flush.          *)
(*                                                                         *)
(* What the managers decide is left open here (modules LinkManager and     *)
(* MissionManager): a handler, a command or a phase of the step appends    *)
(* envelopes to the outboxes, or raises.  What is modelled is what becomes *)
(* of them.  Envelopes are numbered in the order they are appended.        *)
(***************************************************************************)
EXTENDS Naturals, Sequences, SequencesExt

CONSTANTS
    Message,            \* what may arrive, each once at a time in the inbox
    Unroutable,         \* messages on a topic without a handler
    Command,            \* operator commands, each once at a time in the queue
    Target, None,       \* addressees; None: an envelope without a target
    InboxBudget, CommandBudget,         \* per step
    PlanPeriod, PerceptionPeriod,       \* in steps
    MaxEnvelopes,       \* bound on envelopes appended
    MaxFaults           \* bound on exceptions, those of planning aside

ASSUME LoopAssumption ==
    /\ Unroutable \subseteq Message
    /\ {InboxBudget, CommandBudget, PlanPeriod, PerceptionPeriod} \subseteq Nat \ {0}
    /\ {MaxEnvelopes, MaxFaults} \subseteq Nat
    /\ None \notin Target

VARIABLES
    inbox,          \* the queue the transport threads fill
    commands,       \* the queue the HTTP threads fill
    connected,      \* the transport is set up
    linkOutbox, missionOutbox,
    published,      \* the envelopes the transport took, in order
    simStep,        \* _sim_step, folded
    phase,          \* where the step thread is
    budget,         \* what is left of the budget of the phase
    appended,       \* how many envelopes there are
    faults          \* how many exceptions there were

queueVars == <<inbox, commands, connected>>
outVars == <<linkOutbox, missionOutbox, published, appended>>
stepVars == <<simStep, phase, budget>>
vars == <<queueVars, outVars, stepVars, faults>>

\* _step's order of work.
Work == <<"perception", "plan", "linkTick", "missionTick", "sweep", "link">>

Init ==
    /\ inbox = <<>> /\ commands = <<>> /\ connected = FALSE
    /\ linkOutbox = <<>> /\ missionOutbox = <<>> /\ published = <<>> /\ appended = 0
    /\ simStep = 0 /\ phase = "idle" /\ budget = 0
    /\ faults = 0

-----------------------------------------------------------------------------
(* What others do                                                          *)

\* _ingest, on a transport thread: decode and queue.
Ingest(m) ==
    /\ m \notin ToSet(inbox)
    /\ inbox' = Append(inbox, m)
    /\ UNCHANGED <<commands, connected, outVars, stepVars, faults>>

\* submit_command, on an HTTP thread.
SubmitCommand(c) ==
    /\ c \notin ToSet(commands)
    /\ commands' = Append(commands, c)
    /\ UNCHANGED <<inbox, connected, outVars, stepVars, faults>>

\* setup_transport: the timer may run before.
SetupTransport ==
    /\ ~connected /\ connected' = TRUE
    /\ UNCHANGED <<inbox, commands, outVars, stepVars, faults>>

-----------------------------------------------------------------------------
(* Envelopes                                                               *)

Numbered(from, target) == [number |-> appended + 1, from |-> from, target |-> target]

\* Code of one of the managers appends an envelope, or none.
AppendLink ==
    \E t \in Target \cup {None} :
        /\ appended < MaxEnvelopes /\ appended' = appended + 1
        /\ linkOutbox' = Append(linkOutbox, Numbered("link", t))
        /\ UNCHANGED <<missionOutbox, published>>

AppendMission ==
    \E t \in Target \cup {None} :
        /\ appended < MaxEnvelopes /\ appended' = appended + 1
        /\ missionOutbox' = Append(missionOutbox, Numbered("mission", t))
        /\ UNCHANGED <<linkOutbox, published>>

\* What a phase may append to.
Appends(work) ==
    \/ UNCHANGED outVars
    \/ work \in {"handler", "command", "linkTick", "sweep", "link"} /\ AppendLink
    \/ work \in {"handler", "command", "plan", "missionTick", "linkTick"} /\ AppendMission

Raises == faults < MaxFaults /\ faults' = faults + 1

\* A mission envelope without a target is dropped.
Addressed(outbox) ==
    LET kept[k \in 0 .. Len(outbox)] ==
            IF k = 0 THEN <<>>
            ELSE IF outbox[k].target = None THEN kept[k - 1]
            ELSE Append(kept[k - 1], outbox[k])
    IN  kept[Len(outbox)]
Deliverable == linkOutbox \o Addressed(missionOutbox)

\* Variant: the outboxes are cleared whatever the transport says.
FlushClearing(then, failed) ==
    \/ /\ published' = IF connected THEN published \o Deliverable ELSE published
       /\ linkOutbox' = IF connected THEN <<>> ELSE linkOutbox
       /\ missionOutbox' = IF connected THEN <<>> ELSE missionOutbox
       /\ phase' = then /\ UNCHANGED faults
    \/ /\ connected /\ Raises
       /\ \E k \in 0 .. Len(Deliverable) - 1 : published' = published \o SubSeq(Deliverable, 1, k)
       /\ linkOutbox' = <<>> /\ missionOutbox' = <<>>
       /\ phase' = failed

\* Variant: what could not be sent goes to the end of the outbox.
FlushRotating(then, failed) ==
    \/ /\ published' = IF connected THEN published \o Deliverable ELSE published
       /\ linkOutbox' = IF connected THEN <<>> ELSE linkOutbox
       /\ missionOutbox' = IF connected THEN <<>> ELSE missionOutbox
       /\ phase' = then /\ UNCHANGED faults
    \/ /\ connected /\ Raises
       /\ \E k \in 1 .. Len(linkOutbox) :
             /\ published' = published \o SubSeq(linkOutbox, 1, k - 1)
             /\ linkOutbox' = Append(SubSeq(linkOutbox, k + 1, Len(linkOutbox)), linkOutbox[k])
       /\ UNCHANGED missionOutbox
       /\ phase' = failed

\* _flush: an outbox is cleared once all of it is published; before, a publish that
\* raises leaves it as it is, and the mission outbox with it.
Flush(then, failed) ==
    \/ /\ published' = IF connected THEN published \o Deliverable ELSE published
       /\ linkOutbox' = IF connected THEN <<>> ELSE linkOutbox
       /\ missionOutbox' = IF connected THEN <<>> ELSE missionOutbox
       /\ phase' = then /\ UNCHANGED faults
    \/ /\ connected /\ Raises
       /\ \E k \in 0 .. Len(Deliverable) - 1 :
             /\ published' = published \o SubSeq(Deliverable, 1, k)
             /\ linkOutbox' = IF k < Len(linkOutbox) THEN linkOutbox ELSE <<>>
       /\ UNCHANGED missionOutbox
       /\ phase' = failed

-----------------------------------------------------------------------------
(* The step                                                                *)

Cycle == PlanPeriod * PerceptionPeriod

\* The timer fires.  The counter is folded, step 1 stays the first one.
StartStep ==
    /\ phase = "idle"
    /\ simStep' = IF simStep = Cycle + 1 THEN 2 ELSE simStep + 1
    /\ phase' = "drain" /\ budget' = InboxBudget
    /\ UNCHANGED <<queueVars, outVars, faults>>

\* Variant: the inbox is drained until it is empty.
DrainAll ==
    /\ phase = "drain" /\ inbox # <<>>
    /\ inbox' = Tail(inbox)
    /\ IF Head(inbox) \in Unroutable THEN UNCHANGED <<outVars, phase, faults>>
       ELSE /\ Appends("handler")
            /\ phase' = "drainFlush"
            /\ UNCHANGED faults \/ Raises
    /\ UNCHANGED <<commands, connected, simStep, budget>>

\* _drain_inbox, one message: a handler that raises is logged; either way what it
\* appended is flushed.
Drain ==
    /\ phase = "drain" /\ budget > 0 /\ inbox # <<>>
    /\ inbox' = Tail(inbox) /\ budget' = budget - 1
    /\ IF Head(inbox) \in Unroutable THEN UNCHANGED <<outVars, phase, faults>>
       ELSE /\ Appends("handler")
            /\ phase' = "drainFlush"
            /\ UNCHANGED faults \/ Raises
    /\ UNCHANGED <<commands, connected, simStep>>

\* This flush is outside the try: a publish that raises ends the step.
DrainFlush ==
    /\ phase = "drainFlush"
    /\ Flush("drain", "idle")
    /\ UNCHANGED <<queueVars, appended, simStep, budget>>

Drained ==
    /\ phase = "drain" /\ budget > 0 /\ inbox = <<>>
    /\ Flush("commands", "idle")
    /\ budget' = CommandBudget
    /\ UNCHANGED <<queueVars, appended, simStep>>

DrainedEnough ==
    /\ phase = "drain" /\ budget = 0
    /\ phase' = "commands" /\ budget' = CommandBudget
    /\ UNCHANGED <<queueVars, outVars, simStep, faults>>

\* _run_commands, one command; most flush on their own.
RunCommand ==
    /\ phase = "commands" /\ budget > 0 /\ commands # <<>>
    /\ commands' = Tail(commands) /\ budget' = budget - 1
    /\ Appends("command")
    /\ \/ phase' \in {"commands", "commandFlush"} /\ UNCHANGED faults
       \/ phase' = "commands" /\ Raises
    /\ UNCHANGED <<inbox, connected, simStep>>

\* This one is inside: the next command runs.
CommandFlush ==
    /\ phase = "commandFlush"
    /\ Flush("commands", "commands")
    /\ UNCHANGED <<queueVars, appended, simStep, budget>>

CommandsDone ==
    /\ phase = "commands" /\ (budget = 0 \/ commands = <<>>)
    /\ phase' = Head(Work)
    /\ UNCHANGED <<queueVars, outVars, simStep, budget, faults>>

\* Variant: the fleet is planned for on every step.
DueEveryStep(work) == work = "perception" => simStep % PerceptionPeriod = 0

Due(work) ==
    /\ work = "perception" => simStep % PerceptionPeriod = 0
    /\ work = "plan" => simStep % PlanPeriod = 0 \/ simStep = 1

AfterWork(work) == IF work = Last(Work) THEN "flush" ELSE Work[CHOOSE k \in 2 .. Len(Work) : Work[k - 1] = work]

\* The rest of _step.  Whatever raises ends it; planning may do so on every pass: a
\* mission that tracks a live UAV does.
DoWork ==
    /\ phase \in ToSet(Work)
    /\ IF Due(phase)
       THEN /\ Appends(phase)
            /\ \/ phase' = AfterWork(phase) /\ UNCHANGED faults
               \/ phase' = "idle" /\ phase = "plan" /\ UNCHANGED faults
               \/ phase' = "idle" /\ Raises
       ELSE phase' = AfterWork(phase) /\ UNCHANGED <<outVars, faults>>
    /\ UNCHANGED <<queueVars, simStep, budget>>

EndStep ==
    /\ phase = "flush"
    /\ Flush("idle", "idle")
    /\ UNCHANGED <<queueVars, appended, simStep, budget>>

Step ==
    \/ StartStep \/ Drain \/ DrainFlush \/ Drained \/ DrainedEnough
    \/ RunCommand \/ CommandFlush \/ CommandsDone
    \/ DoWork \/ EndStep

Next ==
    \/ Step
    \/ \E m \in Message : Ingest(m)
    \/ \E c \in Command : SubmitCommand(c)
    \/ SetupTransport

Spec == Init /\ [][Next]_vars

\* The timer keeps firing, and a step is not interrupted.
FairSpec == Spec /\ WF_vars(Step)

-----------------------------------------------------------------------------
(* Properties                                                              *)

\* "Transport: the only place that publishes" (_flush): an envelope leaves an outbox
\* only because it was published, or has nobody it could go to, however often
\* publishing, a handler, a command or the step itself failed before.
NothingIsLost == [][\A env \in ToSet(linkOutbox) \cup ToSet(missionOutbox) :
    \/ env \in ToSet(linkOutbox') \cup ToSet(missionOutbox')
    \/ env \in ToSet(published')
    \/ env.from = "mission" /\ env.target = None]_vars

\* A conversation is a sequence: an addressee hears of an envelope of a manager for the
\* first time only after it has heard of all the earlier ones, and hears of it again
\* only if publishing failed in between.
PublishedInOrder ==
    \A k \in DOMAIN published :
        LET before == ToSet(SubSeq(published, 1, k - 1))
        IN  /\ \A env \in ToSet(linkOutbox) \cup ToSet(missionOutbox) \cup ToSet(published) :
                  env.from = published[k].from /\ env.target = published[k].target
                     /\ env.number < published[k].number => env \in before
            /\ published[k] \in before => faults > 0

\* A command is run however many messages keep arriving, and a message taken however
\* many commands.
QueuesMove ==
    /\ \A c \in Command : c \in ToSet(commands) ~> c \notin ToSet(commands)
    /\ \A m \in Message : m \in ToSet(inbox) ~> m \notin ToSet(inbox)

\* Handshakes keep timing out and dead nodes keep being swept, although planning may
\* raise on every pass and take the rest of that step down with it.
TicksGoOn == []<>(phase = "flush")
=============================================================================
