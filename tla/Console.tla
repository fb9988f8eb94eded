------------------------------- MODULE Console -------------------------------
(***************************************************************************)
(* The operator's console around the link manager: console_gateway.py      *)
(* checks a request on an HTTP thread and queues a command; the step       *)
(* thread of the aggregate runs it later, when what was checked may be     *)
(* over.  comm_monitor.py follows the pairing through hooks and tells the  *)
(* operator in which phase each agent is.                                  *)
(*                                                                         *)
(* Whether an announcement needs the operator is decided by `autocomplete` *)
(* (check_discovery), not by the agent, so Underspecified plays no part.   *)
(* The HTTP threads run between any two of the steps below, the step       *)
(* thread's two steps of one announcement included.                        *)
(***************************************************************************)
EXTENDS LinkManager

CONSTANTS
    Thread,         \* HTTP threads
    MaxCommands     \* bound on the commands the operator queues

ASSUME ConsoleAssumption == MaxCommands \in Nat

VARIABLES
    autocomplete,   \* twin.autocomplete
    reviews,        \* thread -> the questions it has read and not answered yet
    handling,       \* the announcement the step thread has checked and not acted on
    commands,       \* _commands, what the step thread is to run
    queued,         \* counts what MaxCommands bounds, nothing reads it
    phase,          \* CommMonitor: peer.phase
    interrupted     \* agents a review met in a handshake or linked, for the properties

gatewayVars == <<autocomplete, reviews, commands, queued>>
monitorVars == <<phase, interrupted>>
consoleVars == <<vars, gatewayVars, handling, monitorVars>>

NoReview == [agents |-> {}, verdict |-> "none"]

ConsoleInit ==
    /\ Init
    /\ autocomplete = FALSE
    /\ reviews = [t \in Thread |-> NoReview]
    /\ handling = None
    /\ commands = <<>> /\ queued = 0
    /\ phase = [a \in Subject |-> "unknown"]
    /\ interrupted = {}

-----------------------------------------------------------------------------
(* CommMonitor                                                             *)

\* A request for the agent goes out with the flush that follows.
RequestGoesOut(a) == handshakes'[a].state = "REQUESTED" /\ handshakes[a].state # "REQUESTED"

\* The hook that runs moves the phases in `moved`, the flush the requested ones.
Sees(moved) ==
    phase' = [a \in Subject |->
        LET seen == IF a \in DOMAIN moved THEN moved[a] ELSE phase[a]
        IN  IF RequestGoesOut(a) /\ seen # "linked" THEN "requested" ELSE seen]

SeesNothing == Sees([a \in {} |-> None])

\* _on_completed
Completed(a) ==
    [b \in {a} |-> IF phase[a] \in {"unknown", "review", "released", "rejected"}
                   THEN "discovered" ELSE phase[a]]

\* Variant: on_link is taken at its word.
ConcludedTrusting(a, x) ==
    CASE x.act = "LINK" -> [b \in {a} |-> "linked"]
      [] x.act = "RELEASE" -> [b \in {a} |-> "released"]
      [] OTHER -> [b \in {} |-> None]

\* _on_linked looks whether on_link refused; _on_released runs before on_release.
Concluded(a, x) ==
    CASE x.act = "LINK" -> [b \in {a} |-> IF instanceOf'[a] = x.by THEN "linked" ELSE phase[a]]
      [] x.act = "RELEASE" -> [b \in {a} |-> "released"]
      [] OTHER -> [b \in {} |-> None]

-----------------------------------------------------------------------------
(* HTTP threads                                                            *)

Queue(c) == queued < MaxCommands /\ queued' = queued + 1 /\ commands' = Append(commands, c)

Command(verb, a, arg) == [verb |-> verb, agent |-> a, arg |-> arg]

\* resolve_discovery, reject_discovery and set_autocomplete(True) read the open
\* question first.
ReadReview(t, a, verdict) ==
    /\ reviews[t] = NoReview /\ a \in questions
    /\ queued < MaxCommands
    /\ reviews' = [reviews EXCEPT ![t] = [agents |-> {a}, verdict |-> verdict]]
    /\ UNCHANGED <<vars, autocomplete, commands, queued, handling, monitorVars>>

\* Variant: the question is popped before the answer is validated.
RefuseLate(t) ==
    /\ reviews[t].verdict = "approve"
    /\ questions' = questions \ reviews[t].agents
    /\ reviews' = [reviews EXCEPT ![t] = NoReview]
    /\ UNCHANGED <<coordVars, responderVars, poolVars, fleetVars, mode, choice, upsets,
                   autocomplete, commands, queued, handling, monitorVars>>

\* apply_resolution raises: the operator is told, the question stays open.
Refuse(t) ==
    /\ reviews[t].verdict = "approve"
    /\ reviews' = [reviews EXCEPT ![t] = NoReview]
    /\ UNCHANGED <<vars, autocomplete, commands, queued, handling, monitorVars>>

\* A question is popped, if it still is there, and the verdict queued.
Submit(t) ==
    \E a \in reviews[t].agents :
        /\ questions' = questions \ {a}
        /\ Queue(Command(reviews[t].verdict, a, None))
        /\ reviews' = [reviews EXCEPT ![t] = IF reviews[t].agents = {a} THEN NoReview
                                             ELSE [reviews[t] EXCEPT !.agents = @ \ {a}]]
        /\ UNCHANGED <<coordVars, responderVars, poolVars, fleetVars, mode, choice, upsets,
                       autocomplete, handling, monitorVars>>

\* set_autocomplete writes the flag on the HTTP thread; "all": it is going to walk
\* the open questions.
SetAutocomplete(t, enabled) ==
    /\ enabled # autocomplete /\ reviews[t] = NoReview
    /\ queued < MaxCommands /\ queued' = queued + 1
    /\ autocomplete' = enabled
    /\ reviews' = IF enabled THEN [reviews EXCEPT ![t] = [agents |-> {}, verdict |-> "all"]]
                  ELSE reviews
    /\ UNCHANGED <<vars, commands, handling, monitorVars>>

\* The questions open by now are completed one by one.
ListQuestions(t) ==
    /\ reviews[t].verdict = "all"
    /\ reviews' = [reviews EXCEPT ![t] = IF questions = {} THEN NoReview
                                        ELSE [agents |-> questions, verdict |-> "approve"]]
    /\ UNCHANGED <<vars, autocomplete, commands, queued, handling, monitorVars>>

\* link_pair: everything is checked now.
LinkPair(a, i) ==
    /\ mode = "GUI" /\ waiting[a] = "ready" /\ ~InFlight(a) /\ i \in FreeInstances(pooled)
    /\ Queue(Command("choose", a, i))
    /\ UNCHANGED <<vars, autocomplete, reviews, handling, monitorVars>>

\* release()
ReleasePair(a) ==
    /\ Linked(a)
    /\ Queue(Command("release", a, None))
    /\ UNCHANGED <<vars, autocomplete, reviews, handling, monitorVars>>

ChangeMode(m) ==
    /\ m # mode
    /\ Queue(Command("mode", None, m))
    /\ UNCHANGED <<vars, autocomplete, reviews, handling, monitorVars>>

-----------------------------------------------------------------------------
(* The step thread: one command                                            *)

Due(verb) == commands # <<>> /\ Head(commands).verb = verb /\ commands' = Tail(commands)

\* Variant: _already_handled is not asked.
RunApproveUnguarded ==
    /\ Due("approve")
    /\ LET a == Head(commands).agent
       IN  questions' = questions \ {a} /\ Wait(a) /\ Sees(Completed(a))
    /\ UNCHANGED <<responderVars, fleetVars, pooled, subscribed, mode, upsets, interrupted,
                   autocomplete, reviews, queued>>

\* gui_trigger_discovery: nothing was checked since, but for _already_handled.
RunApprove ==
    /\ Due("approve")
    /\ LET a == Head(commands).agent
       IN  /\ questions' = questions \ {a}
           /\ IF AlreadyHandled(a) THEN UNCHANGED <<coordVars, waiting, joined, stale, choice>>
              ELSE Wait(a)
           /\ Sees(Completed(a))
    /\ UNCHANGED <<responderVars, fleetVars, pooled, subscribed, mode, upsets, interrupted,
                   autocomplete, reviews, queued>>

\* gui_reject_discovery
RunReject ==
    /\ Due("reject")
    /\ LET a == Head(commands).agent
       IN  /\ questions' = questions \ {a}
           /\ IF waiting[a] = "incomplete"
              THEN /\ waiting' = [waiting EXCEPT ![a] = "absent"]
                   /\ joined' = Leave({a}, joined)
                   /\ stale' = Fresh("pool", {a})
                   /\ subscribed' = subscribed \ {a}
              ELSE UNCHANGED <<waiting, joined, stale, subscribed>>
           /\ Forget(a)
           /\ Sees([b \in {a} |-> "rejected"])
           /\ interrupted' = IF AlreadyHandled(a) THEN interrupted \cup {a} ELSE interrupted
    /\ UNCHANGED <<responderVars, fleetVars, pooled, mode, choice, upsets,
                   autocomplete, reviews, queued>>

\* gui_assign_instance
RunChoose ==
    /\ Due("choose")
    /\ LinkPass(mode, waiting, pooled, joined,
                [choice EXCEPT ![Head(commands).agent] = Head(commands).arg])
    /\ SeesNothing
    /\ UNCHANGED <<responderVars, poolVars, fleetVars, mode, questions, upsets, interrupted,
                   autocomplete, reviews, queued>>

RunMode == Due("mode") /\ SetLinkingMode(Head(commands).arg) /\ SeesNothing
             /\ UNCHANGED <<autocomplete, reviews, queued, interrupted>>

\* release_agent: cancel() looks for itself what there is to cancel.
RunRelease ==
    /\ Due("release")
    /\ IF InFlight(Head(commands).agent) THEN Release(Head(commands).agent) ELSE UNCHANGED vars
    /\ SeesNothing
    /\ UNCHANGED <<autocomplete, reviews, queued, interrupted>>

RunCommand == RunApprove \/ RunReject \/ RunChoose \/ RunMode \/ RunRelease

-----------------------------------------------------------------------------
(* The step thread: everything else                                        *)

\* _handle_discovery of an agent: check_discovery reads the flag ...
CheckDiscovery(a) ==
    /\ handling' = [agent |-> a, complete |-> autocomplete]
    /\ UNCHANGED <<vars, gatewayVars, monitorVars>>

\* ... and by what it said the announcement is completed from the configuration
\* (on_agent_discovered) or becomes a question (on_agent_incomplete), whatever the
\* flag is by then.
HandleDiscovery ==
    /\ handling # None
    /\ handling' = None
    /\ LET a == handling.agent
       IN  /\ \/ /\ handling.complete
                 /\ IF AlreadyHandled(a)
                    THEN UNCHANGED <<coordVars, waiting, joined, stale, choice, subscribed>>
                    ELSE Wait(a) /\ subscribed' = subscribed \cup {a}
                 /\ UNCHANGED <<responderVars, fleetVars, pooled, mode, questions, upsets>>
                 /\ Sees(Completed(a))
              \/ /\ ~handling.complete
                 /\ waiting' = [waiting EXCEPT ![a] = "incomplete"]
                 /\ joined' = Join(a, joined)
                 /\ stale' = Fresh("pool", {a})
                 /\ subscribed' = subscribed \cup {a}
                 /\ questions' = questions \cup {a}
                 /\ UNCHANGED <<coordVars, responderVars, fleetVars, pooled, mode, choice, upsets>>
                 /\ Sees([b \in {a} |-> "review"])
           /\ interrupted' = IF ~AlreadyHandled(a) THEN interrupted \ {a}
                             ELSE IF handling.complete THEN interrupted
                             ELSE interrupted \cup {a}
    /\ UNCHANGED gatewayVars

RouteSeen(i) ==
    /\ Take(i)
    /\ \E x \in RouteEffects(Head(uplink[i])) :
          Conclude(Head(uplink[i]).id, x) /\ Sees(Concluded(Head(uplink[i]).id, x))
    /\ UNCHANGED <<gatewayVars, interrupted>>

TickSeen(a) ==
    /\ InFlight(a)
    /\ \E x \in TickEffects(a) : Conclude(a, x) /\ Sees(Concluded(a, x))
    /\ UNCHANGED <<responderVars, gatewayVars, interrupted>>

\* Steps no hook but the flush's takes notice of.
Unhooked ==
    /\ \/ Link \/ Sweep
       \/ \E i \in Instance : OnInstanceDiscovered(i) \/ TwinState(i)
       \/ \E n \in Node : Touch(n)
    /\ SeesNothing
    /\ UNCHANGED <<gatewayVars, interrupted>>

\* What the step thread does between two announcements.
StepThread ==
    /\ \/ \E a \in Subject : TickSeen(a)
       \/ \E i \in Instance : RouteSeen(i)
       \/ RunCommand
       \/ Unhooked
    /\ UNCHANGED handling

\* The instances, the bus and the clocks wait for nobody.
Outside ==
    /\ World \/ \E n \in Node : GoesQuiet(n)
    /\ SeesNothing
    /\ UNCHANGED <<gatewayVars, handling, interrupted>>

ConsoleNext ==
    \/ \E t \in Thread :
          \/ \E a \in Subject, verdict \in {"approve", "reject"} : ReadReview(t, a, verdict)
          \/ Refuse(t) \/ Submit(t) \/ ListQuestions(t)
          \/ \E enabled \in BOOLEAN : SetAutocomplete(t, enabled)
    \/ \E a \in Subject :
          \/ \E i \in Instance : LinkPair(a, i)
          \/ ReleasePair(a)
    \/ \E m \in LinkingModes : ChangeMode(m)
    \/ handling = None /\ (StepThread \/ \E a \in Subject : CheckDiscovery(a))
    \/ HandleDiscovery
    \/ Outside

ConsoleSpec == ConsoleInit /\ [][ConsoleNext]_consoleVars

-----------------------------------------------------------------------------
(* Properties                                                              *)

VerdictDue(a) == \E k \in DOMAIN commands :
    commands[k].agent = a /\ commands[k].verb \in {"approve", "reject"}

\* on_agent_incomplete: "Known, but not linkable until someone fills in the missing
\* config."  Someone can: an agent that waits for the operator is on the operator's
\* list or the verdict is on its way, whatever the HTTP threads and the step thread do
\* to each other.  (Not so after a review in the middle of a handshake: a verdict that
\* meets the handshake is dropped together with the question.)
ReviewsAreOpen == \A a \in Subject : waiting[a] = "incomplete" /\ ~AlreadyHandled(a) =>
    a \in questions \/ VerdictDue(a) \/ a \in interrupted

\* gui_confirm_agent: "a double click, or a confirm that races a link, must not pool an
\* agent that is linked": its pool entry would age there and the sweep take the pair
\* down.  Two threads may have read the question, the flag may have been switched and
\* the agent linked before the second verdict runs.  (A new question about an agent in
\* a handshake or linked does pool it, on_agent_incomplete asks nobody; but that entry
\* waits for an answer and is never offered.)
LinkedIsNotPooled == \A a \in Subject : Linked(a) =>
    waiting[a] = "absent" \/ (waiting[a] = "incomplete" /\ a \in interrupted)

\* CommMonitor: an agent the console calls linked is linked, one that is linked is
\* called so, whichever half of a refused, repeated or interrupted handshake the hooks
\* saw.  (Not so after a review, or a rejection, of a
\* linked agent.)
PhasesAreTrue == \A a \in Subject :
    /\ phase[a] = "linked" => Linked(a)
    /\ Linked(a) => phase[a] = "linked" \/ a \in interrupted
=============================================================================
