------------------------------ MODULE Discovery ------------------------------
(***************************************************************************)
(* What becomes of the announcement of one agent: discovery_config.py      *)
(* collects the layers of configuration that speak for it and merges them  *)
(* or leaves them as a question; discovery_resolver.py and                 *)
(* discovery_validation.py turn the operator's answer into the message.    *)
(*                                                                         *)
(* A value is [type, of]: its JSON type and its content.  Content is a     *)
(* function from the keys of an object, or from "it", to an atom.  The     *)
(* resolver and merge_layers are two codes for one precedence; both go     *)
(* through OmegaConf.merge, which is external.                             *)
(***************************************************************************)
EXTENDS Naturals, Sequences, SequencesExt

CONSTANTS
    Field,          \* fields the operator is asked about
    Identity,       \* fields carried over from the report, IDENTITY_FIELDS
    FieldType,      \* [Field -> type], what the dataclass declares
    Optional,       \* FIELD_SCHEMAS: the fields that may stay empty
    Content,        \* what a configuration file may say
    Report,         \* what an agent may say of itself
    Custom          \* values an operator may write

Precedence == <<"reported", "agent", "type", "kind">>
Source == ToSet(Precedence)
ConfigSource == Source \ {"reported"}
AtOrBelow(s) == {Precedence[j] : j \in {j \in DOMAIN Precedence :
                    \E i \in DOMAIN Precedence : i <= j /\ Precedence[i] = s}}
Highest(sources) == CHOOSE s \in sources : sources \subseteq AtOrBelow(s)

Empty == [k \in {} |-> "nothing"]
Missing == [type |-> "missing", of |-> Empty]   \* "???", or no such key
Null == [type |-> "null", of |-> Empty]         \* None
AnyField == Field \cup Identity
Nothing == [f \in AnyField |-> Missing]

\* A value of this type; only objects have keys of their own.
OfKind(v, type) ==
    /\ DOMAIN v = {"type", "of"} /\ v.type = type
    /\ v = [type |-> v.type, of |-> [k \in DOMAIN v.of |-> v.of[k]]]
    /\ type # "object" => DOMAIN v.of = {"it"}

ASSUME DiscoveryAssumption ==
    /\ Optional \subseteq Field /\ Field \cap Identity = {}
    /\ \A f \in Field : FieldType[f] \notin {"missing", "null"}
    /\ \A c \in Content \cup Report : \A f \in Field :
          c[f] \in {Missing, Null} \/ OfKind(c[f], FieldType[f])
    /\ \A r \in Report : \A f \in Identity :
          r[f] \notin {Missing, Null} /\ r[f].type # "object"

VARIABLES
    config,         \* source -> what its file says, Nothing without one
    autocomplete,
    layers,         \* the open question, twin.discoveries_gui, <<>> without one
    message         \* the last message given to the link manager, and who made it

vars == <<config, autocomplete, layers, message>>

NoMessage == [by |-> "nobody", fields |-> Nothing]
Open == layers # <<>>

-----------------------------------------------------------------------------
(* discovery_config.py                                                     *)

\* structured: a field the agent left None is one it did not fill in.
Structured(report) == [f \in AnyField |-> IF report[f] = Null THEN Missing ELSE report[f]]

Layers(report) == [s \in Source |-> IF s = "reported" THEN Structured(report) ELSE config[s]]

\* OmegaConf.merge of two values: objects are merged, anything else replaced.
Over(hi, lo) ==
    IF hi = Missing THEN lo
    ELSE IF hi.type = "object" /\ lo.type = "object"
    THEN [hi EXCEPT !.of = [k \in DOMAIN hi.of \cup DOMAIN lo.of |->
                               IF k \in DOMAIN hi.of THEN hi.of[k] ELSE lo.of[k]]]
    ELSE hi

\* The values of a field in some of the layers, merged: from[n] from the n-th down.
MergedFrom(ls, f, sources) ==
    LET last == Len(Precedence)
        from[n \in 1 .. last + 1] ==
            IF n > last THEN Missing
            ELSE IF Precedence[n] \in sources THEN Over(ls[Precedence[n]][f], from[n + 1])
            ELSE from[n + 1]
    IN  from[1]

\* merge_layers: what no layer fills becomes None.
MergeLayers(ls) == [f \in AnyField |->
    LET v == MergedFrom(ls, f, Source) IN IF v = Missing THEN Null ELSE v]

-----------------------------------------------------------------------------
(* discovery_resolver.py and discovery_validation.py                       *)

\* _lookup: None is as absent as "???".
Found(ls, s, f) == ls[s][f] \notin {Missing, Null}

\* field_specs, default_source: the highest source with a value is preselected.
Sources(ls, f) == {s \in Source : Found(ls, s, f)}
DefaultSource(ls, f) == IF Sources(ls, f) = {} THEN "none" ELSE Highest(Sources(ls, f))

\* Variant: only the next object below is looked at.
CandidateShallow(ls, s, f) ==
    LET below == (Sources(ls, f) \cap AtOrBelow(s)) \ {s}
    IN  IF below = {} THEN ls[s][f] ELSE Over(ls[s][f], ls[Highest(below)][f])

\* _candidates: an object is merged over the objects below it.
Candidate(ls, s, f) ==
    IF ls[s][f].type # "object" THEN ls[s][f]
    ELSE MergedFrom(ls, f, {t \in AtOrBelow(s) : ls[t][f].type = "object"})

\* is_blank
Blank(v) == v = Null \/ (v.type = "string" /\ v.of["it"] = "")

\* rules_for
Required(f) == f \notin Optional
OfType(f, v) == v.type = FieldType[f]

\* Variant: nothing is asked of a blank value.
AcceptsBlank(f, v) == Blank(v) \/ OfType(f, v)

\* validate: a blank value answers to Required alone, any other to OfType.
Accepts(f, v) == IF Blank(v) THEN ~Required(f) ELSE OfType(f, v)

\* _answer: the value a choice stands for, Missing when its source has none.
Answer(ls, f, choice) ==
    LET s == IF choice.source = "unset" THEN DefaultSource(ls, f) ELSE choice.source
    IN  CASE s = "none" -> Null
          [] s = "custom" -> choice.value
          [] OTHER -> IF Found(ls, s, f) THEN Candidate(ls, s, f) ELSE Missing

\* apply_resolution
Errors(ls, choices) == {f \in Field :
    LET v == Answer(ls, f, choices[f]) IN v = Missing \/ ~Accepts(f, v)}

Resolved(ls, choices) == [f \in AnyField |->
    IF f \in Identity THEN ls["reported"][f] ELSE Answer(ls, f, choices[f])]

Choice == [source : Source \cup {"unset"}, value : {Null}] \cup [source : {"custom"}, value : Custom]
NoChoices == [f \in Field |-> [source |-> "unset", value |-> Null]]

-----------------------------------------------------------------------------
Init ==
    /\ config \in [ConfigSource -> Content \cup {Nothing}]
    /\ autocomplete = FALSE
    /\ layers = <<>>
    /\ message = NoMessage

\* _handle_discovery.  A question that is open is replaced, whatever form of it the
\* operator is looking at.
HandleDiscovery(report) ==
    /\ IF autocomplete
       THEN message' = [by |-> "layers", fields |-> MergeLayers(Layers(report))] /\ UNCHANGED layers
       ELSE layers' = Layers(report) /\ UNCHANGED message
    /\ UNCHANGED <<config, autocomplete>>

\* resolve_discovery: with an error in any field the question stays.
ResolveDiscovery(choices) ==
    /\ Open
    /\ Errors(layers, choices) = {}
    /\ message' = [by |-> "operator", fields |-> Resolved(layers, choices)]
    /\ layers' = <<>>
    /\ UNCHANGED <<config, autocomplete>>

RejectDiscovery == Open /\ layers' = <<>> /\ UNCHANGED <<config, autocomplete, message>>

\* set_autocomplete: the open question is completed.
SetAutocomplete(enabled) ==
    /\ autocomplete' = enabled
    /\ IF enabled /\ Open
       THEN message' = [by |-> "layers", fields |-> MergeLayers(layers)] /\ layers' = <<>>
       ELSE UNCHANGED <<message, layers>>
    /\ UNCHANGED config

Next ==
    \/ \E r \in Report : HandleDiscovery(r)
    \/ \E choices \in [Field -> Choice] : ResolveDiscovery(choices)
    \/ RejectDiscovery
    \/ \E enabled \in BOOLEAN : SetAutocomplete(enabled)

Spec == Init /\ [][Next]_vars

-----------------------------------------------------------------------------
(* Properties                                                              *)

NoNull(f) == \A s \in ConfigSource : layers[s][f] # Null

\* README.md: "With `autocomplete` on, the layers merge automatically.  Otherwise the
\* operator resolves each field".  An operator who keeps every preselected source gets
\* the message autocomplete would have made: the candidates the resolver builds and the
\* merge of discovery_config.py agree on every field, on what the agent left None and on
\* objects spread over several layers.  (They do not where a configuration says null of a
\* field that a lower one fills: the merge takes the null, the resolver what is below.)
PreselectedIsMerged ==
    Open /\ Errors(layers, NoChoices) = {} =>
        \A f \in AnyField : NoNull(f) => Resolved(layers, NoChoices)[f] = MergeLayers(layers)[f]

\* What a source offers, said key by key: its own keys and those of the layers below
\* it, each from the highest of these layers that has it.
IsOffered(f, v) == \E i \in DOMAIN Precedence :
    LET of(j) == layers[Precedence[j]][f].of
    IN  /\ Found(layers, Precedence[i], f)
        /\ DOMAIN v.of = UNION {DOMAIN of(j) : j \in i .. Len(Precedence)}
        /\ \A k \in DOMAIN v.of : \E j \in i .. Len(Precedence) :
              /\ k \in DOMAIN of(j) /\ v.of[k] = of(j)[k]
              /\ \A h \in i .. (j - 1) : k \notin DOMAIN of(h)

\* discovery_resolver.py: "Only a custom answer's value comes from the browser: every
\* other value is looked up again here, so a client cannot submit a value it was not
\* offered."  Whatever form the operator answers, of this announcement or of an earlier
\* one, an approved message holds values of the layers that are open now or the operator's
\* own, of the type the field has, and none of the fields a twin needs is left blank.
ApprovedAsOffered == [][
    message'.by = "operator" /\ message' # message =>
        \A f \in Field : LET v == message'.fields[f] IN
            /\ v = Null \/ v \in Custom \/ IsOffered(f, v)
            /\ IF Blank(v) THEN f \in Optional ELSE v.type = FieldType[f]]_vars
=============================================================================
