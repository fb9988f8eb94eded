--------------------------- MODULE DiscoveryProofs ---------------------------
(***************************************************************************)
(* What is made of an announcement, for any fields, contents of the        *)
(* configuration files, reports and values an operator may write: the      *)
(* operator's default is the automatic answer, and an approved message     *)
(* holds what was on offer.                                                *)
(***************************************************************************)
EXTENDS Discovery, TLAPS

-----------------------------------------------------------------------------
(* The four layers                                                         *)

LEMMA FourLayers ==
    /\ DOMAIN Precedence = 1 .. 4 /\ Len(Precedence) = 4
    /\ Precedence[1] = "reported" /\ Precedence[2] = "agent"
    /\ Precedence[3] = "type" /\ Precedence[4] = "kind"
    /\ Source = {"reported", "agent", "type", "kind"}
<1>1. /\ DOMAIN Precedence = 1 .. 4 /\ Len(Precedence) = 4
      /\ Precedence[1] = "reported" /\ Precedence[2] = "agent"
      /\ Precedence[3] = "type" /\ Precedence[4] = "kind"
  BY DEF Precedence
<1>2. \A n : n \in 1 .. 4 <=> n = 1 \/ n = 2 \/ n = 3 \/ n = 4
  OBVIOUS
<1>3. Source = {Precedence[n] : n \in 1 .. 4}
  BY <1>1, Zenon DEF Source, ToSet
<1> QED
  BY <1>1, <1>2, <1>3

\* At or below a layer are the ones of its rank or a greater one.
LEMMA RanksBelow ==
    /\ \A s \in Source : \E n \in 1 .. 4 : Precedence[n] = s
    /\ \A m, n \in 1 .. 4 : Precedence[m] = Precedence[n] => m = n
    /\ \A m, n \in 1 .. 4 : Precedence[n] \in AtOrBelow(Precedence[m]) <=> m <= n
    /\ \A s \in Source : AtOrBelow(s) \subseteq Source
<1>1. \A n \in 1 .. 4 : n = 1 \/ n = 2 \/ n = 3 \/ n = 4
  OBVIOUS
<1>2. \A m, n \in 1 .. 4 : Precedence[m] = Precedence[n] => m = n
  BY <1>1, FourLayers
<1>3. /\ \A s \in Source : \E n \in 1 .. 4 : Precedence[n] = s
      /\ \A n \in 1 .. 4 : Precedence[n] \in Source
  BY <1>1, FourLayers
<1>4. ASSUME NEW m \in 1 .. 4, NEW n \in 1 .. 4
      PROVE  Precedence[n] \in AtOrBelow(Precedence[m]) <=> m <= n
  <2>1. DOMAIN Precedence = 1 .. 4
    BY FourLayers
  <2>2. Precedence[n] \in AtOrBelow(Precedence[m]) <=>
          \E j \in 1 .. 4 : Precedence[n] = Precedence[j]
             /\ \E i \in 1 .. 4 : i <= j /\ Precedence[i] = Precedence[m]
    BY <2>1 DEF AtOrBelow
  <2> QED
    BY <1>2, <2>2
<1> QED
  BY <1>2, <1>3, <1>4, FourLayers DEF AtOrBelow

\* There is a highest one among some layers.
LEMMA HighestIs ==
    ASSUME NEW S \in SUBSET Source, S # {}
    PROVE  \E n \in 1 .. 4 : /\ Highest(S) = Precedence[n] /\ Precedence[n] \in S
                             /\ \A m \in 1 .. 4 : m < n => Precedence[m] \notin S
<1>1. \E n \in 1 .. 4 : /\ Precedence[n] \in S
                        /\ \A m \in 1 .. 4 : m < n => Precedence[m] \notin S
  <2>1. \E n \in 1 .. 4 : Precedence[n] \in S
    BY RanksBelow
  <2>2. \A n \in 1 .. 4 : n = 1 \/ n = 2 \/ n = 3 \/ n = 4
    OBVIOUS
  <2> QED
    BY <2>1, <2>2
<1>2. PICK n \in 1 .. 4 : /\ Precedence[n] \in S
                          /\ \A m \in 1 .. 4 : m < n => Precedence[m] \notin S
  BY <1>1
<1>3. S \subseteq AtOrBelow(Precedence[n])
  <2> SUFFICES ASSUME NEW s \in S PROVE s \in AtOrBelow(Precedence[n])
    OBVIOUS
  <2>1. PICK m \in 1 .. 4 : Precedence[m] = s
    BY RanksBelow
  <2> QED
    BY <1>2, <2>1, RanksBelow
<1>4. Highest(S) \in S /\ S \subseteq AtOrBelow(Highest(S))
  BY <1>2, <1>3 DEF Highest
<1>5. PICK h \in 1 .. 4 : Precedence[h] = Highest(S)
  BY <1>4, RanksBelow
<1>6. h <= n
  BY <1>2, <1>4, <1>5, RanksBelow
<1> QED
  BY <1>2, <1>4, <1>5, <1>6

\* One step of the merge.
Above(ls, f, sources, s, below) == IF s \in sources THEN Over(ls[s][f], below) ELSE below

\* The merge, written out.
Chain(ls, f, sources) ==
    [n \in 1 .. 5 |->
        LET four == Above(ls, f, sources, "kind", Missing)
            three == Above(ls, f, sources, "type", four)
            two == Above(ls, f, sources, "agent", three)
        IN  IF n = 5 THEN Missing ELSE IF n = 4 THEN four ELSE IF n = 3 THEN three
            ELSE IF n = 2 THEN two ELSE Above(ls, f, sources, "reported", two)]

\* Every step of it goes over what is below.
LEMMA ChainSteps ==
    ASSUME NEW ls, NEW f, NEW sources
    PROVE  /\ Chain(ls, f, sources)[5] = Missing
           /\ \A n \in 1 .. 4 : Chain(ls, f, sources)[n] =
                Above(ls, f, sources, Precedence[n], Chain(ls, f, sources)[n + 1])
<1>1. /\ Chain(ls, f, sources)[5] = Missing
      /\ Chain(ls, f, sources)[4] = Above(ls, f, sources, "kind", Chain(ls, f, sources)[5])
      /\ Chain(ls, f, sources)[3] = Above(ls, f, sources, "type", Chain(ls, f, sources)[4])
      /\ Chain(ls, f, sources)[2] = Above(ls, f, sources, "agent", Chain(ls, f, sources)[3])
      /\ Chain(ls, f, sources)[1] = Above(ls, f, sources, "reported", Chain(ls, f, sources)[2])
  BY DEF Chain
<1> HIDE DEF Chain
<1>2. \A n \in 1 .. 4 : (n = 1 /\ n + 1 = 2) \/ (n = 2 /\ n + 1 = 3) \/ (n = 3 /\ n + 1 = 4) \/ (n = 4 /\ n + 1 = 5)
  OBVIOUS
<1> QED
  BY <1>1, <1>2, FourLayers

\* The recursion MergedFrom is defined by.
Merging(ls, f, sources, from) == from = [n \in 1 .. Len(Precedence) + 1 |->
    IF n > Len(Precedence) THEN Missing
    ELSE IF Precedence[n] \in sources THEN Over(ls[Precedence[n]][f], from[n + 1])
    ELSE from[n + 1]]

\* The merge is the first value of the chain.
LEMMA MergedIs ==
    ASSUME NEW ls, NEW f, NEW sources
    PROVE  MergedFrom(ls, f, sources) = Chain(ls, f, sources)[1]
<1> DEFINE c == Chain(ls, f, sources)
           from == CHOOSE g : Merging(ls, f, sources, g)
<1>0. Len(Precedence) = 4 /\ Len(Precedence) + 1 = 5
  BY FourLayers
<1>1. c[5] = Missing /\ c = [n \in 1 .. 5 |-> c[n]]
      /\ \A n \in 1 .. 4 : c[n] = Above(ls, f, sources, Precedence[n], c[n + 1])
  BY ChainSteps DEF Chain
<1> HIDE DEF c
<1>2. \A n \in 1 .. 5 : (n = 5 /\ n > 4) \/ (n \in 1 .. 4 /\ ~(n > 4))
  OBVIOUS
<1>3. Merging(ls, f, sources, c)
  <2>1. ASSUME NEW n \in 1 .. 5
        PROVE  c[n] = IF n > 4 THEN Missing
                      ELSE IF Precedence[n] \in sources THEN Over(ls[Precedence[n]][f], c[n + 1])
                      ELSE c[n + 1]
    BY <1>1, <1>2 DEF Above
  <2> QED
    BY <1>0, <1>1, <2>1, Zenon DEF Merging
<1>4. Merging(ls, f, sources, from)
  BY <1>3
<1>5. MergedFrom(ls, f, sources) = from[1]
  BY Zenon DEF MergedFrom, Merging
<1> HIDE DEF from
<1>6. from[5] = Missing /\ \A n \in 1 .. 4 : from[n] = Above(ls, f, sources, Precedence[n], from[n + 1])
  <2>1. from = [n \in 1 .. 5 |-> IF n > 4 THEN Missing
                      ELSE IF Precedence[n] \in sources THEN Over(ls[Precedence[n]][f], from[n + 1])
                      ELSE from[n + 1]]
    BY <1>0, <1>4, Zenon DEF Merging
  <2>2. \A n \in 1 .. 5 : from[n] = IF n > 4 THEN Missing
                      ELSE IF Precedence[n] \in sources THEN Over(ls[Precedence[n]][f], from[n + 1])
                      ELSE from[n + 1]
    BY <2>1, Zenon
  <2>3. 5 \in 1 .. 5 /\ 5 > 4 /\ \A n \in 1 .. 4 : n \in 1 .. 5 /\ ~(n > 4)
    OBVIOUS
  <2> QED
    BY <2>2, <2>3, Zenon DEF Above
<1>7. from[4] = c[4] /\ from[3] = c[3] /\ from[2] = c[2] /\ from[1] = c[1]
  <2>1. 1 + 1 = 2 /\ 2 + 1 = 3 /\ 3 + 1 = 4 /\ 4 + 1 = 5
        /\ 1 \in 1 .. 4 /\ 2 \in 1 .. 4 /\ 3 \in 1 .. 4 /\ 4 \in 1 .. 4
    OBVIOUS
  <2>2. from[4] = c[4]
    BY <1>1, <1>6, <2>1
  <2>3. from[3] = c[3]
    BY <1>1, <1>6, <2>1, <2>2
  <2>4. from[2] = c[2]
    BY <1>1, <1>6, <2>1, <2>3
  <2>5. from[1] = c[1]
    BY <1>1, <1>6, <2>1, <2>4
  <2> QED
    BY <2>2, <2>3, <2>4, <2>5
<1> QED
  BY <1>5, <1>7 DEF c

-----------------------------------------------------------------------------
(* What the layers of an announcement may hold                             *)

LayersOK(ls) ==
    /\ \A s \in Source, f \in Field :
          ls[s][f] \in {Missing, Null} \/ OfKind(ls[s][f], FieldType[f])
    /\ \A f \in AnyField : ls["reported"][f] # Null
    /\ \A f \in Identity : ls["reported"][f] # Missing /\ ls["reported"][f].type # "object"

ConfigOK == \A s \in ConfigSource : config[s] \in Content \cup {Nothing}

DiscoveryInv == ConfigOK /\ (Open => LayersOK(layers))

\* Files and reports are what the assumption says, and structured() leaves no None.
LEMMA CollectedOK ==
    ASSUME ConfigOK, NEW r \in Report
    PROVE  LayersOK(Layers(r))
<1>1. Missing # Null /\ Field \subseteq AnyField /\ Identity \subseteq AnyField /\ "reported" \in Source
  BY FourLayers DEF Missing, Null, AnyField
<1>2. ASSUME NEW f \in AnyField
      PROVE  Layers(r)["reported"][f] = IF r[f] = Null THEN Missing ELSE r[f]
  BY <1>1 DEF Layers, Structured
<1>3. ASSUME NEW s \in Source, NEW f \in Field
      PROVE  Layers(r)[s][f] \in {Missing, Null} \/ OfKind(Layers(r)[s][f], FieldType[f])
  <2>1. CASE s = "reported"
    BY <1>1, <1>2, <2>1, DiscoveryAssumption
  <2>2. CASE s # "reported"
    <3>1. Layers(r)[s] = config[s] /\ config[s] \in Content \cup {Nothing}
      BY <2>2 DEF Layers, ConfigOK, ConfigSource
    <3>2. Nothing[f] = Missing
      BY <1>1 DEF Nothing
    <3> QED
      BY <3>1, <3>2, DiscoveryAssumption
  <2> QED
    BY <2>1, <2>2
<1>4. ASSUME NEW f \in Identity
      PROVE  Layers(r)["reported"][f] # Missing /\ Layers(r)["reported"][f].type # "object"
  BY <1>1, <1>2, DiscoveryAssumption
<1>5. \A f \in AnyField : Layers(r)["reported"][f] # Null
  BY <1>1, <1>2
<1> QED
  BY <1>3, <1>4, <1>5 DEF LayersOK

LEMMA InitDiscovers == Init => DiscoveryInv
  BY DEF Init, DiscoveryInv, ConfigOK, Open

LEMMA NextDiscovers == DiscoveryInv /\ [Next]_vars => DiscoveryInv'
<1> SUFFICES ASSUME DiscoveryInv, [Next]_vars PROVE DiscoveryInv'
  OBVIOUS
<1>1. ASSUME NEW r \in Report, HandleDiscovery(r) PROVE DiscoveryInv'
  <2>1. ConfigOK'
    BY <1>1 DEF HandleDiscovery, DiscoveryInv, ConfigOK
  <2>2. LayersOK(Layers(r))
    BY CollectedOK DEF DiscoveryInv
  <2>3. layers' = layers \/ layers' = Layers(r)
    BY <1>1 DEF HandleDiscovery
  <2> QED
    BY <2>1, <2>2, <2>3 DEF DiscoveryInv, Open
<1>2. ASSUME layers' \in {layers, <<>>}, UNCHANGED config PROVE DiscoveryInv'
  BY <1>2 DEF DiscoveryInv, ConfigOK, Open
<1>3. ASSUME NEW choices \in [Field -> Choice], ResolveDiscovery(choices) PROVE DiscoveryInv'
  BY <1>2, <1>3 DEF ResolveDiscovery
<1>4. CASE RejectDiscovery
  BY <1>2, <1>4 DEF RejectDiscovery
<1>5. ASSUME NEW enabled \in BOOLEAN, SetAutocomplete(enabled) PROVE DiscoveryInv'
  BY <1>2, <1>5 DEF SetAutocomplete
<1>6. CASE UNCHANGED vars
  BY <1>2, <1>6 DEF vars
<1> QED
  BY <1>1, <1>3, <1>4, <1>5, <1>6 DEF Next

-----------------------------------------------------------------------------
(* The operator's default is the automatic answer                          *)

LEMMA OverIs ==
    ASSUME NEW hi, NEW lo
    PROVE  /\ Over(Missing, lo) = lo
           /\ hi # Missing /\ hi.type # "object" => Over(hi, lo) = hi
           /\ hi # Missing /\ lo.type # "object" => Over(hi, lo) = hi
  BY DEF Over

\* Two objects are merged key by key.
LEMMA OverObjects ==
    ASSUME NEW hi, NEW lo, OfKind(hi, "object"), lo.type = "object"
    PROVE  /\ OfKind(Over(hi, lo), "object")
           /\ DOMAIN Over(hi, lo).of = DOMAIN hi.of \cup DOMAIN lo.of
           /\ \A k \in DOMAIN hi.of : Over(hi, lo).of[k] = hi.of[k]
           /\ \A k \in DOMAIN lo.of \ DOMAIN hi.of : Over(hi, lo).of[k] = lo.of[k]
<1> DEFINE both == [k \in DOMAIN hi.of \cup DOMAIN lo.of |->
                       IF k \in DOMAIN hi.of THEN hi.of[k] ELSE lo.of[k]]
<1>1. hi # Missing /\ hi.type = "object" /\ hi = [type |-> hi.type, of |-> [k \in DOMAIN hi.of |-> hi.of[k]]]
  BY DEF OfKind, Missing
<1>2. Over(hi, lo) = [hi EXCEPT !.of = both]
  BY <1>1 DEF Over
<1>3. [hi EXCEPT !.of = both] = [type |-> hi.type, of |-> both]
  <2> HIDE DEF both
  <2> QED
    BY <1>1
<1>4. Over(hi, lo) = [type |-> "object", of |-> both]
  BY <1>1, <1>2, <1>3
<1>5. /\ DOMAIN both = DOMAIN hi.of \cup DOMAIN lo.of
      /\ both = [k \in DOMAIN both |-> both[k]]
      /\ \A k \in DOMAIN hi.of : both[k] = hi.of[k]
      /\ \A k \in DOMAIN lo.of \ DOMAIN hi.of : both[k] = lo.of[k]
  OBVIOUS
<1> HIDE DEF both
<1>6. OfKind(Over(hi, lo), "object")
  BY <1>4, <1>5 DEF OfKind
<1> QED
  BY <1>4, <1>5, <1>6

\* Layers that say nothing are passed through.
LEMMA PassedThrough ==
    ASSUME NEW c, NEW n \in 1 .. 4, \A m \in 1 .. 4 : m < n => c[m] = c[m + 1]
    PROVE  c[1] = c[n]
<1>1. n = 1 \/ n = 2 \/ n = 3 \/ n = 4
  OBVIOUS
<1>2. n = 2 => c[1] = c[2]
  OBVIOUS
<1>3. n = 3 => c[1] = c[2] /\ c[2] = c[3]
  OBVIOUS
<1>4. n = 4 => c[1] = c[2] /\ c[2] = c[3] /\ c[3] = c[4]
  OBVIOUS
<1> QED
  BY <1>1, <1>2, <1>3, <1>4

\* Where nobody says anything nothing is merged.
LEMMA NothingMerged ==
    ASSUME NEW ls, NEW f, NEW sources, \A s \in Source : ls[s][f] = Missing
    PROVE  MergedFrom(ls, f, sources) = Missing
<1> DEFINE c == Chain(ls, f, sources)
<1>1. c[5] = Missing /\ \A n \in 1 .. 4 : c[n] = Above(ls, f, sources, Precedence[n], c[n + 1])
  BY ChainSteps
<1> HIDE DEF c
<1>2. \A n \in 1 .. 4 : ls[Precedence[n]][f] = Missing
  <2>1. \A n \in 1 .. 4 : n = 1 \/ n = 2 \/ n = 3 \/ n = 4
    OBVIOUS
  <2> QED
    BY <2>1, FourLayers
<1>3. \A n \in 1 .. 4 : c[n] = c[n + 1]
  BY <1>1, <1>2, OverIs DEF Above
<1>4. c[4] = c[5] /\ c[1] = c[4]
  BY <1>3, PassedThrough
<1> QED
  BY <1>1, <1>4, MergedIs DEF c

\* The candidate of the highest layer that says anything is the whole merge.
LEMMA HighestIsMerged ==
    ASSUME NEW ls, LayersOK(ls), NEW f \in Field, \A s \in Source : ls[s][f] # Null,
           NEW n \in 1 .. 4, ls[Precedence[n]][f] # Missing,
           \A m \in 1 .. 4 : m < n => ls[Precedence[m]][f] = Missing
    PROVE  /\ MergedFrom(ls, f, Source) = Candidate(ls, Precedence[n], f)
           /\ MergedFrom(ls, f, Source) # Missing
<1> DEFINE s == Precedence[n]
           v == ls[s][f]
           among == {t \in AtOrBelow(s) : ls[t][f].type = "object"}
           c == Chain(ls, f, Source)
           d == Chain(ls, f, among)
<1>0. \A m \in 1 .. 4 : Precedence[m] \in Source
  <2>1. \A m \in 1 .. 4 : m = 1 \/ m = 2 \/ m = 3 \/ m = 4
    OBVIOUS
  <2> QED
    BY <2>1, FourLayers
<1>1. c[5] = Missing /\ \A m \in 1 .. 4 : c[m] = Above(ls, f, Source, Precedence[m], c[m + 1])
  BY ChainSteps
<1>2. d[5] = Missing /\ \A m \in 1 .. 4 : d[m] = Above(ls, f, among, Precedence[m], d[m + 1])
  BY ChainSteps
<1>3. \A m \in 1 .. 4 : Precedence[m] \in among <=> n <= m /\ ls[Precedence[m]][f].type = "object"
  BY RanksBelow
<1>4. Candidate(ls, s, f) = IF v.type # "object" THEN v ELSE d[1]
  BY MergedIs DEF Candidate
<1> HIDE DEF c, d, among
<1>5. \A m \in 1 .. 4 : c[m] = Over(ls[Precedence[m]][f], c[m + 1])
  BY <1>0, <1>1 DEF Above
<1>6. c[1] = c[n]
  <2>1. \A m \in 1 .. 4 : m < n => c[m] = c[m + 1]
    BY <1>5, OverIs
  <2> QED
    BY <2>1, PassedThrough
<1>7. OfKind(v, FieldType[f])
  BY <1>0 DEF LayersOK
<1>8. MergedFrom(ls, f, Source) = c[1] /\ c[n] = Over(v, c[n + 1]) /\ v # Missing
  BY <1>5, MergedIs DEF c
<1>9. CASE v.type # "object"
  <2>1. c[n] = v
    BY <1>8, <1>9, OverIs
  <2> QED
    BY <1>4, <1>6, <1>8, <1>9, <2>1
<1>10. CASE v.type = "object"
  <2>1. FieldType[f] = "object"
    BY <1>7, <1>10 DEF OfKind
  <2>2. \A m \in 1 .. 4 : ls[Precedence[m]][f] = Missing \/ ls[Precedence[m]][f].type = "object"
    <3> SUFFICES ASSUME NEW m \in 1 .. 4
                 PROVE  ls[Precedence[m]][f] = Missing \/ ls[Precedence[m]][f].type = "object"
      OBVIOUS
    <3>1. ls[Precedence[m]][f] \in {Missing, Null} \/ OfKind(ls[Precedence[m]][f], "object")
      BY <1>0, <2>1 DEF LayersOK
    <3>2. ls[Precedence[m]][f] # Null
      BY <1>0
    <3> QED
      BY <3>1, <3>2 DEF OfKind
  <2>3. Missing.type # "object"
    BY DEF Missing
  <2>4. d[1] = d[n]
    <3>1. \A m \in 1 .. 4 : m < n => Precedence[m] \notin among
      BY <1>3
    <3>2. \A m \in 1 .. 4 : m < n => d[m] = d[m + 1]
      BY <1>2, <3>1 DEF Above
    <3> QED
      BY <3>2, PassedThrough
  <2>5. \A m \in 1 .. 4 : n <= m /\ c[m + 1] = d[m + 1] => c[m] = d[m]
    <3> SUFFICES ASSUME NEW m \in 1 .. 4, n <= m, c[m + 1] = d[m + 1] PROVE c[m] = d[m]
      OBVIOUS
    <3>1. CASE Precedence[m] \in among
      BY <1>2, <1>5, <3>1 DEF Above
    <3>2. CASE Precedence[m] \notin among
      <4>1. ls[Precedence[m]][f] = Missing
        BY <1>3, <2>2, <3>2
      <4> QED
        BY <1>2, <1>5, <3>2, <4>1, OverIs DEF Above
    <3> QED
      BY <3>1, <3>2
  <2>6. c[n] = d[n]
    <3>1. n = 1 \/ n = 2 \/ n = 3 \/ n = 4
      OBVIOUS
    <3>2. c[5] = d[5]
      BY <1>1, <1>2
    <3>3. n <= 4 => c[4] = d[4]
      BY <2>5, <3>2
    <3>4. n <= 3 => c[3] = d[3]
      BY <2>5, <3>3
    <3>5. n <= 2 => c[2] = d[2]
      BY <2>5, <3>4
    <3>6. n <= 1 => c[1] = d[1]
      BY <2>5, <3>5
    <3> QED
      BY <3>1, <3>3, <3>4, <3>5, <3>6
  <2>7. c[n] # Missing
    <3>1. CASE c[n + 1].type = "object"
      BY <1>7, <1>8, <2>1, <2>3, <3>1, OverObjects DEF OfKind
    <3>2. CASE c[n + 1].type # "object"
      BY <1>8, <3>2, OverIs
    <3> QED
      BY <3>1, <3>2
  <2> QED
    BY <1>4, <1>6, <1>8, <1>10, <2>4, <2>6, <2>7
<1> QED
  BY <1>9, <1>10

\* For every field, whether it is asked about or carried over.
LEMMA DefaultIsMerged ==
    ASSUME NEW ls, LayersOK(ls), NEW f \in AnyField, \A s \in ConfigSource : ls[s][f] # Null
    PROVE  Resolved(ls, NoChoices)[f] = MergeLayers(ls)[f]
<1> DEFINE merged == MergedFrom(ls, f, Source)
<1>1. MergeLayers(ls)[f] = IF merged = Missing THEN Null ELSE merged
  BY DEF MergeLayers
<1>2. \A s \in Source : ls[s][f] # Null
  BY DEF ConfigSource, LayersOK
<1>3. CASE f \in Identity
  <2>1. Resolved(ls, NoChoices)[f] = ls["reported"][f]
    BY <1>3 DEF Resolved
  <2> DEFINE c == Chain(ls, f, Source)
  <2>2. c[1] = Over(ls["reported"][f], c[2])
    <3>1. \A n \in 1 .. 4 : c[n] = Above(ls, f, Source, Precedence[n], c[n + 1])
      BY ChainSteps
    <3> HIDE DEF c
    <3> QED
      BY <3>1, FourLayers DEF Above
  <2>3. merged = c[1]
    BY MergedIs
  <2> HIDE DEF c, merged
  <2>4. ls["reported"][f] # Missing /\ ls["reported"][f].type # "object"
    BY <1>3 DEF LayersOK
  <2>5. merged = ls["reported"][f]
    BY <2>2, <2>3, <2>4, OverIs
  <2> QED
    BY <1>1, <2>1, <2>4, <2>5
<1>4. CASE f \notin Identity
  <2>1. f \in Field
    BY <1>4 DEF AnyField
  <2>2. Resolved(ls, NoChoices)[f] = Answer(ls, f, NoChoices[f])
    BY <1>4 DEF Resolved
  <2>3. NoChoices[f].source = "unset"
    BY <2>1 DEF NoChoices
  <2>4. \A s \in Source : Found(ls, s, f) <=> ls[s][f] # Missing
    BY <1>2 DEF Found
  <2>5. CASE Sources(ls, f) = {}
    <3>1. \A s \in Source : ls[s][f] = Missing
      BY <2>4, <2>5 DEF Sources
    <3>2. merged = Missing
      BY <3>1, NothingMerged
    <3>3. Answer(ls, f, NoChoices[f]) = Null
      BY <2>3, <2>5 DEF Answer, DefaultSource
    <3> QED
      BY <1>1, <2>2, <3>2, <3>3
  <2>6. CASE Sources(ls, f) # {}
    <3>1. PICK n \in 1 .. 4 : /\ Highest(Sources(ls, f)) = Precedence[n]
                              /\ Precedence[n] \in Sources(ls, f)
                              /\ \A m \in 1 .. 4 : m < n => Precedence[m] \notin Sources(ls, f)
      BY <2>6, HighestIs DEF Sources
    <3>2. /\ Precedence[n] \in Source /\ Found(ls, Precedence[n], f)
          /\ ls[Precedence[n]][f] # Missing
      BY <2>4, <3>1 DEF Sources
    <3>3. \A m \in 1 .. 4 : Precedence[m] \in Source
      <4>1. \A m \in 1 .. 4 : m = 1 \/ m = 2 \/ m = 3 \/ m = 4
        OBVIOUS
      <4> QED
        BY <4>1, FourLayers
    <3>4. \A m \in 1 .. 4 : m < n => ls[Precedence[m]][f] = Missing
      BY <2>4, <3>1, <3>3 DEF Sources
    <3>5. merged = Candidate(ls, Precedence[n], f) /\ merged # Missing
      BY <1>2, <2>1, <3>2, <3>4, HighestIsMerged
    <3> HIDE DEF merged
    <3>6. DefaultSource(ls, f) = Precedence[n]
      BY <2>6, <3>1 DEF DefaultSource
    <3>7. Precedence[n] \notin {"none", "custom", "unset"}
      BY <3>2, FourLayers
    <3>8. Answer(ls, f, NoChoices[f]) = Candidate(ls, Precedence[n], f)
      BY <2>3, <3>2, <3>6, <3>7 DEF Answer
    <3> QED
      BY <1>1, <2>2, <3>5, <3>8
  <2> QED
    BY <2>5, <2>6
<1> QED
  BY <1>3, <1>4

\* What the operator is offered as it stands is what autocomplete would have sent,
\* whatever the files and the agent say, objects spread over all four layers included.
THEOREM PreselectedIsMergedHolds == Spec => []PreselectedIsMerged
<1>1. DiscoveryInv => PreselectedIsMerged
  <2> SUFFICES ASSUME DiscoveryInv, Open, NEW f \in AnyField, NoNull(f)
               PROVE  Resolved(layers, NoChoices)[f] = MergeLayers(layers)[f]
    BY DEF PreselectedIsMerged
  <2>1. LayersOK(layers) /\ \A s \in ConfigSource : layers[s][f] # Null
    BY DEF DiscoveryInv, NoNull
  <2> QED
    BY <2>1, DefaultIsMerged
<1> QED
  BY <1>1, InitDiscovers, NextDiscovers, PTL DEF Spec

-----------------------------------------------------------------------------
(* What is approved was on offer                                           *)

\* What the layer of rank j has under field f.
At(f, j) == layers[Precedence[j]][f].of

\* Object v holds the keys of the layers of rank n and below, each from the highest.
Gathers(f, n, v) ==
    /\ v = Missing \/ OfKind(v, "object")
    /\ DOMAIN v.of = UNION {DOMAIN At(f, j) : j \in n .. 4}
    /\ \A k \in DOMAIN v.of : \E j \in n .. 4 :
          /\ k \in DOMAIN At(f, j) /\ v.of[k] = At(f, j)[k]
          /\ \A h \in n .. (j - 1) : k \notin DOMAIN At(f, h)

\* Every step of a merge gathers one layer more.
LEMMA GathersMore ==
    ASSUME NEW f, NEW n \in 1 .. 4, NEW w, Gathers(f, n + 1, w),
           NEW hi, hi = layers[Precedence[n]][f], hi \in {Missing, Null} \/ OfKind(hi, "object")
    PROVE  Gathers(f, n, IF hi.type = "object" THEN Over(hi, w) ELSE w)
<1> DEFINE v == IF hi.type = "object" THEN Over(hi, w) ELSE w
<1>1. DOMAIN Missing.of = {} /\ DOMAIN Null.of = {} /\ Missing.type # "object" /\ Null.type # "object"
  BY DEF Missing, Null, Empty
<1>2. At(f, n) = hi.of
  BY DEF At
<1>3. (v = Missing \/ OfKind(v, "object")) /\ DOMAIN v.of = DOMAIN At(f, n) \cup DOMAIN w.of
      /\ (\A k \in DOMAIN At(f, n) : v.of[k] = At(f, n)[k])
      /\ (\A k \in DOMAIN w.of \ DOMAIN At(f, n) : v.of[k] = w.of[k])
  <2>1. CASE hi.type # "object"
    <3>1. DOMAIN hi.of = {}
      BY <1>1, <2>1 DEF OfKind
    <3> QED
      BY <1>2, <2>1, <3>1 DEF Gathers
  <2>2. CASE hi.type = "object" /\ w = Missing
    <3>1. OfKind(hi, "object") /\ v = hi
      BY <1>1, <2>2, OverIs
    <3> HIDE DEF v
    <3> QED
      BY <1>1, <1>2, <2>2, <3>1
  <2>3. CASE hi.type = "object" /\ w # Missing
    <3>1. OfKind(hi, "object") /\ w.type = "object" /\ v = Over(hi, w)
      BY <1>1, <2>3 DEF Gathers, OfKind
    <3> HIDE DEF v
    <3> QED
      BY <1>2, <3>1, OverObjects
  <2> QED
    BY <2>1, <2>2, <2>3
<1> HIDE DEF v
<1>4. \A j : j \in n .. 4 <=> j = n \/ j \in n + 1 .. 4
  OBVIOUS
<1>5. DOMAIN v.of = UNION {DOMAIN At(f, j) : j \in n .. 4}
  <2>1. DOMAIN w.of = UNION {DOMAIN At(f, j) : j \in n + 1 .. 4}
    BY DEF Gathers
  <2> QED
    BY <1>3, <1>4, <2>1
<1>6. ASSUME NEW k \in DOMAIN v.of
      PROVE  \E j \in n .. 4 :
                /\ k \in DOMAIN At(f, j) /\ v.of[k] = At(f, j)[k]
                /\ \A h \in n .. (j - 1) : k \notin DOMAIN At(f, h)
  <2>1. CASE k \in DOMAIN At(f, n)
    <3>1. n \in n .. 4 /\ n .. (n - 1) = {}
      OBVIOUS
    <3> QED
      BY <1>3, <2>1, <3>1
  <2>2. CASE k \notin DOMAIN At(f, n)
    <3>1. k \in DOMAIN w.of
      BY <1>3, <2>2
    <3>2. PICK j \in n + 1 .. 4 : /\ k \in DOMAIN At(f, j) /\ w.of[k] = At(f, j)[k]
                                  /\ \A h \in n + 1 .. (j - 1) : k \notin DOMAIN At(f, h)
      BY <3>1 DEF Gathers
    <3>3. \A h \in n .. (j - 1) : h = n \/ h \in n + 1 .. (j - 1)
      OBVIOUS
    <3> QED
      BY <1>3, <1>4, <2>2, <3>1, <3>2, <3>3
  <2> QED
    BY <2>1, <2>2
<1> QED
  BY <1>3, <1>5, <1>6 DEF Gathers, v

\* The property, in terms of ranks.
LEMMA OfferedFrom ==
    ASSUME NEW f, NEW v, NEW n \in 1 .. 4, Found(layers, Precedence[n], f),
           DOMAIN v.of = UNION {DOMAIN At(f, j) : j \in n .. 4},
           \A k \in DOMAIN v.of : \E j \in n .. 4 :
              /\ k \in DOMAIN At(f, j) /\ v.of[k] = At(f, j)[k]
              /\ \A h \in n .. (j - 1) : k \notin DOMAIN At(f, h)
    PROVE  IsOffered(f, v)
<1>1. DOMAIN Precedence = 1 .. 4 /\ Len(Precedence) = 4
  BY FourLayers
<1> DEFINE last == Len(Precedence)
<1>2. last = 4 /\ n \in DOMAIN Precedence
  BY <1>1
<1>3. ASSUME /\ DOMAIN v.of = UNION {DOMAIN At(f, j) : j \in n .. last}
             /\ \A k \in DOMAIN v.of : \E j \in n .. last :
                   /\ k \in DOMAIN At(f, j) /\ v.of[k] = At(f, j)[k]
                   /\ \A h \in n .. (j - 1) : k \notin DOMAIN At(f, h)
      PROVE  IsOffered(f, v)
  BY <1>2, <1>3, Zenon DEF IsOffered, At
<1> HIDE DEF last
<1> QED
  BY <1>2, <1>3

\* A source that has a value offers it, an object with what is below it.
LEMMA CandidateIsOffered ==
    ASSUME LayersOK(layers), NEW f \in Field, NEW s \in Source, Found(layers, s, f)
    PROVE  IsOffered(f, Candidate(layers, s, f))
<1> DEFINE v == Candidate(layers, s, f)
           own == layers[s][f]
           among == {t \in AtOrBelow(s) : layers[t][f].type = "object"}
           c == Chain(layers, f, among)
<1>0. \A m \in 1 .. 4 : Precedence[m] \in Source
  <2>1. \A m \in 1 .. 4 : m = 1 \/ m = 2 \/ m = 3 \/ m = 4
    OBVIOUS
  <2> QED
    BY <2>1, FourLayers
<1>1. PICK n \in 1 .. 4 : Precedence[n] = s
  BY RanksBelow
<1>2. OfKind(own, FieldType[f])
  BY DEF LayersOK, Found
<1>3. DOMAIN Precedence = 1 .. 4 /\ Len(Precedence) = 4
  BY FourLayers
<1>4. v = IF own.type # "object" THEN own ELSE c[1]
  BY MergedIs DEF Candidate
<1>5. c[5] = Missing /\ \A m \in 1 .. 4 : c[m] = Above(layers, f, among, Precedence[m], c[m + 1])
  BY ChainSteps
<1>6. \A m \in 1 .. 4 : Precedence[m] \in among <=> n <= m /\ layers[Precedence[m]][f].type = "object"
  BY <1>1, RanksBelow
<1>7. SUFFICES /\ DOMAIN v.of = UNION {DOMAIN At(f, j) : j \in n .. 4}
               /\ \A k \in DOMAIN v.of : \E j \in n .. 4 :
                     /\ k \in DOMAIN At(f, j) /\ v.of[k] = At(f, j)[k]
                     /\ \A h \in n .. (j - 1) : k \notin DOMAIN At(f, h)
  BY <1>1, OfferedFrom
<1> HIDE DEF v, c, among
<1>8. CASE own.type # "object"
  <2>1. FieldType[f] # "object" /\ DOMAIN own.of = {"it"} /\ v = own
    BY <1>2, <1>4, <1>8 DEF OfKind
  <2>2. ASSUME NEW j \in 1 .. 4 PROVE DOMAIN At(f, j) \subseteq {"it"}
    <3>1. DOMAIN Missing.of = {} /\ DOMAIN Null.of = {}
      BY DEF Missing, Null, Empty
    <3>2. layers[Precedence[j]][f] \in {Missing, Null} \/ OfKind(layers[Precedence[j]][f], FieldType[f])
      BY <1>0 DEF LayersOK
    <3>3. OfKind(layers[Precedence[j]][f], FieldType[f]) => DOMAIN At(f, j) = {"it"}
      BY <2>1 DEF OfKind, At
    <3> QED
      BY <3>1, <3>2, <3>3 DEF At
  <2>3. At(f, n) = own.of /\ n \in n .. 4 /\ n .. (n - 1) = {} /\ \A j \in n .. 4 : j \in 1 .. 4
    BY <1>1 DEF At
  <2>4. DOMAIN v.of = UNION {DOMAIN At(f, j) : j \in n .. 4}
    BY <2>1, <2>2, <2>3
  <2> QED
    BY <2>1, <2>3, <2>4
<1>9. CASE own.type = "object"
  <2>1. FieldType[f] = "object"
    BY <1>2, <1>9 DEF OfKind
  <2>2. \A m \in 1 .. 4 : layers[Precedence[m]][f] \in {Missing, Null}
                          \/ OfKind(layers[Precedence[m]][f], "object")
    BY <1>0, <2>1 DEF LayersOK
  <2>3. Gathers(f, 5, c[5])
    <3>1. c[5] = Missing /\ DOMAIN Missing.of = {} /\ 5 .. 4 = {}
      BY <1>5 DEF Missing, Empty
    <3> QED
      BY <3>1 DEF Gathers
  <2>4. ASSUME NEW m \in 1 .. 4, n <= m, Gathers(f, m + 1, c[m + 1]) PROVE Gathers(f, m, c[m])
    <3> DEFINE hi == layers[Precedence[m]][f]
    <3>1. c[m] = IF hi.type = "object" THEN Over(hi, c[m + 1]) ELSE c[m + 1]
      BY <1>5, <1>6, <2>4 DEF Above
    <3> HIDE DEF hi
    <3>2. Gathers(f, m, IF hi.type = "object" THEN Over(hi, c[m + 1]) ELSE c[m + 1])
      BY <2>2, <2>4, GathersMore DEF hi
    <3> QED
      BY <3>1, <3>2
  <2>5. Gathers(f, n, c[n])
    <3>0. /\ 4 \in 1 .. 4 /\ 3 \in 1 .. 4 /\ 2 \in 1 .. 4 /\ 1 \in 1 .. 4
          /\ 4 + 1 = 5 /\ 3 + 1 = 4 /\ 2 + 1 = 3 /\ 1 + 1 = 2
          /\ n <= 4 /\ (n <= 2 => n <= 3) /\ (n <= 1 => n <= 2)
      OBVIOUS
    <3>1. n = 1 \/ n = 2 \/ n = 3 \/ n = 4
      OBVIOUS
    <3>2. Gathers(f, 4, c[4])
      BY <2>3, <2>4, <3>0
    <3>3. n <= 3 => Gathers(f, 3, c[3])
      BY <2>4, <3>0, <3>2
    <3>4. n <= 2 => Gathers(f, 2, c[2])
      BY <2>4, <3>0, <3>3
    <3>5. n <= 1 => Gathers(f, 1, c[1])
      BY <2>4, <3>0, <3>4
    <3> QED
      BY <3>1, <3>2, <3>3, <3>4, <3>5
  <2>6. c[1] = c[n]
    <3>1. \A m \in 1 .. 4 : m < n => Precedence[m] \notin among
      BY <1>6
    <3>2. \A m \in 1 .. 4 : m < n => c[m] = c[m + 1]
      BY <1>5, <3>1 DEF Above
    <3> QED
      BY <3>2, PassedThrough
  <2> QED
    BY <1>4, <1>9, <2>5, <2>6 DEF Gathers
<1> QED
  BY <1>8, <1>9

\* Whatever the operator answers to, an approved message holds, field by field, what
\* the open question offers or the operator wrote, of the type of the field, and no
\* field a twin needs is blank.
THEOREM ApprovedAsOfferedHolds == Spec => ApprovedAsOffered
<1> DEFINE Fine(f, v) ==
        /\ v = Null \/ v \in Custom \/ IsOffered(f, v)
        /\ IF Blank(v) THEN f \in Optional ELSE v.type = FieldType[f]
<1>1. DiscoveryInv /\ [Next]_vars =>
        [message'.by = "operator" /\ message' # message =>
            \A f \in Field : Fine(f, message'.fields[f])]_vars
  <2> SUFFICES ASSUME DiscoveryInv, Next, message'.by = "operator", message' # message,
                      NEW f \in Field
               PROVE  Fine(f, message'.fields[f])
    BY DEF vars
  <2>1. PICK choices \in [Field -> Choice] : ResolveDiscovery(choices)
    BY DEF Next, HandleDiscovery, RejectDiscovery, SetAutocomplete
  <2> DEFINE v == Answer(layers, f, choices[f])
             s == IF choices[f].source = "unset" THEN DefaultSource(layers, f) ELSE choices[f].source
  <2>2. /\ LayersOK(layers) /\ Errors(layers, choices) = {}
        /\ message' = [by |-> "operator", fields |-> Resolved(layers, choices)]
    BY <2>1 DEF ResolveDiscovery, DiscoveryInv
  <2>3. message'.fields[f] = v
    BY <2>2, DiscoveryAssumption DEF Resolved, AnyField
  <2>4. v # Missing /\ Accepts(f, v)
    BY <2>2 DEF Errors
  <2>5. v = Null \/ v \in Custom \/ IsOffered(f, v)
    <3>1. CASE s = "none"
      BY <3>1 DEF Answer
    <3>2. CASE s = "custom"
      <4>1. choices[f] \in Choice
        OBVIOUS
      <4>2. v = choices[f].value
        BY <3>2 DEF Answer
      <4>3. DefaultSource(layers, f) # "custom"
        BY HighestIs, FourLayers, RanksBelow DEF DefaultSource, Sources
      <4>4. choices[f].source = "custom"
        BY <3>2, <4>3
      <4>5. choices[f].value \in Custom
        BY <4>1, <4>4, FourLayers DEF Choice
      <4> QED
        BY <4>2, <4>5
    <3>3. CASE s \notin {"none", "custom"}
      <4>1. v = IF Found(layers, s, f) THEN Candidate(layers, s, f) ELSE Missing
        BY <3>3 DEF Answer
      <4>2. Found(layers, s, f) /\ v = Candidate(layers, s, f)
        BY <2>4, <4>1
      <4>3. s \in Source
        <5>1. CASE choices[f].source = "unset"
          <6>1. Sources(layers, f) # {} /\ s = Highest(Sources(layers, f))
            BY <3>3, <5>1 DEF DefaultSource
          <6>2. s \in Sources(layers, f)
            BY <6>1, HighestIs DEF Sources
          <6> QED
            BY <6>2 DEF Sources
        <5>2. CASE choices[f].source # "unset"
          <6>1. choices[f] \in Choice
            OBVIOUS
          <6> QED
            BY <3>3, <5>2, <6>1 DEF Choice
        <5> QED
          BY <5>1, <5>2
      <4> QED
        BY <2>2, <4>2, <4>3, CandidateIsOffered
    <3> QED
      BY <3>1, <3>2, <3>3
  <2>6. IF Blank(v) THEN f \in Optional ELSE v.type = FieldType[f]
    BY <2>4 DEF Accepts, Required, OfType
  <2> HIDE DEF v
  <2> QED
    BY <2>3, <2>5, <2>6
<1> QED
  BY <1>1, InitDiscovers, NextDiscovers, PTL DEF Spec, ApprovedAsOffered
=============================================================================
