------------------------- MODULE AggregateTwinProofs -------------------------
(***************************************************************************)
(* What becomes of the envelopes, for any number of messages, commands,    *)
(* addressees, envelopes and exceptions: none is lost, and each addressee  *)
(* hears of those of a manager in order.                                   *)
(***************************************************************************)
EXTENDS AggregateTwin, FiniteSetTheorems, WellFoundedInduction, TLAPS

-----------------------------------------------------------------------------
(* Numbers                                                                 *)

\* Induction without an operator parameter: among finite sets one has none of the others
\* within it (the strict subset order is well-founded).
LEMMA FiniteMinimal ==
    ASSUME NEW F, F # {}, \A U \in F : IsFiniteSet(U)
    PROVE  \E U \in F : \A V \in F : V \subseteq U => V = U
<1>. DEFINE S == UNION F
            R == StrictSubsetOrdering(S)
<1>1. F \subseteq FiniteSubsetsOf(S)
  BY DEF FiniteSubsetsOf
<1>2. \E x \in F : \A y \in F : <<y, x>> \notin R
  <2>1. IsWellFoundedOn(R, FiniteSubsetsOf(S))
    BY FS_StrictSubsetOrderingWellFounded
  <2>. HIDE DEF R, S
  <2>. QED
    BY <2>1, <1>1, WFMin
<1>. QED
  BY <1>2 DEF StrictSubsetOrdering

\* In particular a set of numbers has a least one.
LEMMA LeastNatural ==
    ASSUME NEW T \in SUBSET Nat, T # {}
    PROVE  \E n \in T : \A m \in T : n <= m
<1>. DEFINE Upto(n) == 0 .. n
            F == {Upto(n) : n \in T}
<1>1. \A n \in T : IsFiniteSet(Upto(n))
  BY FS_Interval
<1>2. \A m, n \in T : m < n => Upto(m) \subseteq Upto(n) /\ n \notin Upto(m) /\ n \in Upto(n)
  OBVIOUS
<1>. HIDE DEF Upto
<1>3. F # {} /\ \A U \in F : IsFiniteSet(U)
  BY <1>1
<1>4. \E U \in F : \A V \in F : V \subseteq U => V = U
  <2>. HIDE DEF F
  <2>. QED
    BY <1>3, FiniteMinimal
<1>5. PICK n \in T : \A m \in T : Upto(m) \subseteq Upto(n) => Upto(m) = Upto(n)
  BY <1>4
<1>6. \A m \in T : ~(m < n)
  BY <1>5, <1>2
<1>. QED
  BY <1>6

-----------------------------------------------------------------------------
(* The envelopes with an addressee                                         *)

\* The next value of the recursion Addressed is defined by.
Keep(q, k, kept) == IF q[k].target = None THEN kept ELSE Append(kept, q[k])

\* The recursion itself.
Keeps(q, f) == f = [k \in 0 .. Len(q) |->
    IF k = 0 THEN <<>>
    ELSE IF q[k].target = None THEN f[k - 1]
    ELSE Append(f[k - 1], q[k])]

\* It has a solution on every prefix.
LEMMA KeepsUpTo ==
    ASSUME NEW E, NEW q \in Seq(E), NEW n \in 0 .. Len(q)
    PROVE  \E f \in [0 .. n -> Seq(E)] : f[0] = <<>> /\ \A k \in 1 .. n : f[k] = Keep(q, k, f[k - 1])
<1> DEFINE Good(m) == \E f \in [0 .. m -> Seq(E)] :
                          f[0] = <<>> /\ \A k \in 1 .. m : f[k] = Keep(q, k, f[k - 1])
           Bad == {m \in 0 .. Len(q) : ~Good(m)}
<1>0. Len(q) \in Nat /\ DOMAIN q = 1 .. Len(q) /\ \A k \in 1 .. Len(q) : q[k] \in E
  OBVIOUS
<1>1. Good(0)
  <2>1. <<>> \in Seq(E)
    OBVIOUS
  <2>2. [k \in 0 .. 0 |-> <<>>] \in [0 .. 0 -> Seq(E)] /\ [k \in 0 .. 0 |-> <<>>][0] = <<>>
    BY <2>1
  <2>3. 1 .. 0 = {}
    OBVIOUS
  <2> QED
    BY <2>2, <2>3
<1>2. ASSUME NEW m \in Nat, m + 1 \in 0 .. Len(q), Good(m) PROVE Good(m + 1)
  <2>1. PICK f \in [0 .. m -> Seq(E)] : f[0] = <<>> /\ \A k \in 1 .. m : f[k] = Keep(q, k, f[k - 1])
    BY <1>2
  <2> DEFINE g == [k \in 0 .. m + 1 |-> IF k = m + 1 THEN Keep(q, m + 1, f[m]) ELSE f[k]]
  <2>2. q[m + 1] \in E /\ f[m] \in Seq(E) /\ m \in 0 .. m
    BY <1>0, <1>2
  <2>3. Keep(q, m + 1, f[m]) \in Seq(E)
    BY <2>2 DEF Keep
  <2>4. \A k \in 0 .. m + 1 : k = m + 1 \/ k \in 0 .. m
    BY <1>2
  <2>5. g \in [0 .. m + 1 -> Seq(E)]
    BY <2>3, <2>4
  <2>6. g[0] = <<>>
    BY <1>2, <2>1
  <2>7. ASSUME NEW k \in 1 .. m + 1 PROVE g[k] = Keep(q, k, g[k - 1])
    <3>1. CASE k = m + 1
      <4>1. g[k] = Keep(q, m + 1, f[m]) /\ g[k - 1] = f[m]
        BY <1>2, <3>1
      <4> HIDE DEF g
      <4> QED
        BY <3>1, <4>1
    <3>2. CASE k # m + 1
      <4>1. k \in 1 .. m /\ k - 1 \in 0 .. m /\ k - 1 # m + 1
        BY <1>2, <3>2
      <4>2. g[k] = f[k] /\ g[k - 1] = f[k - 1]
        BY <1>2, <3>2, <4>1
      <4> HIDE DEF g
      <4> QED
        BY <2>1, <4>1, <4>2
    <3> QED
      BY <3>1, <3>2
  <2> HIDE DEF g
  <2> QED
    BY <2>5, <2>6, <2>7
<1> HIDE DEF Good
<1>3. Bad = {}
  <2> SUFFICES ASSUME Bad # {} PROVE FALSE
    OBVIOUS
  <2>1. Bad \in SUBSET Nat
    BY <1>0
  <2>2. PICK m \in Bad : \A l \in Bad : m <= l
    BY <2>1, LeastNatural
  <2>3. m # 0 /\ m \in Nat /\ m \in 0 .. Len(q) /\ ~Good(m)
    BY <1>0, <1>1, <2>2
  <2>4. m - 1 \in Nat /\ m - 1 \in 0 .. Len(q) /\ ~(m <= m - 1) /\ (m - 1) + 1 = m
    BY <1>0, <2>3
  <2>5. Good(m - 1)
    BY <2>2, <2>4
  <2>6. Good((m - 1) + 1)
    BY <1>2, <2>3, <2>4, <2>5
  <2> QED
    BY <2>3, <2>4, <2>6
<1> QED
  BY <1>3 DEF Good

\* So Addressed is the last value of the recursion.
LEMMA AddressedKeeps ==
    ASSUME NEW E, NEW q \in Seq(E)
    PROVE  \E f \in [0 .. Len(q) -> Seq(E)] :
              /\ f[0] = <<>> /\ \A k \in 1 .. Len(q) : f[k] = Keep(q, k, f[k - 1])
              /\ Addressed(q) = f[Len(q)]
<1> DEFINE f == CHOOSE g : Keeps(q, g)
<1>0. Len(q) \in Nat /\ Len(q) \in 0 .. Len(q)
  OBVIOUS
<1>1. PICK g \in [0 .. Len(q) -> Seq(E)] :
         g[0] = <<>> /\ \A k \in 1 .. Len(q) : g[k] = Keep(q, k, g[k - 1])
  BY <1>0, KeepsUpTo
<1>2. Keeps(q, g)
  <2>1. \A k \in 0 .. Len(q) : k = 0 \/ k \in 1 .. Len(q)
    BY <1>0
  <2>2. ASSUME NEW k \in 0 .. Len(q)
        PROVE  g[k] = IF k = 0 THEN <<>>
                      ELSE IF q[k].target = None THEN g[k - 1] ELSE Append(g[k - 1], q[k])
    BY <1>1, <2>1 DEF Keep
  <2>3. g = [k \in 0 .. Len(q) |-> g[k]]
    BY <1>1
  <2> QED
    BY <2>2, <2>3, Zenon DEF Keeps
<1>3. Keeps(q, f)
  BY <1>2
<1>4. Addressed(q) = f[Len(q)]
  BY Zenon DEF Addressed, Keeps
<1> HIDE DEF f
<1>5. /\ f[0] = <<>> /\ \A k \in 1 .. Len(q) : f[k] = Keep(q, k, f[k - 1])
      /\ DOMAIN f = 0 .. Len(q) /\ f = [k \in 0 .. Len(q) |-> f[k]]
  <2>1. 0 \in 0 .. Len(q) /\ \A k \in 1 .. Len(q) : k \in 0 .. Len(q) /\ k # 0
    BY <1>0
  <2> QED
    BY <1>3, <2>1 DEF Keeps, Keep
<1>6. \A k \in 0 .. Len(q) : f[k] = g[k]
  <2> SUFFICES ASSUME {k \in 0 .. Len(q) : f[k] # g[k]} # {} PROVE FALSE
    OBVIOUS
  <2> DEFINE Bad == {k \in 0 .. Len(q) : f[k] # g[k]}
  <2>1. Bad \in SUBSET Nat /\ Bad # {}
    BY <1>0
  <2>2. PICK m \in Bad : \A l \in Bad : m <= l
    BY <2>1, LeastNatural
  <2>3. m # 0 /\ m \in Nat /\ m \in 0 .. Len(q) /\ f[m] # g[m]
    BY <1>0, <1>1, <1>5, <2>2
  <2>4. m \in 1 .. Len(q) /\ m - 1 \in 0 .. Len(q) /\ ~(m <= m - 1)
    BY <1>0, <2>3
  <2>5. f[m - 1] = g[m - 1]
    BY <2>2, <2>4
  <2> QED
    BY <1>1, <1>5, <2>3, <2>4, <2>5
<1>7. f \in [0 .. Len(q) -> Seq(E)]
  BY <1>1, <1>5, <1>6
<1> QED
  BY <1>4, <1>5, <1>7

\* Numbered in the order they were appended.
Rising(q) == \A j, k \in DOMAIN q : j < k => q[j].number < q[k].number

\* What is left is what has an addressee, in the same order.
LEMMA AddressedIs ==
    ASSUME NEW E, NEW q \in Seq(E)
    PROVE  /\ Addressed(q) \in Seq(E)
           /\ ToSet(Addressed(q)) = {m \in ToSet(q) : m.target # None}
           /\ Rising(q) => Rising(Addressed(q))
<1>0. Len(q) \in Nat /\ DOMAIN q = 1 .. Len(q) /\ \A k \in 1 .. Len(q) : q[k] \in E
  OBVIOUS
<1>1. PICK f \in [0 .. Len(q) -> Seq(E)] :
         /\ f[0] = <<>> /\ \A k \in 1 .. Len(q) : f[k] = Keep(q, k, f[k - 1])
         /\ Addressed(q) = f[Len(q)]
  BY AddressedKeeps
<1> DEFINE Kept(n) == {q[j] : j \in {l \in 1 .. n : q[l].target # None}}
           Good(n) == ToSet(f[n]) = Kept(n) /\ (Rising(q) => Rising(f[n]))
           Bad == {n \in 0 .. Len(q) : ~Good(n)}
<1>2. Good(0)
  <2>1. f[0] = <<>> /\ ToSet(<<>>) = {} /\ Kept(0) = {} /\ Rising(<<>>)
    BY <1>1 DEF ToSet, Rising
  <2> QED
    BY <2>1
<1>3. ASSUME NEW m \in Nat, m + 1 \in 0 .. Len(q), Good(m) PROVE Good(m + 1)
  <2>1. f[m] \in Seq(E) /\ m + 1 \in 1 .. Len(q) /\ f[m + 1] = Keep(q, m + 1, f[m]) /\ q[m + 1] \in E
    <3> DEFINE n == Len(q)
    <3>1. m \in 0 .. n /\ m + 1 \in 1 .. n /\ (m + 1) - 1 = m
      <4>1. n \in Nat /\ m \in Nat /\ m + 1 \in 0 .. n
        BY <1>0, <1>3
      <4> HIDE DEF n
      <4> QED
        BY <4>1
    <3> QED
      BY <1>0, <1>1, <3>1
  <2>2. \A l : l \in 1 .. m + 1 <=> l \in 1 .. m \/ l = m + 1
    BY <1>3
  <2>3. CASE q[m + 1].target = None
    <3>1. f[m + 1] = f[m]
      BY <2>1, <2>3 DEF Keep
    <3>2. Kept(m + 1) = Kept(m)
      BY <2>2, <2>3
    <3> HIDE DEF Kept
    <3> QED
      BY <1>3, <3>1, <3>2
  <2>4. CASE q[m + 1].target # None
    <3>1. f[m + 1] = Append(f[m], q[m + 1])
      BY <2>1, <2>4 DEF Keep
    <3>2. Kept(m + 1) = Kept(m) \cup {q[m + 1]}
      BY <2>2, <2>4
    <3> DEFINE r == f[m]
               e == q[m + 1]
    <3>3. /\ DOMAIN r = 1 .. Len(r) /\ Len(r) \in Nat
          /\ DOMAIN Append(r, e) = 1 .. Len(r) + 1
          /\ \A k \in 1 .. Len(r) : Append(r, e)[k] = r[k]
          /\ Append(r, e)[Len(r) + 1] = e
      <4>1. r \in Seq(E) /\ e \in E
        BY <2>1
      <4> HIDE DEF r, e
      <4> QED
        BY <4>1
    <3>4. ToSet(Append(r, e)) = ToSet(r) \cup {e}
      <4> HIDE DEF r, e
      <4>1. \A k : k \in 1 .. Len(r) + 1 <=> k \in 1 .. Len(r) \/ k = Len(r) + 1
        BY <3>3
      <4> QED
        BY <3>3, <4>1 DEF ToSet
    <3>5. ASSUME Rising(q) PROVE Rising(Append(r, e))
      <4> SUFFICES ASSUME NEW j \in 1 .. Len(r) + 1, NEW k \in 1 .. Len(r) + 1, j < k
                   PROVE  Append(r, e)[j].number < Append(r, e)[k].number
        BY <3>3 DEF Rising
      <4>1. j \in 1 .. Len(r) /\ (k \in 1 .. Len(r) \/ k = Len(r) + 1)
        <5>1. Len(r) \in Nat /\ j \in 1 .. Len(r) + 1 /\ k \in 1 .. Len(r) + 1 /\ j < k
          BY <3>3
        <5> HIDE DEF r, e
        <5> QED
          BY <5>1
      <4>2. CASE k \in 1 .. Len(r)
        <5>1. Rising(r)
          BY <1>3, <3>5
        <5> HIDE DEF r, e
        <5> QED
          BY <3>3, <4>1, <4>2, <5>1 DEF Rising
      <4>3. CASE k = Len(r) + 1
        <5>1. r[j] \in Kept(m)
          <6>1. ToSet(r) = Kept(m)
            BY <1>3
          <6> HIDE DEF r, Kept
          <6> QED
            BY <3>3, <4>1, <6>1 DEF ToSet
        <5>2. PICK l \in 1 .. m : r[j] = q[l]
          BY <5>1
        <5>3. l \in 1 .. Len(q) /\ l < m + 1
          BY <1>0, <1>3, <2>1
        <5>4. q[l].number < e.number
          BY <1>0, <2>1, <3>5, <5>3 DEF Rising
        <5> HIDE DEF r, e
        <5> QED
          BY <3>3, <4>1, <4>3, <5>2, <5>4
      <4> QED
        BY <4>1, <4>2, <4>3
    <3>6. ToSet(r) = Kept(m)
      BY <1>3
    <3> HIDE DEF r, e, Kept
    <3> QED
      BY <3>1, <3>2, <3>4, <3>5, <3>6 DEF r, e
  <2> QED
    BY <2>3, <2>4
<1>4. Good(Len(q))
  <2> HIDE DEF Good
  <2> SUFFICES ASSUME Bad # {} PROVE FALSE
    BY <1>0
  <2>1. Bad \in SUBSET Nat
    BY <1>0
  <2>2. PICK m \in Bad : \A l \in Bad : m <= l
    BY <2>1, LeastNatural
  <2>3. m # 0 /\ m \in Nat /\ m \in 0 .. Len(q) /\ ~Good(m)
    BY <1>0, <1>2, <2>2
  <2>4. m - 1 \in Nat /\ m - 1 \in 0 .. Len(q) /\ ~(m <= m - 1) /\ (m - 1) + 1 = m
    BY <1>0, <2>3
  <2>5. Good(m - 1)
    BY <2>2, <2>4
  <2>6. Good((m - 1) + 1)
    BY <1>3, <2>3, <2>4, <2>5
  <2> QED
    BY <2>3, <2>4, <2>6
<1>5. Kept(Len(q)) = {m \in ToSet(q) : m.target # None}
  BY <1>0 DEF ToSet
<1>6. Addressed(q) \in Seq(E)
  BY <1>0, <1>1
<1> HIDE DEF Kept
<1> QED
  BY <1>1, <1>4, <1>5, <1>6

-----------------------------------------------------------------------------
(* The invariant                                                           *)

Post == [number : Nat, from : {"link", "mission"}, target : Target \cup {None}]

Waiting == ToSet(linkOutbox) \cup ToSet(missionOutbox)

OutTypeOK ==
    /\ appended \in Nat /\ faults \in Nat
    /\ linkOutbox \in Seq(Post) /\ missionOutbox \in Seq(Post) /\ published \in Seq(Post)
    /\ \A env \in ToSet(linkOutbox) : env.from = "link"
    /\ \A env \in ToSet(missionOutbox) : env.from = "mission"

\* An outbox holds what was appended, in that order.
InSequence ==
    /\ Rising(linkOutbox) /\ Rising(missionOutbox)
    /\ \A env \in Waiting \cup ToSet(published) : env.number <= appended

\* Envelope a of the conversation b belongs to comes before b.
Precedes(a, b) == a.from = b.from /\ a.target = b.target /\ a.number < b.number

\* Envelope env is published before position k.
Before(k, env) == \E j \in 1 .. k - 1 : published[j] = env

InOrder == \A k \in DOMAIN published :
    /\ \A env \in Waiting \cup ToSet(published) : Precedes(env, published[k]) => Before(k, env)
    /\ Before(k, published[k]) => faults > 0

\* Only a fault leaves in an outbox what is published already.
SentOnce == faults = 0 => Waiting \cap ToSet(published) = {}

LoopInv == OutTypeOK /\ InSequence /\ InOrder /\ SentOnce

\* The property, in terms of positions.
LEMMA OrderUnfolds == LoopInv => PublishedInOrder
<1> SUFFICES ASSUME LoopInv, NEW k \in DOMAIN published
             PROVE  LET before == ToSet(SubSeq(published, 1, k - 1))
                    IN  /\ \A env \in Waiting \cup ToSet(published) :
                              env.from = published[k].from /\ env.target = published[k].target
                                 /\ env.number < published[k].number => env \in before
                        /\ published[k] \in before => faults > 0
  BY DEF PublishedInOrder, Waiting
<1>1. published \in Seq(Post) /\ k \in 1 .. Len(published) /\ Len(published) \in Nat
  BY DEF LoopInv, OutTypeOK
<1>2. ToSet(SubSeq(published, 1, k - 1)) = {published[j] : j \in 1 .. k - 1}
  <2> DEFINE r == SubSeq(published, 1, k - 1)
  <2>1. DOMAIN r = 1 .. k - 1 /\ \A j \in 1 .. k - 1 : r[j] = published[j]
    BY <1>1
  <2> HIDE DEF r
  <2>2. ToSet(r) = {published[j] : j \in 1 .. k - 1}
    BY <2>1 DEF ToSet
  <2> QED
    BY <2>2 DEF r
<1>3. \A env : env \in ToSet(SubSeq(published, 1, k - 1)) <=> Before(k, env)
  BY <1>2 DEF Before
<1> QED
  BY <1>3 DEF LoopInv, InOrder, Precedes

-----------------------------------------------------------------------------
(* Publishing                                                              *)

\* One sequence after the other.
LEMMA Joined ==
    ASSUME NEW E, NEW p \in Seq(E), NEW r \in Seq(E)
    PROVE  /\ p \o r \in Seq(E) /\ Len(p \o r) = Len(p) + Len(r)
           /\ DOMAIN (p \o r) = 1 .. Len(p) + Len(r)
           /\ Len(p) \in Nat /\ DOMAIN p = 1 .. Len(p)
           /\ \A k \in 1 .. Len(p) : (p \o r)[k] = p[k]
           /\ \A k \in Len(p) + 1 .. Len(p) + Len(r) : (p \o r)[k] = r[k - Len(p)]
OBVIOUS

\* What is published next continues every conversation where it stopped, and holds
\* everything that waits and has an addressee, once.
LEMMA DeliverableIs ==
    ASSUME OutTypeOK, InSequence
    PROVE  /\ Deliverable \in Seq(Post) /\ Len(linkOutbox) <= Len(Deliverable)
           /\ Len(linkOutbox) \in Nat /\ Len(Deliverable) \in Nat
           /\ DOMAIN Deliverable = 1 .. Len(Deliverable)
           /\ \A k \in 1 .. Len(linkOutbox) : Deliverable[k] = linkOutbox[k]
           /\ ToSet(Deliverable) \subseteq Waiting
           /\ \A env \in Waiting : env \in ToSet(linkOutbox) \/ env.target # None =>
                 env \in ToSet(Deliverable)
           /\ \A k \in 1 .. Len(Deliverable) : \A env \in Waiting :
                 Precedes(env, Deliverable[k]) => \E j \in 1 .. k - 1 : Deliverable[j] = env
           /\ \A j, k \in 1 .. Len(Deliverable) : j < k => Deliverable[j] # Deliverable[k]
<1> DEFINE l == linkOutbox
           a == Addressed(missionOutbox)
           d == Deliverable
           n == Len(l)
           o == Len(a)
<1>1. /\ l \in Seq(Post) /\ a \in Seq(Post) /\ d = l \o a
      /\ Rising(l) /\ Rising(a)
      /\ ToSet(a) = {m \in ToSet(missionOutbox) : m.target # None}
  BY AddressedIs DEF OutTypeOK, InSequence, Deliverable
<1>2. /\ n \in Nat /\ o \in Nat /\ DOMAIN l = 1 .. n /\ DOMAIN a = 1 .. o
      /\ d \in Seq(Post) /\ Len(d) = n + o /\ DOMAIN d = 1 .. n + o
      /\ \A k \in 1 .. n : d[k] = l[k] /\ l[k] \in Post
      /\ \A k \in n + 1 .. n + o : d[k] = a[k - n]
      /\ \A k \in 1 .. o : a[k] \in Post
  <2> HIDE DEF a, l, d
  <2> QED
    BY <1>1
<1>3. /\ \A k \in 1 .. n : l[k].from = "link" /\ l[k].number \in Nat
      /\ \A k \in 1 .. o : a[k].from = "mission" /\ a[k].target # None /\ a[k].number \in Nat
  <2>1. /\ \A m \in ToSet(l) : m.from = "link"
        /\ \A m \in ToSet(a) : m.from = "mission" /\ m.target # None
    BY <1>1 DEF OutTypeOK
  <2> HIDE DEF l, a, d, n, o
  <2>2. (\A k \in 1 .. n : l[k] \in ToSet(l)) /\ (\A k \in 1 .. o : a[k] \in ToSet(a))
    BY <1>2 DEF ToSet
  <2>3. \A m \in Post : m.number \in Nat
    BY DEF Post
  <2> QED
    BY <1>2, <2>1, <2>2, <2>3
<1>4. \A k \in 1 .. n + o : k \in 1 .. n \/ (k \in n + 1 .. n + o /\ k - n \in 1 .. o)
  BY <1>2
<1>5. \A k \in 1 .. o : k + n \in n + 1 .. n + o /\ k + n \in 1 .. n + o /\ (k + n) - n = k
  BY <1>2
<1>6. \A k \in 1 .. n : k \in 1 .. n + o
  BY <1>2
<1> HIDE DEF l, a, d, n, o
<1>7. ToSet(d) = ToSet(l) \cup ToSet(a)
  <2>1. ToSet(d) \subseteq ToSet(l) \cup ToSet(a)
    BY <1>2, <1>4 DEF ToSet
  <2>2. ToSet(l) \subseteq ToSet(d)
    BY <1>2, <1>6 DEF ToSet
  <2>3. ToSet(a) \subseteq ToSet(d)
    BY <1>2, <1>5 DEF ToSet
  <2> QED
    BY <2>1, <2>2, <2>3
<1>8. ASSUME NEW k \in 1 .. n + o, NEW env \in Waiting, Precedes(env, d[k])
      PROVE  \E j \in 1 .. k - 1 : d[j] = env
  <2>1. CASE k \in 1 .. n
    <3>1. d[k] = l[k] /\ l[k].from = "link" /\ env.from = "link" /\ env.number < l[k].number
      BY <1>2, <1>3, <1>8, <2>1 DEF Precedes
    <3>2. env \in ToSet(l)
      BY <3>1 DEF Waiting, OutTypeOK, l
    <3>3. PICK j \in 1 .. n : l[j] = env
      BY <1>2, <3>2 DEF ToSet
    <3>4. ~(k < j) /\ j # k
      <4>1. env.number \in Nat /\ l[k].number \in Nat
        BY <1>3, <2>1, <3>3
      <4>2. k < j => l[k].number < l[j].number
        BY <1>1, <1>2, <2>1 DEF Rising
      <4> QED
        BY <3>1, <3>3, <4>1, <4>2
    <3>5. j \in 1 .. k - 1
      BY <1>2, <2>1, <3>4
    <3> QED
      BY <1>2, <3>3, <3>5
  <2>2. CASE k \in n + 1 .. n + o /\ k - n \in 1 .. o
    <3>1. /\ d[k] = a[k - n] /\ env.from = "mission" /\ env.target # None
          /\ env.number < a[k - n].number
      BY <1>2, <1>3, <1>8, <2>2 DEF Precedes
    <3>2. env \in ToSet(a)
      BY <1>1, <3>1 DEF Waiting, OutTypeOK
    <3>3. PICK j \in 1 .. o : a[j] = env
      BY <1>2, <3>2 DEF ToSet
    <3>4. ~(k - n < j) /\ j # k - n
      <4>1. env.number \in Nat /\ a[k - n].number \in Nat
        BY <1>3, <2>2, <3>3
      <4>2. k - n < j => a[k - n].number < a[j].number
        BY <1>1, <1>2, <2>2 DEF Rising
      <4> QED
        BY <3>1, <3>3, <4>1, <4>2
    <3>5. j + n \in 1 .. k - 1
      BY <1>2, <2>2, <3>4
    <3>6. d[j + n] = a[j]
      BY <1>2, <1>5
    <3> QED
      BY <3>3, <3>5, <3>6
  <2> QED
    BY <1>4, <2>1, <2>2
<1>9. ASSUME NEW j \in 1 .. n + o, NEW k \in 1 .. n + o, j < k PROVE d[j] # d[k]
  <2>1. CASE j \in 1 .. n /\ k \in 1 .. n
    <3>1. l[j].number < l[k].number /\ l[j].number \in Nat /\ l[k].number \in Nat
      BY <1>1, <1>2, <1>3, <1>9, <2>1 DEF Rising
    <3> QED
      BY <1>2, <2>1, <3>1
  <2>2. CASE j \in 1 .. n /\ k \in n + 1 .. n + o /\ k - n \in 1 .. o
    <3>1. d[j].from = "link" /\ d[k].from = "mission"
      BY <1>2, <1>3, <2>2
    <3> QED
      BY <3>1
  <2>3. CASE j \in n + 1 .. n + o /\ j - n \in 1 .. o /\ k \in n + 1 .. n + o /\ k - n \in 1 .. o
    <3>1. j - n < k - n
      BY <1>2, <1>9, <2>3
    <3>2. a[j - n].number < a[k - n].number /\ a[j - n].number \in Nat /\ a[k - n].number \in Nat
      BY <1>1, <1>2, <1>3, <2>3, <3>1 DEF Rising
    <3> QED
      BY <1>2, <2>3, <3>2
  <2>4. ~(j \in n + 1 .. n + o /\ k \in 1 .. n)
    BY <1>2, <1>9
  <2> QED
    BY <1>4, <2>1, <2>2, <2>3, <2>4
<1>10. ToSet(d) \subseteq Waiting /\ \A env \in Waiting :
          env \in ToSet(l) \/ env.target # None => env \in ToSet(d)
  BY <1>1, <1>7 DEF Waiting, l
<1>11. n <= n + o
  BY <1>2
<1> QED
  BY <1>2, <1>8, <1>9, <1>10, <1>11 DEF l, n, d

\* A beginning of it is published, all of it unless there was a fault.
LEMMA PublishKeeps ==
    ASSUME LoopInv, NEW n \in 0 .. Len(Deliverable),
           published' = published \o SubSeq(Deliverable, 1, n),
           linkOutbox' \in {linkOutbox, <<>>}, missionOutbox' \in {missionOutbox, <<>>},
           appended' = appended, faults' \in Nat, faults <= faults',
           faults' = 0 => linkOutbox' = <<>> /\ missionOutbox' = <<>>
    PROVE  LoopInv'
<1> DEFINE p == published
           d == Deliverable
           r == SubSeq(d, 1, n)
           u == p \o r
<1>0. OutTypeOK /\ InSequence /\ InOrder /\ SentOnce
  BY DEF LoopInv
<1>1. /\ d \in Seq(Post) /\ Len(d) \in Nat /\ DOMAIN d = 1 .. Len(d)
      /\ ToSet(d) \subseteq Waiting
      /\ \A k \in 1 .. Len(d) : \A env \in Waiting :
            Precedes(env, d[k]) => \E j \in 1 .. k - 1 : d[j] = env
      /\ \A j, k \in 1 .. Len(d) : j < k => d[j] # d[k]
  BY <1>0, DeliverableIs
<1>2. /\ n \in Nat /\ n <= Len(d)
      /\ r \in Seq(Post) /\ Len(r) = n /\ \A k \in 1 .. n : r[k] = d[k]
      /\ \A k \in 1 .. n : k \in 1 .. Len(d)
  <2> HIDE DEF d
  <2> QED
    BY <1>1 DEF d
<1>3. /\ p \in Seq(Post) /\ Len(p) \in Nat /\ DOMAIN p = 1 .. Len(p)
      /\ u \in Seq(Post) /\ Len(u) = Len(p) + n /\ DOMAIN u = 1 .. Len(p) + n
      /\ \A k \in 1 .. Len(p) : u[k] = p[k]
      /\ \A k \in Len(p) + 1 .. Len(p) + n : u[k] = r[k - Len(p)]
  <2>1. p \in Seq(Post) /\ r \in Seq(Post) /\ Len(r) = n /\ n \in Nat
    BY <1>0, <1>2 DEF OutTypeOK
  <2> HIDE DEF p, r
  <2>2. /\ u \in Seq(Post) /\ Len(u) = Len(p) + Len(r) /\ DOMAIN u = 1 .. Len(p) + Len(r)
        /\ Len(p) \in Nat /\ DOMAIN p = 1 .. Len(p)
        /\ \A k \in 1 .. Len(p) : u[k] = p[k]
        /\ \A k \in Len(p) + 1 .. Len(p) + Len(r) : u[k] = r[k - Len(p)]
    BY <2>1, Joined
  <2> QED
    BY <2>1, <2>2
<1>4. published' = u
  OBVIOUS
<1> DEFINE c == Len(p)
<1> HIDE DEF p, d, r, u, c
<1>5. c \in Nat /\ n \in Nat /\ DOMAIN p = 1 .. c /\ DOMAIN u = 1 .. c + n
      /\ (\A k \in 1 .. c : u[k] = p[k]) /\ (\A k \in 1 .. n : r[k] = d[k])
      /\ \A k \in c + 1 .. c + n : u[k] = r[k - c]
  BY <1>2, <1>3 DEF c
<1>6. \A k \in 1 .. c + n : k \in 1 .. c \/ (k \in c + 1 .. c + n /\ k - c \in 1 .. n)
  BY <1>5
<1>7. \A k \in 1 .. n : k + c \in 1 .. c + n /\ u[k + c] = d[k]
  <2>1. \A k \in 1 .. n : k + c \in 1 .. c + n /\ k + c \in c + 1 .. c + n /\ (k + c) - c = k
    BY <1>5
  <2> QED
    BY <1>5, <2>1
<1>8. \A k \in c + 1 .. c + n : k - c \in 1 .. n /\ k - c \in 1 .. Len(d) /\ u[k] = d[k - c]
  <2>1. \A k \in c + 1 .. c + n : k - c \in 1 .. n
    BY <1>5
  <2> QED
    BY <1>2, <1>5, <2>1
<1>9. ToSet(u) \subseteq ToSet(p) \cup Waiting
  <2>1. \A k \in 1 .. n : d[k] \in Waiting
    BY <1>1, <1>2 DEF ToSet
  <2>2. \A k \in 1 .. c : p[k] \in ToSet(p)
    BY <1>5 DEF ToSet
  <2>3. \A k \in 1 .. c + n : u[k] \in ToSet(p) \cup Waiting
    BY <1>5, <1>6, <1>8, <2>1, <2>2
  <2> QED
    BY <1>5, <2>3 DEF ToSet
<1>10. /\ ToSet(linkOutbox') \subseteq ToSet(linkOutbox)
       /\ ToSet(missionOutbox') \subseteq ToSet(missionOutbox)
  BY DEF ToSet
<1>11. Waiting' \cup ToSet(published') \subseteq Waiting \cup ToSet(p)
  BY <1>4, <1>9, <1>10 DEF Waiting
<1>12. OutTypeOK'
  <2>1. <<>> \in Seq(Post)
    OBVIOUS
  <2> QED
    BY <1>0, <1>3, <1>4, <1>10, <2>1 DEF OutTypeOK
<1>13. InSequence'
  <2>1. Rising(<<>>)
    BY DEF Rising
  <2> QED
    BY <1>0, <1>11, <2>1 DEF InSequence, p
<1>14. InOrder'
  <2> DEFINE Ahead(k, env) == \E j \in 1 .. k - 1 : u[j] = env
  <2>0. \A k, env : Before(k, env)' <=> Ahead(k, env)
    BY <1>4 DEF Before
  <2> HIDE DEF Ahead
  <2>1. SUFFICES ASSUME NEW k \in 1 .. c + n
        PROVE  /\ \A env \in Waiting \cup ToSet(p) : Precedes(env, u[k]) => Ahead(k, env)
               /\ Ahead(k, u[k]) => faults' > 0
    BY <1>4, <1>5, <1>11, <2>0 DEF InOrder, Precedes
  <2> USE DEF Ahead
  <2>2. CASE k \in 1 .. c
    <3>1. \A env : Before(k, env) <=> Ahead(k, env)
      <4>1. \A j \in 1 .. k - 1 : j \in 1 .. c
        BY <1>5, <2>2
      <4>2. \A j \in 1 .. k - 1 : u[j] = p[j]
        BY <1>5, <4>1
      <4> QED
        BY <4>2 DEF Before, p
    <3>2. /\ \A env \in Waiting \cup ToSet(p) : Precedes(env, p[k]) => Before(k, env)
          /\ Before(k, p[k]) => faults > 0
      BY <1>0, <1>5, <2>2 DEF InOrder, p
    <3>3. u[k] = p[k]
      BY <1>5, <2>2
    <3>4. faults > 0 => faults' > 0
      BY <1>0 DEF OutTypeOK
    <3> HIDE DEF Ahead
    <3> QED
      BY <3>1, <3>2, <3>3, <3>4
  <2>3. CASE k \in c + 1 .. c + n /\ k - c \in 1 .. n
    <3>1. u[k] = d[k - c] /\ k - c \in 1 .. Len(d)
      BY <1>8, <2>3
    <3>2. ASSUME NEW j \in 1 .. (k - c) - 1 PROVE j + c \in 1 .. k - 1 /\ u[j + c] = d[j]
      <4>1. j \in 1 .. n /\ j + c \in 1 .. k - 1
        BY <1>5, <2>3
      <4> QED
        BY <1>7, <4>1
    <3>3. ASSUME NEW env \in ToSet(p) PROVE Ahead(k, env)
      <4>1. PICK j \in 1 .. c : p[j] = env
        BY <1>5, <3>3 DEF ToSet
      <4>2. j \in 1 .. k - 1
        BY <1>5, <2>3, <4>1
      <4> QED
        BY <1>5, <4>1, <4>2
    <3>4. ASSUME NEW env \in Waiting, Precedes(env, u[k]) PROVE Ahead(k, env)
      <4>1. PICK j \in 1 .. (k - c) - 1 : d[j] = env
        BY <1>1, <3>1, <3>4
      <4> QED
        BY <3>2, <4>1
    <3>5. ASSUME Ahead(k, u[k]) PROVE faults' > 0
      <4>1. PICK j \in 1 .. k - 1 : u[j] = d[k - c]
        BY <3>1, <3>5
      <4>2. CASE j \in 1 .. c
        <5>1. d[k - c] \in ToSet(p) /\ d[k - c] \in Waiting
          <6>1. u[j] = p[j] /\ p[j] \in ToSet(p)
            BY <1>5, <4>2 DEF ToSet
          <6>2. d[k - c] \in ToSet(d)
            BY <1>1, <3>1 DEF ToSet
          <6> QED
            BY <1>1, <4>1, <6>1, <6>2
        <5>2. faults # 0
          BY <1>0, <5>1 DEF SentOnce, p
        <5> QED
          BY <1>0, <5>2 DEF OutTypeOK
      <4>3. CASE j \in c + 1 .. c + n
        <5>1. u[j] = d[j - c] /\ j - c \in 1 .. Len(d)
          BY <1>8, <4>3
        <5>2. j - c < k - c
          BY <1>5, <2>3, <4>1
        <5> QED
          BY <1>1, <3>1, <4>1, <5>1, <5>2
      <4>4. j \in 1 .. c \/ j \in c + 1 .. c + n
        BY <1>5, <2>3, <4>1
      <4> QED
        BY <4>2, <4>3, <4>4
    <3> HIDE DEF Ahead
    <3> QED
      BY <3>3, <3>4, <3>5
  <2> HIDE DEF Ahead
  <2> QED
    BY <1>6, <2>2, <2>3
<1>15. SentOnce'
  <2>1. ToSet(<<>>) = {}
    BY DEF ToSet
  <2> QED
    BY <2>1 DEF SentOnce, Waiting
<1> QED
  BY <1>12, <1>13, <1>14, <1>15 DEF LoopInv

-----------------------------------------------------------------------------
(* The steps                                                               *)

\* What NothingIsLost says of a step.
NoneLost == \A env \in ToSet(linkOutbox) \cup ToSet(missionOutbox) :
    \/ env \in ToSet(linkOutbox') \cup ToSet(missionOutbox')
    \/ env \in ToSet(published')
    \/ env.from = "mission" /\ env.target = None

MayFail == faults' = faults \/ faults' = faults + 1

\* An outbox takes one more.
LEMMA OneMore ==
    ASSUME NEW q \in Seq(Post), NEW e \in Post, Rising(q), \A m \in ToSet(q) : m.number < e.number
    PROVE  /\ Append(q, e) \in Seq(Post) /\ ToSet(Append(q, e)) = ToSet(q) \cup {e}
           /\ Rising(Append(q, e))
<1>1. /\ DOMAIN q = 1 .. Len(q) /\ Len(q) \in Nat
      /\ Append(q, e) \in Seq(Post) /\ DOMAIN Append(q, e) = 1 .. Len(q) + 1
      /\ \A k \in 1 .. Len(q) : Append(q, e)[k] = q[k]
      /\ Append(q, e)[Len(q) + 1] = e
  OBVIOUS
<1>2. \A k : k \in 1 .. Len(q) + 1 <=> k \in 1 .. Len(q) \/ k = Len(q) + 1
  BY <1>1
<1>3. ToSet(Append(q, e)) = ToSet(q) \cup {e}
  BY <1>1, <1>2 DEF ToSet
<1>4. ASSUME NEW j \in 1 .. Len(q) + 1, NEW k \in 1 .. Len(q) + 1, j < k
      PROVE  Append(q, e)[j].number < Append(q, e)[k].number
  <2>1. j \in 1 .. Len(q)
    BY <1>1, <1>4
  <2>2. CASE k \in 1 .. Len(q)
    BY <1>1, <1>4, <2>1, <2>2 DEF Rising
  <2>3. CASE k = Len(q) + 1
    BY <1>1, <2>1, <2>3 DEF ToSet
  <2> QED
    BY <1>2, <2>2, <2>3
<1>5. Rising(Append(q, e))
  BY <1>1, <1>4 DEF Rising
<1> QED
  BY <1>1, <1>3, <1>5

\* Nothing happens to the envelopes.
LEMMA QuietKeeps ==
    ASSUME LoopInv, UNCHANGED outVars, MayFail
    PROVE  LoopInv' /\ NoneLost
<1>1. OutTypeOK /\ InSequence /\ InOrder /\ SentOnce
  BY DEF LoopInv
<1>2. faults' \in Nat /\ faults <= faults' /\ faults \in Nat
  BY <1>1 DEF MayFail, OutTypeOK
<1>3. UNCHANGED <<linkOutbox, missionOutbox, published, appended>>
  BY DEF outVars
<1>4. OutTypeOK' /\ InSequence'
  BY <1>1, <1>2, <1>3 DEF OutTypeOK, InSequence, Waiting
<1>5. InOrder'
  <2>1. \A k, env : Before(k, env)' <=> Before(k, env)
    BY <1>3 DEF Before
  <2>2. faults > 0 => faults' > 0
    BY <1>2
  <2> QED
    BY <1>1, <1>3, <2>1, <2>2 DEF InOrder, Waiting
<1>6. SentOnce'
  <2>1. faults' = 0 => faults = 0
    BY <1>2
  <2> QED
    BY <1>1, <1>3, <2>1 DEF SentOnce, Waiting
<1> QED
  BY <1>3, <1>4, <1>5, <1>6 DEF LoopInv, NoneLost

\* An envelope is appended: its number is above all others.
LEMMA AppendKeeps ==
    ASSUME LoopInv, AppendLink \/ AppendMission, MayFail
    PROVE  LoopInv' /\ NoneLost
<1>1. OutTypeOK /\ InSequence /\ InOrder /\ SentOnce
  BY DEF LoopInv
<1>2. faults' \in Nat /\ faults <= faults' /\ faults \in Nat
  BY <1>1 DEF MayFail, OutTypeOK
<1>3. PICK e \in Post :
         /\ e.number = appended + 1 /\ appended' = appended + 1 /\ published' = published
         /\ \/ /\ e.from = "link" /\ missionOutbox' = missionOutbox
                /\ linkOutbox' = Append(linkOutbox, e)
            \/ /\ e.from = "mission" /\ linkOutbox' = linkOutbox
               /\ missionOutbox' = Append(missionOutbox, e)
  <2>1. appended + 1 \in Nat
    BY <1>1 DEF OutTypeOK
  <2>2. CASE AppendLink
    <3>1. PICK t \in Target \cup {None} :
             /\ appended' = appended + 1 /\ published' = published /\ missionOutbox' = missionOutbox
             /\ linkOutbox' = Append(linkOutbox, Numbered("link", t))
      BY <2>2 DEF AppendLink
    <3>2. /\ Numbered("link", t) \in Post /\ Numbered("link", t).number = appended + 1
          /\ Numbered("link", t).from = "link"
      BY <2>1 DEF Numbered, Post
    <3> QED
      BY <3>1, <3>2
  <2>3. CASE AppendMission
    <3>1. PICK t \in Target \cup {None} :
             /\ appended' = appended + 1 /\ published' = published /\ linkOutbox' = linkOutbox
             /\ missionOutbox' = Append(missionOutbox, Numbered("mission", t))
      BY <2>3 DEF AppendMission
    <3>2. /\ Numbered("mission", t) \in Post /\ Numbered("mission", t).number = appended + 1
          /\ Numbered("mission", t).from = "mission"
      BY <2>1 DEF Numbered, Post
    <3> QED
      BY <3>1, <3>2
  <2> QED
    BY <2>2, <2>3
<1>4. \A m \in Waiting \cup ToSet(published) :
         m \in Post /\ m.number \in Nat /\ m.number < e.number /\ m.number <= appended'
  <2>1. \A m \in Waiting \cup ToSet(published) : m \in Post
    BY <1>1 DEF Waiting, OutTypeOK, ToSet
  <2>2. ASSUME NEW m \in Waiting \cup ToSet(published)
        PROVE  m.number \in Nat /\ m.number <= appended /\ appended \in Nat
    BY <1>1, <2>1 DEF InSequence, Post, OutTypeOK
  <2>3. ASSUME NEW m \in Waiting \cup ToSet(published)
        PROVE  m.number < e.number /\ m.number <= appended'
    BY <1>3, <2>2
  <2> QED
    BY <2>1, <2>2, <2>3
<1>5. /\ OutTypeOK' /\ Rising(linkOutbox)' /\ Rising(missionOutbox)'
      /\ Waiting' = Waiting \cup {e}
      /\ ToSet(linkOutbox) \subseteq ToSet(linkOutbox') /\ ToSet(missionOutbox) \subseteq ToSet(missionOutbox')
  <2>1. appended' \in Nat
    BY <1>1, <1>3 DEF OutTypeOK
  <2>2. CASE /\ e.from = "link" /\ missionOutbox' = missionOutbox
             /\ linkOutbox' = Append(linkOutbox, e)
    <3>1. /\ linkOutbox' \in Seq(Post) /\ ToSet(linkOutbox') = ToSet(linkOutbox) \cup {e}
          /\ Rising(linkOutbox')
      BY <1>1, <1>4, <2>2, OneMore DEF OutTypeOK, InSequence, Waiting
    <3> QED
      BY <1>1, <1>2, <1>3, <2>1, <2>2, <3>1 DEF OutTypeOK, InSequence, Waiting
  <2>3. CASE /\ e.from = "mission" /\ linkOutbox' = linkOutbox
             /\ missionOutbox' = Append(missionOutbox, e)
    <3>1. /\ missionOutbox' \in Seq(Post) /\ ToSet(missionOutbox') = ToSet(missionOutbox) \cup {e}
          /\ Rising(missionOutbox')
      BY <1>1, <1>4, <2>3, OneMore DEF OutTypeOK, InSequence, Waiting
    <3> QED
      BY <1>1, <1>2, <1>3, <2>1, <2>3, <3>1 DEF OutTypeOK, InSequence, Waiting
  <2> QED
    BY <1>3, <2>2, <2>3
<1>6. e \notin ToSet(published) /\ e.number \in Nat /\ e.number <= appended'
  BY <1>1, <1>3, <1>4 DEF OutTypeOK, Post
<1>7. InSequence'
  BY <1>3, <1>4, <1>5, <1>6 DEF InSequence
<1>8. InOrder'
  <2>1. \A k, env : Before(k, env)' <=> Before(k, env)
    BY <1>3 DEF Before
  <2>2. faults > 0 => faults' > 0
    BY <1>2
  <2>3. ASSUME NEW k \in DOMAIN published PROVE ~Precedes(e, published[k])
    <3>1. published[k] \in ToSet(published)
      BY DEF ToSet
    <3>2. published[k].number < e.number /\ published[k].number \in Nat
      BY <1>4, <3>1
    <3> QED
      BY <1>6, <3>2 DEF Precedes
  <2> QED
    BY <1>1, <1>3, <1>5, <2>1, <2>2, <2>3 DEF InOrder
<1>9. SentOnce'
  <2>1. faults' = 0 => faults = 0
    BY <1>2
  <2> QED
    BY <1>1, <1>3, <1>5, <1>6, <2>1 DEF SentOnce
<1> QED
  BY <1>5, <1>7, <1>8, <1>9 DEF LoopInv, NoneLost

\* _flush, whatever the transport does.
LEMMA FlushKeeps ==
    ASSUME LoopInv, NEW then, NEW failed, Flush(then, failed), appended' = appended
    PROVE  LoopInv' /\ NoneLost
<1>1. OutTypeOK /\ InSequence
  BY DEF LoopInv
<1>2. /\ Deliverable \in Seq(Post) /\ Len(linkOutbox) <= Len(Deliverable)
      /\ Len(linkOutbox) \in Nat /\ Len(Deliverable) \in Nat
      /\ DOMAIN Deliverable = 1 .. Len(Deliverable)
      /\ \A k \in 1 .. Len(linkOutbox) : Deliverable[k] = linkOutbox[k]
      /\ \A env \in Waiting : env \in ToSet(linkOutbox) \/ env.target # None =>
            env \in ToSet(Deliverable)
  BY <1>1, DeliverableIs
<1>3. ASSUME NEW n \in 0 .. Len(Deliverable), published' = published \o SubSeq(Deliverable, 1, n),
             NEW k \in 1 .. n
      PROVE  Deliverable[k] \in ToSet(published')
  <2> DEFINE d == Deliverable
             r == SubSeq(d, 1, n)
  <2>1. d \in Seq(Post) /\ Len(d) \in Nat /\ published \in Seq(Post) /\ n \in 0 .. Len(d)
    BY <1>1, <1>2 DEF OutTypeOK
  <2>2. published' = published \o r
    BY <1>3
  <2> HIDE DEF d
  <2>3. r \in Seq(Post) /\ Len(r) = n /\ n \in Nat /\ r[k] = d[k]
    BY <2>1
  <2> HIDE DEF r
  <2>4. /\ DOMAIN published' = 1 .. Len(published) + n /\ Len(published) \in Nat
        /\ \A j \in Len(published) + 1 .. Len(published) + n : published'[j] = r[j - Len(published)]
    BY <2>1, <2>2, <2>3, Joined
  <2>5. /\ k + Len(published) \in 1 .. Len(published) + n
        /\ k + Len(published) \in Len(published) + 1 .. Len(published) + n
        /\ (k + Len(published)) - Len(published) = k
    BY <2>3, <2>4
  <2>6. published'[k + Len(published)] = d[k]
    BY <2>3, <2>4, <2>5
  <2> QED
    BY <2>4, <2>5, <2>6 DEF ToSet, d
<1>4. ASSUME connected, published' = published \o Deliverable,
             linkOutbox' = <<>>, missionOutbox' = <<>>, faults' = faults
      PROVE  LoopInv' /\ NoneLost
  <2> DEFINE n == Len(Deliverable)
  <2>1. SubSeq(Deliverable, 1, n) = Deliverable /\ n \in 0 .. n
    BY <1>2
  <2>2. published' = published \o SubSeq(Deliverable, 1, n)
    BY <1>4, <2>1
  <2>3. faults' \in Nat /\ faults <= faults'
    BY <1>1, <1>4 DEF OutTypeOK
  <2>4. LoopInv'
    BY <1>4, <2>1, <2>2, <2>3, PublishKeeps
  <2>5. ToSet(Deliverable) \subseteq ToSet(published')
    <3>1. \A k \in 1 .. n : Deliverable[k] \in ToSet(published')
      BY <1>3, <2>1, <2>2
    <3> QED
      BY <1>2, <3>1 DEF ToSet
  <2>6. NoneLost
    BY <1>1, <1>2, <2>5 DEF NoneLost, Waiting, OutTypeOK
  <2> QED
    BY <2>4, <2>6
<1>5. ASSUME connected, Raises, missionOutbox' = missionOutbox,
             NEW n \in 0 .. Len(Deliverable) - 1,
             published' = published \o SubSeq(Deliverable, 1, n),
             linkOutbox' = IF n < Len(linkOutbox) THEN linkOutbox ELSE <<>>
      PROVE  LoopInv' /\ NoneLost
  <2>1. n \in 0 .. Len(Deliverable) /\ n \in Nat
    BY <1>2
  <2>2. faults' \in Nat /\ faults <= faults' /\ faults' # 0
    BY <1>1, <1>5 DEF Raises, OutTypeOK
  <2>3. LoopInv'
    BY <1>5, <2>1, <2>2, PublishKeeps
  <2>4. ASSUME ~(n < Len(linkOutbox)) PROVE ToSet(linkOutbox) \subseteq ToSet(published')
    <3>1. \A k \in 1 .. n : Deliverable[k] \in ToSet(published')
      BY <1>3, <1>5, <2>1
    <3>2. \A k \in 1 .. Len(linkOutbox) : k \in 1 .. n /\ Deliverable[k] = linkOutbox[k]
      BY <1>2, <2>1, <2>4
    <3>3. DOMAIN linkOutbox = 1 .. Len(linkOutbox)
      BY <1>1 DEF OutTypeOK
    <3>4. \A k \in 1 .. Len(linkOutbox) : linkOutbox[k] \in ToSet(published')
      BY <3>1, <3>2
    <3>5. ToSet(linkOutbox) = {linkOutbox[k] : k \in 1 .. Len(linkOutbox)}
      BY <3>3 DEF ToSet
    <3> QED
      BY <3>4, <3>5
  <2>5. NoneLost
    BY <1>5, <2>4 DEF NoneLost
  <2> QED
    BY <2>3, <2>5
<1>6. CASE ~connected
  <2>1. UNCHANGED outVars /\ MayFail
    BY <1>6 DEF Flush, outVars, MayFail
  <2> QED
    BY <2>1, QuietKeeps
<1>7. CASE connected
  BY <1>4, <1>5, <1>7 DEF Flush
<1> QED
  BY <1>6, <1>7

\* Every step of the loop and around it is one of these.
LEMMA StepKeeps ==
    ASSUME LoopInv, [Next]_vars
    PROVE  LoopInv' /\ NoneLost
<1>1. \/ UNCHANGED outVars /\ MayFail
      \/ (AppendLink \/ AppendMission) /\ MayFail
      \/ \E then, failed : Flush(then, failed) /\ appended' = appended
  <2>1. ASSUME NEW work, Appends(work), UNCHANGED faults \/ Raises
        PROVE  \/ UNCHANGED outVars /\ MayFail
               \/ (AppendLink \/ AppendMission) /\ MayFail
    BY <2>1 DEF Appends, Raises, MayFail
  <2>2. CASE Drain
    BY <2>1, <2>2 DEF Drain, MayFail
  <2>3. CASE RunCommand
    <3>1. Appends("command") /\ (UNCHANGED faults \/ Raises)
      BY <2>3 DEF RunCommand
    <3> QED
      BY <2>1, <3>1
  <2>4. CASE DoWork
    <3>1. \/ Appends(phase) /\ (UNCHANGED faults \/ Raises)
          \/ UNCHANGED <<outVars, faults>>
      BY <2>4 DEF DoWork
    <3> QED
      BY <2>1, <3>1 DEF MayFail
  <2>5. CASE StartStep \/ DrainedEnough \/ CommandsDone
    BY <2>5 DEF StartStep, DrainedEnough, CommandsDone, MayFail
  <2>6. CASE DrainFlush
    BY <2>6 DEF DrainFlush
  <2>7. CASE Drained
    BY <2>7 DEF Drained
  <2>8. CASE CommandFlush
    BY <2>8 DEF CommandFlush
  <2>9. CASE EndStep
    BY <2>9 DEF EndStep
  <2>10. CASE (\E m \in Message : Ingest(m)) \/ (\E c \in Command : SubmitCommand(c)) \/ SetupTransport
    BY <2>10 DEF Ingest, SubmitCommand, SetupTransport, MayFail
  <2>11. CASE UNCHANGED vars
    BY <2>11 DEF vars, MayFail
  <2> QED
    BY <2>2, <2>3, <2>4, <2>5, <2>6, <2>7, <2>8, <2>9, <2>10, <2>11 DEF Next, Step
<1> QED
  BY <1>1, QuietKeeps, AppendKeeps, FlushKeeps

\* Nothing is appended yet.
LEMMA InitLoop == Init => LoopInv
<1> SUFFICES ASSUME Init PROVE LoopInv
  OBVIOUS
<1>1. /\ linkOutbox = <<>> /\ missionOutbox = <<>> /\ published = <<>>
      /\ appended = 0 /\ faults = 0
  BY DEF Init
<1>2. ToSet(<<>>) = {} /\ DOMAIN <<>> = {} /\ <<>> \in Seq(Post)
  BY DEF ToSet
<1> QED
  BY <1>1, <1>2 DEF LoopInv, OutTypeOK, InSequence, InOrder, SentOnce, Rising, Waiting

-----------------------------------------------------------------------------
(* The theorems                                                            *)

\* An addressee hears of the envelopes of a manager in the order they were appended,
\* and twice only after a fault, however arrivals, commands, phases and failures of
\* handlers and of the transport interleave.
THEOREM PublishedInOrderHolds == Spec => []PublishedInOrder
<1>1. LoopInv /\ [Next]_vars => LoopInv'
  BY StepKeeps
<1> QED
  BY <1>1, InitLoop, OrderUnfolds, PTL DEF Spec

\* No envelope leaves an outbox but to the transport, unless it has nobody to go to.
THEOREM NothingIsLostHolds == Spec => NothingIsLost
<1>1. LoopInv /\ [Next]_vars => LoopInv' /\ [NoneLost]_vars
  BY StepKeeps
<1>2. Spec => [][NoneLost]_vars
  BY <1>1, InitLoop, PTL DEF Spec
<1>3. NothingIsLost <=> [][NoneLost]_vars
  BY DEF NothingIsLost, NoneLost
<1> QED
  BY <1>2, <1>3
=============================================================================
