--------------------------- MODULE DeliveryProofs ---------------------------
(***************************************************************************)
(* Proofs about WebhookDelivery for every set of subscriptions and emits,  *)
(* however many run at once and however answers, timeouts and changes of   *)
(* the subscriptions interleave.  A list here has no induction principle   *)
(* to cite, so what filtering one keeps is shown by a least                *)
(* counterexample.                                                         *)
(***************************************************************************)
EXTENDS WebhookDelivery, FiniteSetTheorems, SequenceTheorems, WellFoundedInduction, TLAPS

-----------------------------------------------------------------------------
(* What filtering a list keeps: the elements of the set, none added, none   *)
(* twice if none was.                                                       *)

LEMMA HasLeast ==
  ASSUME NEW S \in SUBSET Nat, S # {}
  PROVE  \E m \in S : \A n \in S : m <= n
<1> DEFINE R == {p \in Nat \X Nat : p[1] < p[2]}
<1>1. IsWellFoundedOn(R, Nat)
  BY NatLessThanWellFounded DEF OpToRel
<1>2. S \subseteq Nat /\ S # {}
  OBVIOUS
<1>3. \E m \in S : \A n \in S : ~(<<n, m>> \in R)
  <2> HIDE DEF R
  <2>1. QED
    BY <1>1, <1>2, WFMin, Zenon
<1>4. \E m \in S : \A n \in S : ~(n < m)
  BY <1>3
<1>5. QED
  BY <1>4

KeepStep(s, T, k, i) ==
  IF i = 0 THEN <<>> ELSE IF s[i] \in T THEN Append(k[i - 1], s[i]) ELSE k[i - 1]

KeepsTo(s, T, n, k) == k = [i \in 0 .. n |-> KeepStep(s, T, k, i)]

LEMMA KeepIsLast == \A s, T : Keep(s, T) = (CHOOSE k : KeepsTo(s, T, Len(s), k))[Len(s)]
BY DEF Keep, KeepsTo, KeepStep

LEMMA KeepsToExists ==
  ASSUME NEW s, NEW T
  PROVE  \A n \in Nat : \E k : KeepsTo(s, T, n, k)
<1> DEFINE Bad == {n \in Nat : ~ \E k : KeepsTo(s, T, n, k)}
<1>1. SUFFICES ASSUME Bad # {} PROVE FALSE
  OBVIOUS
<1>2. PICK m \in Bad : \A n \in Bad : m <= n
  <2>1. Bad \in SUBSET Nat
    OBVIOUS
  <2> HIDE DEF Bad
  <2>2. QED
    BY <1>1, <2>1, HasLeast
<1>3. CASE m = 0
  <2> DEFINE k == [i \in 0 .. 0 |-> <<>>]
  <2>1. k = [i \in 0 .. 0 |-> KeepStep(s, T, k, i)]
    BY DEF KeepStep
  <2>2. QED
    BY <1>2, <1>3, <2>1 DEF KeepsTo
<1>4. CASE m # 0
  <2>1. m - 1 \in Nat /\ m - 1 \notin Bad /\ m \in Nat
    BY <1>2, <1>4
  <2>2. PICK k : KeepsTo(s, T, m - 1, k)
    BY <2>1
  <2> DEFINE h == [i \in 0 .. m |-> KeepStep(s, T, k, i)]
  <2>3. \A i \in 0 .. m - 1 : i \in 0 .. m /\ h[i] = k[i]
    BY <2>1, <2>2 DEF KeepsTo
  <2>4. \A i \in 0 .. m : KeepStep(s, T, k, i) = KeepStep(s, T, h, i)
    <3> HIDE DEF h
    <3>1. \A i \in 0 .. m : i # 0 => i - 1 \in 0 .. m - 1
      BY <2>1
    <3>2. QED
      BY <2>3, <3>1 DEF KeepStep
  <2>5. KeepsTo(s, T, m, h)
    BY <2>4 DEF KeepsTo
  <2>6. QED
    BY <1>2, <2>5
<1>5. QED
  BY <1>3, <1>4

Distinct(s) == \A i, j \in 1 .. Len(s) : s[i] = s[j] => i = j

(* What k holds of the first i elements of s                                *)
Kept(s, T, i, k) ==
  /\ \A x \in 1 .. Len(k) : \E y \in 1 .. i : k[x] = s[y] /\ s[y] \in T
  /\ \A y \in 1 .. i : s[y] \in T => \E x \in 1 .. Len(k) : k[x] = s[y]
  /\ Distinct(s) => Distinct(k)

LEMMA KeptOneMore ==
  ASSUME NEW S, NEW s \in Seq(S), NEW T, NEW i \in 1 .. Len(s), NEW k \in Seq(S),
         Kept(s, T, i - 1, k)
  PROVE  /\ s[i] \in T => Append(k, s[i]) \in Seq(S) /\ Kept(s, T, i, Append(k, s[i]))
         /\ s[i] \notin T => Kept(s, T, i, k)
<1>1. i \in Nat /\ i - 1 \in Nat /\ Len(s) \in Nat /\ Len(k) \in Nat /\ s[i] \in S
  OBVIOUS
<1>2. ASSUME s[i] \notin T PROVE Kept(s, T, i, k)
  BY <1>1, <1>2 DEF Kept
<1>3. ASSUME s[i] \in T PROVE Append(k, s[i]) \in Seq(S) /\ Kept(s, T, i, Append(k, s[i]))
  <2> DEFINE h == Append(k, s[i])
  <2>1. /\ h \in Seq(S) /\ Len(h) = Len(k) + 1 /\ h[Len(k) + 1] = s[i]
        /\ \A x \in 1 .. Len(k) : h[x] = k[x]
    BY <1>1
  <2> HIDE DEF h
  <2>2. \A x \in 1 .. Len(h) : x = Len(k) + 1 \/ x \in 1 .. Len(k)
    BY <1>1, <2>1
  <2>3. \A x \in 1 .. Len(h) : \E y \in 1 .. i : h[x] = s[y] /\ s[y] \in T
    <3>1. \A x \in 1 .. Len(k) : \E y \in 1 .. i : h[x] = s[y] /\ s[y] \in T
      BY <1>1, <2>1 DEF Kept
    <3>2. QED
      BY <1>1, <1>3, <2>1, <2>2, <3>1
  <2>4. \A y \in 1 .. i : s[y] \in T => \E x \in 1 .. Len(h) : h[x] = s[y]
    <3>1. \A y \in 1 .. i : y = i \/ y \in 1 .. i - 1
      BY <1>1
    <3>2. Len(k) + 1 \in 1 .. Len(h) /\ \A x \in 1 .. Len(k) : x \in 1 .. Len(h)
      BY <1>1, <2>1
    <3>3. QED
      BY <2>1, <3>1, <3>2 DEF Kept
  <2>5. ASSUME Distinct(s) PROVE Distinct(h)
    <3>1. \A x \in 1 .. Len(k) : k[x] # s[i]
      <4>1. \A y \in 1 .. i - 1 : y \in 1 .. Len(s) /\ y # i
        BY <1>1
      <4>2. \A y \in 1 .. i - 1 : s[y] # s[i]
        BY <2>5, <4>1 DEF Distinct
      <4>3. QED
        BY <4>2 DEF Kept
    <3>2. Distinct(k)
      BY <2>5 DEF Kept
    <3>3. QED
      BY <2>1, <2>2, <3>1, <3>2 DEF Distinct
  <2>6. Kept(s, T, i, h)
    BY <2>3, <2>4, <2>5 DEF Kept
  <2>7. QED
    BY <2>1, <2>6 DEF h
<1>4. QED
  BY <1>2, <1>3

LEMMA KeepFacts ==
  ASSUME NEW S, NEW s \in Seq(S), NEW T
  PROVE  Keep(s, T) \in Seq(S) /\ Kept(s, T, Len(s), Keep(s, T))
<1>1. Len(s) \in Nat
  OBVIOUS
<1>2. \E k : KeepsTo(s, T, Len(s), k)
  BY <1>1, KeepsToExists
<1>3. KeepsTo(s, T, Len(s), CHOOSE k : KeepsTo(s, T, Len(s), k))
  BY <1>2, Zenon
<1>4. PICK k : KeepsTo(s, T, Len(s), k) /\ Keep(s, T) = k[Len(s)]
  BY <1>3, KeepIsLast
<1>5. \A i \in 0 .. Len(s) : k[i] = KeepStep(s, T, k, i)
  BY <1>4 DEF KeepsTo
<1> DEFINE Bad == {i \in 0 .. Len(s) : ~(k[i] \in Seq(S) /\ Kept(s, T, i, k[i]))}
<1>6. Bad = {}
  <2>1. SUFFICES ASSUME Bad # {} PROVE FALSE
    OBVIOUS
  <2>2. PICK m \in Bad : \A n \in Bad : m <= n
    <3>1. Bad \in SUBSET Nat
      BY <1>1
    <3> HIDE DEF Bad
    <3>2. QED
      BY <2>1, <3>1, HasLeast
  <2>3. m # 0
    <3>1. 0 \in 0 .. Len(s) /\ k[0] = <<>>
      BY <1>1, <1>5 DEF KeepStep
    <3>2. <<>> \in Seq(S) /\ Kept(s, T, 0, <<>>)
      BY DEF Kept, Distinct
    <3>3. QED
      BY <2>2, <3>1, <3>2
  <2>4. m \in 1 .. Len(s) /\ m - 1 \in 0 .. Len(s) /\ m - 1 \notin Bad
    BY <1>1, <2>2, <2>3
  <2>5. k[m - 1] \in Seq(S) /\ Kept(s, T, m - 1, k[m - 1])
    BY <2>4
  <2>6. k[m] = IF s[m] \in T THEN Append(k[m - 1], s[m]) ELSE k[m - 1]
    BY <1>5, <2>2, <2>3 DEF KeepStep
  <2>7. k[m] \in Seq(S) /\ Kept(s, T, m, k[m])
    BY <2>4, <2>5, <2>6, KeptOneMore
  <2>8. QED
    BY <2>2, <2>7
<1>7. QED
  BY <1>1, <1>4, <1>6

-----------------------------------------------------------------------------
(* Types                                                                    *)

Attempt == [sub : Subs, ok : BOOLEAN]

LEMMA LoggedType ==
  ASSUME NEW x \in Delivery, log \in Seq(Delivery)
  PROVE  Logged(x) \in Seq(Delivery)
<1> DEFINE l == Append(log, x)
<1>1. l \in Seq(Delivery) /\ l # <<>>
  BY AppendProperties
<1> HIDE DEF l
<1>2. Tail(l) \in Seq(Delivery)
  BY <1>1
<1>3. QED
  BY <1>1, <1>2 DEF Logged, l

LEMMA FinishType ==
  ASSUME WhTypeOK, NEW e \in Events, NEW d \in Nat, NEW f \in Nat, Ends(e, d, f)
  PROVE  phase' \in [Events -> Phases] /\ log' \in Seq(Delivery)
<1>1. [event |-> e, status |-> IF f = 0 \/ d > 0 THEN "delivered" ELSE "failed"] \in Delivery
  BY DEF Delivery
<1>2. log' \in Seq(Delivery)
  BY <1>1, LoggedType DEF Ends, WhTypeOK
<1>3. QED
  BY <1>2 DEF Ends, WhTypeOK, Phases

LEMMA PostType ==
  ASSUME NEW e \in Events, NEW s \in Subs, NEW i \in 0 .. 2
  PROVE  PostTo(e, s, i) \in Post
BY DEF PostTo, Post

LEMMA EmitType ==
  ASSUME WhTypeOK, NEW e \in Events, Emit(e)
  PROVE  WhTypeOK'
<1> DEFINE m == Keep(subs, wants[e])
<1>1. m \in Seq(Subs)
  BY KeepFacts DEF WhTypeOK
<1> HIDE DEF m
<1>2. matching' = [matching EXCEPT ![e] = m] /\ matching' \in [Events -> Seq(Subs)]
  BY <1>1 DEF Emit, WhTypeOK, m
<1>3. phase' \in [Events -> Phases] /\ log' \in Seq(Delivery) /\ net' \subseteq Post
  <2>1. CASE m = <<>> /\ Ends(e, 0, 0) /\ UNCHANGED net
    BY <2>1, FinishType DEF WhTypeOK
  <2>2. CASE /\ m # <<>> /\ phase' = [phase EXCEPT ![e] = "thrown"]
             /\ UNCHANGED <<log, net>>
    BY <2>2 DEF WhTypeOK, Phases
  <2>3. CASE /\ m # <<>> /\ phase' = [phase EXCEPT ![e] = "posting"]
             /\ net' = net \cup {PostTo(e, m[1], 0)} /\ UNCHANGED log
    <3>1. m[1] \in Subs
      BY <1>1, <2>3
    <3>2. PostTo(e, m[1], 0) \in Post
      BY <3>1, PostType
    <3>3. QED
      BY <2>3, <3>2 DEF WhTypeOK, Phases
  <2>4. QED
    BY <2>1, <2>2, <2>3 DEF Emit, m
<1>4. QED
  BY <1>2, <1>3 DEF Emit, WhTypeOK, shape

(* Where a post stands: emit is telling one of the subscribers it matched.  *)
AtSubscriber == \A e \in Events :
  phase[e] \in {"posting", "waiting"} => pos[e] \in 1 .. Len(matching[e])

LEMMA AttemptedType ==
  ASSUME WhTypeOK, AtSubscriber, NEW e \in Events, NEW ok \in BOOLEAN, Attempted(e, ok)
  PROVE  WhTypeOK'
<1>1. /\ pos[e] \in 1 .. Len(matching[e]) /\ matching[e] \in Seq(Subs)
      /\ pos[e] \in Nat \ {0} /\ tries[e] \in 0 .. 2
      /\ delivered[e] \in Nat /\ failed[e] \in Nat
  BY DEF AtSubscriber, Attempted, WhTypeOK
<1>2. [sub |-> Subscriber(e), ok |-> ok] \in Attempt
  BY <1>1 DEF Subscriber, Attempt
<1>3. attempts' \in [Events -> Seq(Attempt)]
  <2>1. PICK a \in Attempt : attempts' = [attempts EXCEPT ![e] = Append(@, a)]
    BY <1>2 DEF Attempted
  <2>2. attempts \in [Events -> Seq(Attempt)]
    BY DEF WhTypeOK, Attempt
  <2>3. Append(attempts[e], a) \in Seq(Attempt)
    BY <2>1, <2>2
  <2>4. QED
    BY <2>1, <2>2, <2>3
<1> DEFINE d == IF ok THEN delivered[e] + 1 ELSE delivered[e]
           f == IF ~ok /\ tries[e] = 2 THEN failed[e] + 1 ELSE failed[e]
<1>4. d \in Nat /\ f \in Nat
  BY <1>1
<1> HIDE DEF d, f
<1>5. delivered' \in [Events -> Nat] /\ failed' \in [Events -> Nat]
  BY <1>4 DEF Attempted, WhTypeOK, d, f
<1>6. /\ phase' \in [Events -> Phases] /\ tries' \in [Events -> 0 .. 2]
      /\ pos' \in [Events -> Nat \ {0}] /\ net' \subseteq Post /\ log' \in Seq(Delivery)
  <2>1. CASE /\ ~Over(e, ok) /\ phase' = [phase EXCEPT ![e] = "waiting"]
             /\ tries' = [tries EXCEPT ![e] = @ + 1] /\ UNCHANGED <<pos, net, log>>
    <3>1. tries[e] + 1 \in 0 .. 2
      BY <1>1, <2>1 DEF Over
    <3>2. QED
      BY <2>1, <3>1 DEF WhTypeOK, Phases
  <2>2. CASE /\ pos[e] < Len(matching[e])
             /\ pos' = [pos EXCEPT ![e] = @ + 1] /\ tries' = [tries EXCEPT ![e] = 0]
             /\ net' = net \cup {PostTo(e, matching[e][pos[e] + 1], 0)}
             /\ UNCHANGED <<phase, log>>
    <3>1. pos[e] + 1 \in Nat \ {0} /\ matching[e][pos[e] + 1] \in Subs
      BY <1>1, <2>2
    <3>2. PostTo(e, matching[e][pos[e] + 1], 0) \in Post
      BY <3>1, PostType
    <3>3. QED
      BY <2>2, <3>1, <3>2 DEF WhTypeOK
  <2>3. CASE Ends(e, d, f) /\ UNCHANGED <<pos, tries, net>>
    BY <1>4, <2>3, FinishType DEF WhTypeOK
  <2>4. QED
    BY <2>1, <2>2, <2>3 DEF Attempted, d, f
<1>7. QED
  BY <1>3, <1>5, <1>6 DEF Attempted, WhTypeOK, Attempt, shape

LEMMA WakeType ==
  ASSUME WhTypeOK, AtSubscriber, NEW e \in Events, Wake(e)
  PROVE  WhTypeOK'
<1>1. pos[e] \in 1 .. Len(matching[e]) /\ matching[e] \in Seq(Subs) /\ tries[e] \in 0 .. 2
  BY DEF AtSubscriber, Wake, WhTypeOK
<1>2. Subscriber(e) \in Subs
  BY <1>1 DEF Subscriber
<1>3. PostTo(e, Subscriber(e), tries[e]) \in Post
  BY <1>1, <1>2, PostType
<1>4. QED
  BY <1>3 DEF Wake, WhTypeOK, shape, books, Phases

LEMMA SubscriptionType ==
  ASSUME WhTypeOK, NEW s \in Subs, Subscribe(s) \/ Unsubscribe(s)
  PROVE  WhTypeOK'
<1>1. subs \in Seq(Subs)
  BY DEF WhTypeOK
<1>2. Keep(subs, Subs \ {s}) \in Seq(Subs)
  BY <1>1, KeepFacts
<1>3. CASE Subscribe(s)
  <2>1. Append(subs, s) \in Seq(Subs)
    BY <1>1
  <2>2. QED
    BY <1>3, <2>1 DEF Subscribe, WhTypeOK, shape, books
<1>4. CASE Unsubscribe(s)
  BY <1>2, <1>4 DEF Unsubscribe, WhTypeOK, shape, books
<1>5. QED
  BY <1>3, <1>4
-----------------------------------------------------------------------------
(* The inductive invariant                                                  *)

(* The subscribers emit is through with                                     *)
Through(e) == IF phase[e] = "done" THEN Len(matching[e]) ELSE pos[e] - 1

TriesIn(a, s) == {i \in DOMAIN a : a[i].sub = s}
ToldIn(a, s)  == \E i \in TriesIn(a, s) : a[i].ok

(* What the attempts a say once emit is through with the first n of the     *)
(* subscribers M and has tried the next t times                             *)
Tale(M, n, t, a, d, f) ==
  /\ \A x \in 1 .. Len(M) :
       /\ x <= n => ToldIn(a, M[x]) \/ Cardinality(TriesIn(a, M[x])) = 3
       /\ x = n + 1 => ~ToldIn(a, M[x]) /\ Cardinality(TriesIn(a, M[x])) = t
       /\ x > n + 1 => TriesIn(a, M[x]) = {}
       /\ \A i, j \in TriesIn(a, M[x]) : a[i].ok => j <= i
  /\ d = Cardinality({x \in 1 .. n : ToldIn(a, M[x])})
  /\ f = Cardinality({x \in 1 .. n : ~ToldIn(a, M[x])})

EmitInv(e) ==
  /\ Distinct(matching[e])
  /\ phase[e] = "idle" =>
       matching[e] = <<>> /\ pos[e] = 1 /\ tries[e] = 0 /\ attempts[e] = <<>>
         /\ delivered[e] = 0 /\ failed[e] = 0
  /\ Through(e) \in 0 .. Len(matching[e])
  /\ phase[e] \in {"posting", "waiting"} => pos[e] \in 1 .. Len(matching[e])
  /\ Tale(matching[e], Through(e), tries[e], attempts[e], delivered[e], failed[e])
  /\ \A s \in Subs : ToldIn(attempts[e], s) => \E p \in got : p.event = e /\ p.sub = s

(* A post was made for a try that emit has counted, or is the one it waits  *)
(* for.                                                                     *)
PostInv(p) ==
  \E x \in 1 .. Len(matching[p.event]) :
    /\ matching[p.event][x] = p.sub
    /\ \/ x <= Through(p.event) /\ p.try < Cardinality(TriesIn(attempts[p.event], p.sub))
       \/ x = Through(p.event) + 1 /\ phase[p.event] \in {"posting", "waiting"}
            /\ p.try <= tries[p.event]

ListInv == Distinct(subs) /\ \A i \in 1 .. Len(subs) : subs[i] \in taken

DeliveryInv ==
  /\ WhTypeOK /\ ListInv
  /\ IsFiniteSet(net) /\ IsFiniteSet(got)
  /\ \A e \in Events : EmitInv(e)
  /\ \A p \in net \cup got : PostInv(p)

Tried(a, b, s, ok) == b = Append(a, [sub |-> s, ok |-> ok])

LEMMA UpToFinite == \A n \in Nat : IsFiniteSet(1 .. n)
BY FS_Interval

LEMMA OneMoreTry ==
  ASSUME NEW a \in Seq(Attempt), NEW s \in Subs, NEW ok \in BOOLEAN,
         NEW b, Tried(a, b, s, ok)
  PROVE  /\ b \in Seq(Attempt) /\ Len(b) = Len(a) + 1 /\ Len(a) \in Nat
         /\ b[Len(a) + 1].sub = s /\ b[Len(a) + 1].ok = ok
         /\ \A i \in 1 .. Len(a) : b[i] = a[i]
         /\ TriesIn(b, s) = TriesIn(a, s) \cup {Len(a) + 1}
         /\ Cardinality(TriesIn(a, s)) \in Nat
         /\ Cardinality(TriesIn(b, s)) = Cardinality(TriesIn(a, s)) + 1
         /\ ToldIn(b, s) <=> ToldIn(a, s) \/ ok
         /\ \A q : q # s => TriesIn(b, q) = TriesIn(a, q) /\ (ToldIn(b, q) <=> ToldIn(a, q))
<1>1. PICK r \in Attempt : r.sub = s /\ r.ok = ok /\ b = Append(a, r)
  <2>1. [sub |-> s, ok |-> ok] \in Attempt
    BY DEF Attempt
  <2>2. QED
    BY <2>1 DEF Tried
<1>2. /\ b \in Seq(Attempt) /\ Len(b) = Len(a) + 1 /\ Len(a) \in Nat
      /\ b[Len(a) + 1].sub = s /\ b[Len(a) + 1].ok = ok
      /\ \A i \in 1 .. Len(a) : b[i] = a[i]
      /\ DOMAIN a = 1 .. Len(a) /\ DOMAIN b = 1 .. Len(a) + 1
  BY <1>1
<1>3. \A i \in DOMAIN b : i = Len(a) + 1 \/ i \in DOMAIN a
  BY <1>2
<1>4. Len(a) + 1 \in DOMAIN b /\ DOMAIN a \subseteq DOMAIN b /\ Len(a) + 1 \notin DOMAIN a
  BY <1>2
<1>5. TriesIn(b, s) = TriesIn(a, s) \cup {Len(a) + 1}
  BY <1>2, <1>3, <1>4 DEF TriesIn
<1>6. \A q : q # s => TriesIn(b, q) = TriesIn(a, q)
  BY <1>2, <1>3, <1>4 DEF TriesIn
<1>7. \A q, i : i \in TriesIn(a, q) => b[i] = a[i]
  BY <1>2 DEF TriesIn
<1>8. ToldIn(b, s) <=> ToldIn(a, s) \/ ok
  BY <1>2, <1>5, <1>7 DEF ToldIn
<1>9. \A q : q # s => (ToldIn(b, q) <=> ToldIn(a, q))
  BY <1>6, <1>7 DEF ToldIn
<1>10. IsFiniteSet(TriesIn(a, s)) /\ Len(a) + 1 \notin TriesIn(a, s)
  <2>1. TriesIn(a, s) \subseteq 1 .. Len(a)
    BY <1>2 DEF TriesIn
  <2>2. IsFiniteSet(1 .. Len(a))
    BY <1>2, UpToFinite
  <2>3. QED
    BY <1>2, <2>1, <2>2, FS_Subset
<1>11. /\ Cardinality(TriesIn(a, s)) \in Nat
       /\ Cardinality(TriesIn(b, s)) = Cardinality(TriesIn(a, s)) + 1
  BY <1>5, <1>10, FS_AddElement, FS_CardinalityType
<1>12. QED
  BY <1>2, <1>5, <1>6, <1>8, <1>11, <1>9

(* The attempt that comes last is the only one that can have succeeded.     *)
LEMMA LastMaySucceed ==
  ASSUME NEW a \in Seq(Attempt), NEW s \in Subs, NEW ok \in BOOLEAN,
         NEW b, Tried(a, b, s, ok), ~ToldIn(a, s)
  PROVE  \A i, j \in TriesIn(b, s) : b[i].ok => j <= i
<1>1. /\ Len(a) \in Nat /\ TriesIn(b, s) = TriesIn(a, s) \cup {Len(a) + 1}
      /\ \A i \in 1 .. Len(a) : b[i] = a[i]
  BY OneMoreTry
<1>2. \A i \in TriesIn(a, s) : i \in 1 .. Len(a) /\ ~b[i].ok
  BY <1>1 DEF TriesIn, ToldIn
<1>3. QED
  BY <1>1, <1>2

LEMMA TaleRetry ==
  ASSUME NEW M \in Seq(Subs), Distinct(M), NEW n \in Nat, n < Len(M),
         NEW a \in Seq(Attempt), NEW t \in Nat, NEW d, NEW f, Tale(M, n, t, a, d, f),
         NEW s \in Subs, s = M[n + 1], NEW ok \in BOOLEAN, ~ok,
         NEW b, Tried(a, b, s, ok)
  PROVE  Tale(M, n, t + 1, b, d, f)
<1>1. Len(M) \in Nat /\ n + 1 \in 1 .. Len(M)
  OBVIOUS
<1>2. ~ToldIn(a, s) /\ Cardinality(TriesIn(a, s)) = t
  BY <1>1 DEF Tale
<1>3. /\ Cardinality(TriesIn(b, s)) = t + 1 /\ ~ToldIn(b, s)
      /\ \A i, j \in TriesIn(b, s) : b[i].ok => j <= i
  BY <1>2, OneMoreTry, LastMaySucceed, SMTT(30)
<1>4. /\ \A q : q # s => TriesIn(b, q) = TriesIn(a, q) /\ (ToldIn(b, q) <=> ToldIn(a, q))
      /\ Len(a) \in Nat /\ \A i \in 1 .. Len(a) : b[i] = a[i]
  BY OneMoreTry, SMTT(30)
<1>5. \A x \in 1 .. Len(M) : x # n + 1 => M[x] # s
  BY <1>1 DEF Distinct
<1>6. ASSUME NEW x \in 1 .. Len(M), x # n + 1
      PROVE  /\ TriesIn(b, M[x]) = TriesIn(a, M[x]) /\ (ToldIn(b, M[x]) <=> ToldIn(a, M[x]))
             /\ \A i, j \in TriesIn(b, M[x]) : b[i].ok => j <= i
  <2>1. TriesIn(b, M[x]) = TriesIn(a, M[x]) /\ (ToldIn(b, M[x]) <=> ToldIn(a, M[x]))
    BY <1>4, <1>5, <1>6
  <2>2. \A i \in TriesIn(a, M[x]) : b[i] = a[i]
    BY <1>4 DEF TriesIn
  <2>3. \A i, j \in TriesIn(a, M[x]) : a[i].ok => j <= i
    BY DEF Tale
  <2>4. QED
    BY <2>1, <2>2, <2>3
<1>7. \A x \in 1 .. n : ToldIn(b, M[x]) <=> ToldIn(a, M[x])
  BY <1>1, <1>6
<1>8. /\ {x \in 1 .. n : ToldIn(b, M[x])} = {x \in 1 .. n : ToldIn(a, M[x])}
      /\ {x \in 1 .. n : ~ToldIn(b, M[x])} = {x \in 1 .. n : ~ToldIn(a, M[x])}
  BY <1>7
<1>9. ASSUME NEW x \in 1 .. Len(M)
      PROVE  /\ x <= n => ToldIn(b, M[x]) \/ Cardinality(TriesIn(b, M[x])) = 3
             /\ x = n + 1 => ~ToldIn(b, M[x]) /\ Cardinality(TriesIn(b, M[x])) = t + 1
             /\ x > n + 1 => TriesIn(b, M[x]) = {}
             /\ \A i, j \in TriesIn(b, M[x]) : b[i].ok => j <= i
  <2>1. CASE x = n + 1
    BY <1>3, <2>1
  <2>2. CASE x # n + 1
    <3>1. /\ x <= n => ToldIn(a, M[x]) \/ Cardinality(TriesIn(a, M[x])) = 3
          /\ x > n + 1 => TriesIn(a, M[x]) = {}
      BY DEF Tale
    <3>2. QED
      BY <1>6, <2>2, <3>1
  <2>3. QED
    BY <2>1, <2>2
<1>10. d = Cardinality({x \in 1 .. n : ToldIn(b, M[x])})
  BY <1>8 DEF Tale
<1>11. f = Cardinality({x \in 1 .. n : ~ToldIn(b, M[x])})
  BY <1>8 DEF Tale
<1>12. QED
  BY <1>9, <1>10, <1>11 DEF Tale

(* The counts after a try                                                   *)
Counted(ok, t, d, f, dd, ff) ==
  /\ dd = IF ok THEN d + 1 ELSE d
  /\ ff = IF ~ok /\ t = 2 THEN f + 1 ELSE f

LEMMA TaleOver ==
  ASSUME NEW M \in Seq(Subs), Distinct(M), NEW n \in Nat, n < Len(M),
         NEW a \in Seq(Attempt), NEW t \in Nat, NEW d \in Nat, NEW f \in Nat,
         Tale(M, n, t, a, d, f), NEW ok \in BOOLEAN, ok \/ t = 2,
         NEW s \in Subs, s = M[n + 1], NEW b, Tried(a, b, s, ok),
         NEW u, n + 1 < Len(M) => u = 0, NEW dd, NEW ff, Counted(ok, t, d, f, dd, ff)
  PROVE  Tale(M, n + 1, u, b, dd, ff)
<1>1. Len(M) \in Nat /\ n + 1 \in 1 .. Len(M)
  OBVIOUS
<1>2. ~ToldIn(a, s) /\ Cardinality(TriesIn(a, s)) = t
  BY <1>1 DEF Tale
<1>3. /\ Cardinality(TriesIn(b, s)) = t + 1 /\ (ToldIn(b, s) <=> ok)
      /\ \A i, j \in TriesIn(b, s) : b[i].ok => j <= i
  BY <1>2, OneMoreTry, LastMaySucceed, SMTT(30)
<1>4. /\ \A q : q # s => TriesIn(b, q) = TriesIn(a, q) /\ (ToldIn(b, q) <=> ToldIn(a, q))
      /\ Len(a) \in Nat /\ \A i \in 1 .. Len(a) : b[i] = a[i]
  BY OneMoreTry, SMTT(30)
<1>5. \A x \in 1 .. Len(M) : x # n + 1 => M[x] # s
  BY <1>1 DEF Distinct
<1>6. ASSUME NEW x \in 1 .. Len(M), x # n + 1
      PROVE  /\ TriesIn(b, M[x]) = TriesIn(a, M[x]) /\ (ToldIn(b, M[x]) <=> ToldIn(a, M[x]))
             /\ \A i, j \in TriesIn(b, M[x]) : b[i].ok => j <= i
  <2>1. TriesIn(b, M[x]) = TriesIn(a, M[x]) /\ (ToldIn(b, M[x]) <=> ToldIn(a, M[x]))
    BY <1>4, <1>5, <1>6
  <2>2. \A i \in TriesIn(a, M[x]) : b[i] = a[i]
    BY <1>4 DEF TriesIn
  <2>3. \A i, j \in TriesIn(a, M[x]) : a[i].ok => j <= i
    BY DEF Tale
  <2>4. QED
    BY <2>1, <2>2, <2>3
<1>7. ASSUME NEW x \in 1 .. Len(M)
      PROVE  /\ x <= n + 1 => ToldIn(b, M[x]) \/ Cardinality(TriesIn(b, M[x])) = 3
             /\ x = n + 1 + 1 => ~ToldIn(b, M[x]) /\ Cardinality(TriesIn(b, M[x])) = u
             /\ x > n + 1 + 1 => TriesIn(b, M[x]) = {}
             /\ \A i, j \in TriesIn(b, M[x]) : b[i].ok => j <= i
  <2>1. CASE x = n + 1
    <3>1. ~(x = n + 1 + 1) /\ ~(x > n + 1 + 1)
      BY <2>1
    <3>2. QED
      BY <1>3, <2>1, <3>1
  <2>2. CASE x # n + 1
    <3>1. /\ x <= n => ToldIn(a, M[x]) \/ Cardinality(TriesIn(a, M[x])) = 3
          /\ x > n + 1 => TriesIn(a, M[x]) = {}
      BY DEF Tale
    <3>2. x > n + 1 => ~ToldIn(a, M[x]) /\ Cardinality(TriesIn(a, M[x])) = 0
      BY <3>1, FS_EmptySet DEF ToldIn
    <3>3. /\ x = n + 1 + 1 => x > n + 1 /\ u = 0
          /\ x > n + 1 + 1 => x > n + 1
          /\ x <= n + 1 => x <= n
      BY <1>1, <2>2
    <3>4. QED
      BY <1>6, <2>2, <3>1, <3>2, <3>3
  <2>3. QED
    BY <2>1, <2>2
<1> DEFINE D == {x \in 1 .. n : ToldIn(a, M[x])}
           F == {x \in 1 .. n : ~ToldIn(a, M[x])}
<1>8. IsFiniteSet(D) /\ IsFiniteSet(F) /\ n + 1 \notin D /\ n + 1 \notin F
  <2>1. D \subseteq 1 .. n /\ F \subseteq 1 .. n /\ IsFiniteSet(1 .. n)
    BY UpToFinite
  <2>2. QED
    BY <2>1, FS_Subset
<1>9. \A x \in 1 .. n : ToldIn(b, M[x]) <=> ToldIn(a, M[x])
  BY <1>1, <1>6
<1>10. \A x \in 1 .. n + 1 : x = n + 1 \/ x \in 1 .. n
  OBVIOUS
<1>11. (ToldIn(b, M[n + 1]) <=> ok) /\ n + 1 \in 1 .. n + 1 /\ \A x \in 1 .. n : x \in 1 .. n + 1
  BY <1>1, <1>3
<1>12. {x \in 1 .. n + 1 : ToldIn(b, M[x])} = IF ok THEN D \cup {n + 1} ELSE D
  BY <1>9, <1>10, <1>11
<1>13. {x \in 1 .. n + 1 : ~ToldIn(b, M[x])} = IF ok THEN F ELSE F \cup {n + 1}
  BY <1>9, <1>10, <1>11
<1>14. d = Cardinality(D) /\ f = Cardinality(F)
  BY DEF Tale
<1> HIDE DEF D, F
<1>15. Cardinality(D \cup {n + 1}) = d + 1 /\ Cardinality(F \cup {n + 1}) = f + 1
  BY <1>8, <1>14, FS_AddElement
<1>16. dd = Cardinality({x \in 1 .. n + 1 : ToldIn(b, M[x])})
  BY <1>12, <1>14, <1>15 DEF Counted
<1>17. ff = Cardinality({x \in 1 .. n + 1 : ~ToldIn(b, M[x])})
  BY <1>13, <1>14, <1>15 DEF Counted
<1>18. QED
  BY <1>7, <1>16, <1>17 DEF Tale

LEMMA TaleStart ==
  ASSUME NEW M \in Seq(Subs)
  PROVE  Tale(M, 0, 0, <<>>, 0, 0)
<1>1. \A s : TriesIn(<<>>, s) = {}
  BY DEF TriesIn
<1>2. \A s : ~ToldIn(<<>>, s) /\ Cardinality(TriesIn(<<>>, s)) = 0
  BY <1>1, FS_EmptySet DEF ToldIn
<1>3. /\ {x \in 1 .. 0 : ToldIn(<<>>, M[x])} = {}
      /\ {x \in 1 .. 0 : ~ToldIn(<<>>, M[x])} = {}
  OBVIOUS
<1>4. /\ Cardinality({x \in 1 .. 0 : ToldIn(<<>>, M[x])}) = 0
      /\ Cardinality({x \in 1 .. 0 : ~ToldIn(<<>>, M[x])}) = 0
  BY <1>3, FS_EmptySet
<1>5. QED
  BY <1>1, <1>2, <1>4 DEF Tale

-----------------------------------------------------------------------------
(* Steps                                                                    *)

(* A step does not touch the emit of e.                                     *)
Same(e) ==
  /\ phase'[e] = phase[e] /\ matching'[e] = matching[e]
  /\ pos'[e] = pos[e] /\ tries'[e] = tries[e] /\ attempts'[e] = attempts[e]
  /\ delivered'[e] = delivered[e] /\ failed'[e] = failed[e]

LEMMA SameEmit ==
  ASSUME NEW e \in Events, EmitInv(e), Same(e), got \subseteq got'
  PROVE  EmitInv(e)'
<1>1. Through(e)' = Through(e)
  BY DEF Same, Through
<1>2. QED
  BY <1>1 DEF EmitInv, Same

LEMMA SamePost ==
  ASSUME NEW p \in Post, PostInv(p), Same(p.event)
  PROVE  PostInv(p)'
<1>1. Through(p.event)' = Through(p.event)
  BY DEF Same, Through
<1>2. QED
  BY <1>1 DEF PostInv, Same

(* Posts and emits are kept if those of one emit are.                       *)
LEMMA OthersSame ==
  ASSUME WhTypeOK, WhTypeOK', ListInv', \A g \in Events : EmitInv(g),
         \A p \in net \cup got : PostInv(p),
         IsFiniteSet(net'), IsFiniteSet(got'), got \subseteq got',
         NEW e \in Events, \A g \in Events : g # e => Same(g), EmitInv(e)',
         \A p \in net' \cup got' : p \in net \cup got \/ p.event = e,
         \A p \in net' \cup got' : p.event = e => PostInv(p)'
  PROVE  DeliveryInv'
<1>1. ASSUME NEW g \in Events PROVE EmitInv(g)'
  BY <1>1, SameEmit
<1>2. ASSUME NEW p \in net' \cup got' PROVE PostInv(p)'
  <2>1. p \in Post /\ p.event \in Events
    BY DEF WhTypeOK, Post
  <2>2. CASE p.event = e
    BY <2>2
  <2>3. CASE p.event # e
    BY <2>1, <2>3, SamePost
  <2>4. QED
    BY <2>2, <2>3
<1>3. QED
  BY <1>1, <1>2 DEF DeliveryInv

LEMMA AllSame ==
  ASSUME WhTypeOK, WhTypeOK', ListInv', \A g \in Events : EmitInv(g),
         \A p \in net \cup got : PostInv(p),
         IsFiniteSet(net'), IsFiniteSet(got'), got \subseteq got',
         UNCHANGED <<phase, matching, pos, tries, attempts, delivered, failed>>,
         net' \cup got' \subseteq net \cup got
  PROVE  DeliveryInv'
<1>1. \A g \in Events : Same(g)
  BY DEF Same
<1>2. ASSUME NEW g \in Events PROVE EmitInv(g)'
  BY <1>1, SameEmit
<1>3. ASSUME NEW p \in net' \cup got' PROVE PostInv(p)'
  <2>1. p \in Post /\ p.event \in Events /\ PostInv(p)
    BY DEF WhTypeOK, Post
  <2>2. QED
    BY <1>1, <2>1, SamePost
<1>4. QED
  BY <1>2, <1>3 DEF DeliveryInv

LEMMA InvAtSubscriber == DeliveryInv => AtSubscriber
BY DEF DeliveryInv, EmitInv, AtSubscriber

LEMMA SubscriptionKeeps ==
  ASSUME DeliveryInv, NEW s \in Subs, Subscribe(s) \/ Unsubscribe(s)
  PROVE  DeliveryInv'
<1>1. WhTypeOK /\ subs \in Seq(Subs) /\ ListInv
  BY DEF DeliveryInv, WhTypeOK
<1>2. WhTypeOK'
  BY <1>1, SubscriptionType
<1>3. ListInv'
  <2>1. CASE Subscribe(s)
    <3>1. s \notin taken /\ subs' = Append(subs, s) /\ taken' = taken \cup {s}
      BY <2>1 DEF Subscribe
    <3>2. /\ Len(subs') = Len(subs) + 1 /\ Len(subs) \in Nat /\ subs'[Len(subs) + 1] = s
          /\ \A i \in 1 .. Len(subs) : subs'[i] = subs[i]
      BY <1>1, <3>1
    <3>3. \A i \in 1 .. Len(subs') : i = Len(subs) + 1 \/ i \in 1 .. Len(subs)
      BY <3>2
    <3>4. \A i \in 1 .. Len(subs) : subs[i] \in taken /\ subs[i] # s
      BY <1>1, <3>1 DEF ListInv
    <3>5. \A i \in 1 .. Len(subs') : subs'[i] \in taken'
      BY <3>1, <3>2, <3>3, <3>4
    <3>6. Distinct(subs')
      BY <1>1, <3>2, <3>3, <3>4 DEF Distinct, ListInv
    <3>7. QED
      BY <3>5, <3>6 DEF ListInv, Distinct
  <2>2. CASE Unsubscribe(s)
    <3>1. subs' = Keep(subs, Subs \ {s}) /\ taken' = taken
      BY <2>2 DEF Unsubscribe
    <3>2. Kept(subs, Subs \ {s}, Len(subs), subs')
      BY <1>1, <3>1, KeepFacts
    <3>3. Distinct(subs')
      BY <1>1, <3>2 DEF Kept, ListInv
    <3>4. \A i \in 1 .. Len(subs') : subs'[i] \in taken'
      BY <1>1, <3>1, <3>2 DEF Kept, ListInv
    <3>5. QED
      BY <3>3, <3>4 DEF ListInv, Distinct
  <2>3. QED
    BY <2>1, <2>2
<1>4. /\ UNCHANGED <<phase, matching, pos, tries, attempts, delivered, failed, net, got>>
      /\ IsFiniteSet(net) /\ IsFiniteSet(got)
  BY DEF Subscribe, Unsubscribe, books, DeliveryInv
<1>5. (\A g \in Events : EmitInv(g)) /\ \A p \in net \cup got : PostInv(p)
  BY DEF DeliveryInv
<1>6. QED
  BY <1>1, <1>2, <1>3, <1>4, <1>5, AllSame

LEMMA ReceiveKeeps ==
  ASSUME DeliveryInv, NEW p \in net, Receive(p)
  PROVE  DeliveryInv'
<1>1. /\ WhTypeOK /\ ListInv /\ IsFiniteSet(net) /\ IsFiniteSet(got)
      /\ \A g \in Events : EmitInv(g)
      /\ \A q \in net \cup got : PostInv(q)
  BY DEF DeliveryInv
<1>2. /\ net' = net \ {p} /\ got' = got \cup {p}
      /\ UNCHANGED <<shape, books, subs, taken, phase, matching, pos, tries>>
  BY DEF Receive
<1>3. WhTypeOK'
  BY <1>1, <1>2 DEF WhTypeOK, shape, books
<1>4. ListInv'
  BY <1>1, <1>2 DEF ListInv, Distinct
<1>5. IsFiniteSet(net') /\ IsFiniteSet(got')
  BY <1>1, <1>2, FS_AddElement, FS_RemoveElement
<1>6. UNCHANGED <<phase, matching, pos, tries, attempts, delivered, failed>>
  BY <1>2 DEF books
<1>7. QED
  BY <1>1, <1>2, <1>3, <1>4, <1>5, <1>6, AllSame

LEMMA EmitKeeps ==
  ASSUME DeliveryInv, NEW e \in Events, Emit(e)
  PROVE  DeliveryInv'
<1> DEFINE m == Keep(subs, wants[e])
<1>1. /\ WhTypeOK /\ ListInv /\ IsFiniteSet(net) /\ IsFiniteSet(got)
      /\ \A g \in Events : EmitInv(g)
      /\ \A q \in net \cup got : PostInv(q)
      /\ phase[e] = "idle" /\ subs \in Seq(Subs)
  BY DEF DeliveryInv, Emit, WhTypeOK
<1>2. m \in Seq(Subs) /\ Distinct(m)
  <2>1. Kept(subs, wants[e], Len(subs), m) /\ m \in Seq(Subs)
    BY <1>1, KeepFacts
  <2>2. QED
    BY <1>1, <2>1 DEF Kept, ListInv
<1>3. /\ matching' = [matching EXCEPT ![e] = m]
      /\ UNCHANGED <<subs, taken, pos, tries, attempts, delivered, failed, got>>
  BY DEF Emit
<1>4. \/ /\ m = <<>> /\ phase' = [phase EXCEPT ![e] = "done"]
         /\ UNCHANGED net
      \/ /\ m # <<>> /\ phase' = [phase EXCEPT ![e] = "thrown"]
         /\ UNCHANGED net
      \/ /\ m # <<>> /\ phase' = [phase EXCEPT ![e] = "posting"]
         /\ net' = net \cup {PostTo(e, m[1], 0)}
  BY DEF Emit, Ends
<1> HIDE DEF m
<1>5. WhTypeOK'
  BY <1>1, EmitType
<1>6. ListInv'
  BY <1>1, <1>3 DEF ListInv, Distinct
<1>7. matching'[e] = m /\ \A g \in Events : g # e => Same(g)
  BY <1>1, <1>3, <1>4 DEF WhTypeOK, Same
<1>8. /\ pos'[e] = 1 /\ tries'[e] = 0 /\ attempts'[e] = <<>>
      /\ delivered'[e] = 0 /\ failed'[e] = 0 /\ matching[e] = <<>>
  BY <1>1, <1>3 DEF EmitInv
<1>9. phase'[e] \in {"done", "thrown", "posting"} /\ (phase'[e] = "done" <=> m = <<>>)
  BY <1>1, <1>4 DEF WhTypeOK
<1>10. Len(m) \in Nat /\ (m # <<>> => Len(m) >= 1) /\ (m = <<>> => Len(m) = 0)
  BY <1>2
<1>11. Through(e)' = 0
  BY <1>7, <1>8, <1>9, <1>10 DEF Through
<1>12. EmitInv(e)'
  <2>1. Tale(m, 0, 0, <<>>, 0, 0)
    BY <1>2, TaleStart
  <2>2. \A s : ~ToldIn(<<>>, s)
    BY DEF ToldIn, TriesIn
  <2>3. QED
    BY <1>2, <1>7, <1>8, <1>9, <1>10, <1>11, <2>1, <2>2 DEF EmitInv
<1>13. \A q \in net \cup got : q.event # e
  BY <1>1, <1>8 DEF PostInv
<1>14. ASSUME NEW q \in net' \cup got', q.event = e PROVE PostInv(q)'
  <2>1. m # <<>> /\ phase'[e] = "posting" /\ q = PostTo(e, m[1], 0)
    BY <1>1, <1>3, <1>4, <1>13, <1>14 DEF WhTypeOK
  <2>2. q.sub = m[1] /\ q.try = 0 /\ q.event = e
    BY <2>1 DEF PostTo
  <2>3. 1 \in 1 .. Len(m)
    BY <1>10, <2>1
  <2>4. QED
    BY <1>7, <1>8, <1>11, <2>1, <2>2, <2>3 DEF PostInv
<1>15. \A q \in net' \cup got' : q \in net \cup got \/ q.event = e
  BY <1>3, <1>4 DEF PostTo
<1>16. IsFiniteSet(net') /\ IsFiniteSet(got') /\ got \subseteq got'
  BY <1>1, <1>3, <1>4, FS_AddElement
<1>17. QED
  BY <1>1, <1>5, <1>6, <1>7, <1>12, <1>14, <1>15, <1>16, OthersSame

LEMMA WakeKeeps ==
  ASSUME DeliveryInv, NEW e \in Events, Wake(e)
  PROVE  DeliveryInv'
<1>1. /\ WhTypeOK /\ ListInv /\ IsFiniteSet(net) /\ IsFiniteSet(got)
      /\ \A g \in Events : EmitInv(g)
      /\ \A p \in net \cup got : PostInv(p)
      /\ phase[e] = "waiting" /\ EmitInv(e)
  BY DEF DeliveryInv, Wake
<1>2. /\ phase' = [phase EXCEPT ![e] = "posting"]
      /\ UNCHANGED <<shape, books, subs, taken, matching, pos, tries, got>>
  BY DEF Wake
<1>3. PICK q : /\ q.event = e /\ q.sub = Subscriber(e) /\ q.try = tries[e]
               /\ net' = net \cup {q}
  BY DEF Wake, PostTo
<1>4. WhTypeOK'
  BY <1>1, InvAtSubscriber, WakeType
<1>5. ListInv'
  BY <1>1, <1>2 DEF ListInv, Distinct
<1>6. UNCHANGED <<attempts, delivered, failed>> /\ \A g \in Events : g # e => Same(g)
  BY <1>1, <1>2 DEF WhTypeOK, Same, books
<1>7. phase'[e] = "posting" /\ Through(e)' = Through(e)
  BY <1>1, <1>2 DEF WhTypeOK, Through
<1>8. EmitInv(e)'
  BY <1>1, <1>2, <1>6, <1>7 DEF EmitInv
<1>9. PostInv(q)'
  <2>1. pos[e] \in 1 .. Len(matching[e]) /\ pos[e] \in Nat /\ tries[e] \in Nat
    <3>1. pos[e] \in 1 .. Len(matching[e])
      BY <1>1, InvAtSubscriber DEF AtSubscriber
    <3>2. pos[e] \in Nat /\ tries[e] \in Nat
      BY <1>1 DEF WhTypeOK
    <3>3. QED
      BY <3>1, <3>2
  <2>2. pos[e] = Through(e) + 1
    BY <1>1, <2>1 DEF Through
  <2>3. matching'[e][pos[e]] = q.sub /\ q.try <= tries'[e]
    BY <1>2, <1>3, <2>1 DEF Subscriber
  <2>4. QED
    BY <1>2, <1>7, <1>3, <2>1, <2>2, <2>3 DEF PostInv
<1>10. ASSUME NEW p \in net' \cup got', p.event = e PROVE PostInv(p)'
  <2>1. CASE p = q
    BY <1>9, <2>1
  <2>2. CASE p # q
    <3>1. PostInv(p)
      BY <1>1, <1>2, <1>3, <2>2
    <3>2. QED
      BY <1>2, <1>6, <1>7, <1>10, <3>1 DEF PostInv
  <2>3. QED
    BY <2>1, <2>2
<1>11. \A p \in net' \cup got' : p \in net \cup got \/ p.event = e
  BY <1>2, <1>3
<1>12. IsFiniteSet(net') /\ IsFiniteSet(got') /\ got \subseteq got'
  BY <1>1, <1>2, <1>3, FS_AddElement
<1>13. QED
  BY <1>1, <1>4, <1>5, <1>6, <1>8, <1>10, <1>11, <1>12, OthersSame

(* A try that was answered 2xx was received.                                *)
LEMMA AttemptedKeeps ==
  ASSUME DeliveryInv, NEW e \in Events, NEW ok \in BOOLEAN, Attempted(e, ok),
         ok => PostTo(e, Subscriber(e), tries[e]) \in got
  PROVE  DeliveryInv'
<1>1. /\ WhTypeOK /\ ListInv /\ IsFiniteSet(net) /\ IsFiniteSet(got)
      /\ \A g \in Events : EmitInv(g)
      /\ \A p \in net \cup got : PostInv(p)
      /\ phase[e] = "posting" /\ EmitInv(e)
  BY DEF DeliveryInv, Attempted
<1>2. WhTypeOK'
  BY <1>1, InvAtSubscriber, AttemptedType
<1>3. UNCHANGED <<subs, taken, matching, got>>
  BY DEF Attempted
<1>4. ListInv'
  BY <1>1, <1>3 DEF ListInv, Distinct
<1>5. PICK M \in Seq(Subs) : M = matching[e]
  BY <1>1 DEF WhTypeOK
<1>6. PICK a \in Seq(Attempt) : a = attempts[e]
  BY <1>1 DEF WhTypeOK, Attempt
<1>7. PICK t \in 0 .. 2 : t = tries[e]
  BY <1>1 DEF WhTypeOK
<1>8. PICK n \in Nat : n = pos[e] - 1 /\ n < Len(M) /\ n = Through(e) /\ pos[e] = n + 1
  <2>1. pos[e] \in 1 .. Len(M) /\ Len(M) \in Nat
    BY <1>1, <1>5, InvAtSubscriber DEF AtSubscriber
  <2>2. pos[e] - 1 \in Nat /\ pos[e] - 1 < Len(M) /\ Through(e) = pos[e] - 1
    BY <1>1, <2>1 DEF Through
  <2>3. QED
    BY <2>1, <2>2
<1>9. PICK s \in Subs : s = M[n + 1] /\ s = Subscriber(e)
  <2>1. M[n + 1] \in Subs
    BY <1>8
  <2>2. QED
    BY <1>5, <1>8, <2>1 DEF Subscriber
<1>10. PICK b : Tried(a, b, s, ok) /\ attempts' = [attempts EXCEPT ![e] = b]
  BY <1>6, <1>9 DEF Attempted, Tried
<1>11. PICK d \in Nat, f \in Nat : d = delivered[e] /\ f = failed[e]
  BY <1>1 DEF WhTypeOK
<1>12. PICK d2, f2 :
         /\ Counted(ok, t, d, f, d2, f2)
         /\ delivered' = [delivered EXCEPT ![e] = d2] /\ failed' = [failed EXCEPT ![e] = f2]
  BY <1>7, <1>11 DEF Attempted, Counted
<1>13. Distinct(M) /\ Tale(M, n, t, a, d, f)
  BY <1>1, <1>5, <1>6, <1>7, <1>8, <1>11 DEF EmitInv
<1>14. \/ /\ ~(ok \/ t = 2) /\ phase' = [phase EXCEPT ![e] = "waiting"]
          /\ tries' = [tries EXCEPT ![e] = t + 1] /\ UNCHANGED <<pos, net>>
       \/ /\ ok \/ t = 2
          /\ n + 1 < Len(M) /\ pos' = [pos EXCEPT ![e] = n + 2]
          /\ tries' = [tries EXCEPT ![e] = 0] /\ phase' = phase
          /\ net' = net \cup {PostTo(e, M[n + 2], 0)}
       \/ /\ ok \/ t = 2
          /\ n + 1 = Len(M) /\ phase' = [phase EXCEPT ![e] = "done"]
          /\ UNCHANGED <<pos, tries, net>>
  <2>1. pos[e] + 1 = n + 2
    BY <1>8
  <2>2. \/ /\ ~Over(e, ok) /\ phase' = [phase EXCEPT ![e] = "waiting"]
           /\ tries' = [tries EXCEPT ![e] = @ + 1] /\ UNCHANGED <<pos, net>>
        \/ /\ Over(e, ok) /\ pos[e] < Len(matching[e])
           /\ pos' = [pos EXCEPT ![e] = @ + 1]
           /\ tries' = [tries EXCEPT ![e] = 0] /\ phase' = phase
           /\ net' = net \cup {PostTo(e, matching[e][pos[e] + 1], 0)}
        \/ /\ Over(e, ok) /\ pos[e] = Len(matching[e])
           /\ phase' = [phase EXCEPT ![e] = "done"] /\ UNCHANGED <<pos, tries, net>>
    BY DEF Attempted, Ends
  <2>3. QED
    BY <1>5, <1>7, <1>8, <2>1, <2>2 DEF Over
<1>15. matching'[e] = M /\ attempts'[e] = b /\ delivered'[e] = d2 /\ failed'[e] = f2
  BY <1>1, <1>3, <1>5, <1>10, <1>12 DEF WhTypeOK
<1>16. \A g \in Events : g # e => Same(g)
  BY <1>1, <1>3, <1>10, <1>12, <1>14 DEF WhTypeOK, Same
<1>17. \A r \in Subs : ToldIn(b, r) => \E p \in got' : p.event = e /\ p.sub = r
  <2>1. \A r \in Subs : ToldIn(a, r) => \E p \in got : p.event = e /\ p.sub = r
    BY <1>1, <1>6 DEF EmitInv
  <2>2. \A r \in Subs : ToldIn(b, r) => ToldIn(a, r) \/ (r = s /\ ok)
    BY <1>10, OneMoreTry
  <2>3. ok => \E p \in got : p.event = e /\ p.sub = s
    BY <1>9 DEF PostTo
  <2>4. QED
    BY <1>3, <2>1, <2>2, <2>3
<1>18. /\ Cardinality(TriesIn(a, s)) = t /\ Cardinality(TriesIn(b, s)) = t + 1
       /\ \A r \in Subs : r # s => TriesIn(b, r) = TriesIn(a, r)
  <2>1. n + 1 \in 1 .. Len(M)
    BY <1>8
  <2>2. Cardinality(TriesIn(a, s)) = t
    BY <1>9, <1>13, <2>1 DEF Tale
  <2>3. QED
    BY <1>10, <2>2, OneMoreTry
(* what the old posts of e say                                              *)
<1>19. ASSUME NEW p \in net \cup got, p.event = e
       PROVE  \E x \in 1 .. n + 1 :
                /\ x <= Len(M) /\ M[x] = p.sub
                /\ x = n + 1 => p.sub = s /\ p.try <= t
                /\ x <= n => p.sub \in Subs /\ p.sub # s
                               /\ p.try < Cardinality(TriesIn(a, p.sub))
  <2>1. PICK x \in 1 .. Len(M) :
          /\ M[x] = p.sub
          /\ \/ x <= n /\ p.try < Cardinality(TriesIn(a, p.sub))
             \/ x = n + 1 /\ p.try <= t
    BY <1>1, <1>5, <1>6, <1>7, <1>8, <1>19 DEF PostInv
  <2>2. x <= n => M[x] # s
    BY <1>8, <1>9, <1>13, <2>1 DEF Distinct
  <2>3. x \in 1 .. n + 1 /\ x <= Len(M) /\ M[x] \in Subs /\ (x = n + 1 => ~(x <= n))
    BY <1>8, <2>1
  <2>4. x = n + 1 => p.sub = s /\ p.try <= t
    BY <1>9, <2>1, <2>3
  <2>5. x <= n => p.sub \in Subs /\ p.sub # s /\ p.try < Cardinality(TriesIn(a, p.sub))
    <3>1. x <= n => x # n + 1
      BY <1>8, <2>1
    <3>2. QED
      BY <2>1, <2>2, <2>3, <3>1
  <2>6. QED
    BY <2>1, <2>3, <2>4, <2>5
<1>20. \A p \in net' \cup got' : p \in net \cup got \/ p.event = e
  BY <1>3, <1>14 DEF PostTo
<1>21. IsFiniteSet(net') /\ IsFiniteSet(got') /\ got \subseteq got'
  BY <1>1, <1>3, <1>14, FS_AddElement
<1>22. ASSUME EmitInv(e)', \A p \in net' \cup got' : p.event = e => PostInv(p)'
       PROVE  DeliveryInv'
  BY <1>1, <1>2, <1>4, <1>16, <1>20, <1>21, <1>22, OthersSame
<1>23. CASE /\ ~(ok \/ t = 2) /\ phase' = [phase EXCEPT ![e] = "waiting"]
            /\ tries' = [tries EXCEPT ![e] = t + 1] /\ UNCHANGED <<pos, net>>
  <2>1. phase'[e] = "waiting" /\ tries'[e] = t + 1 /\ pos'[e] = n + 1
    BY <1>1, <1>8, <1>23 DEF WhTypeOK
  <2>2. Through(e)' = n
    BY <1>8, <2>1 DEF Through
  <2>3. Tale(M, n, t + 1, b, d2, f2)
    <3>1. ~ok /\ d2 = d /\ f2 = f
      BY <1>12, <1>23 DEF Counted
    <3>2. n < Len(M) /\ t \in Nat /\ s = M[n + 1] /\ Tried(a, b, s, ok)
      BY <1>8, <1>9, <1>10
    <3>3. Tale(M, n, t + 1, b, d, f)
      BY <1>13, <3>1, <3>2, TaleRetry
    <3>4. QED
      BY <3>1, <3>3
  <2>4. n \in 0 .. Len(M) /\ n + 1 \in 1 .. Len(M)
    BY <1>8
  <2>5. EmitInv(e)'
    BY <1>13, <1>15, <1>17, <2>1, <2>2, <2>3, <2>4 DEF EmitInv
  <2>6. ASSUME NEW p \in net' \cup got', p.event = e PROVE PostInv(p)'
    <3>1. PICK x \in 1 .. n + 1 :
            /\ x <= Len(M) /\ M[x] = p.sub
            /\ x = n + 1 => p.sub = s /\ p.try <= t
            /\ x <= n => p.sub \in Subs /\ p.sub # s
                           /\ p.try < Cardinality(TriesIn(a, p.sub))
      BY <1>3, <1>19, <1>23, <2>6
    <3>2. x \in 1 .. Len(M) /\ (x <= n \/ x = n + 1)
      BY <1>8, <3>1
    <3>3. x <= n => p.try < Cardinality(TriesIn(b, p.sub))
      BY <1>18, <3>1
    <3>4. p \in Post
      BY <1>2 DEF WhTypeOK
    <3>5. p.try <= t => p.try <= t + 1
      BY <3>4 DEF Post
    <3>6. QED
      BY <1>15, <2>1, <2>2, <2>6, <3>1, <3>2, <3>3, <3>5 DEF PostInv
  <2>7. QED
    BY <1>22, <2>5, <2>6
<1>24. CASE /\ ok \/ t = 2
            /\ n + 1 < Len(M) /\ pos' = [pos EXCEPT ![e] = n + 2]
            /\ tries' = [tries EXCEPT ![e] = 0] /\ phase' = phase
            /\ net' = net \cup {PostTo(e, M[n + 2], 0)}
  <2>1. phase'[e] = "posting" /\ tries'[e] = 0 /\ pos'[e] = n + 2
    BY <1>1, <1>24 DEF WhTypeOK
  <2>2. Through(e)' = n + 1
    <3>1. Through(e)' = n + 2 - 1
      BY <2>1 DEF Through
    <3>2. QED
      BY <1>8, <3>1
  <2>3. Tale(M, n + 1, 0, b, d2, f2)
    <3>1. n < Len(M) /\ t \in Nat /\ s = M[n + 1] /\ Tried(a, b, s, ok)
      BY <1>8, <1>9, <1>10
    <3>2. Counted(ok, t, d, f, d2, f2) /\ (ok \/ t = 2)
      BY <1>12, <1>24
    <3>3. QED
      BY <1>13, <3>1, <3>2, TaleOver
  <2>4. n + 1 \in 0 .. Len(M) /\ n + 2 \in 1 .. Len(M)
    BY <1>8, <1>24
  <2>5. EmitInv(e)'
    BY <1>13, <1>15, <1>17, <2>1, <2>2, <2>3, <2>4 DEF EmitInv
  <2>6. ASSUME NEW p \in net' \cup got', p.event = e PROVE PostInv(p)'
    <3>1. CASE p \in net \cup got
      <4>1. PICK x \in 1 .. n + 1 :
              /\ x <= Len(M) /\ M[x] = p.sub
              /\ x = n + 1 => p.sub = s /\ p.try <= t
              /\ x <= n => p.sub \in Subs /\ p.sub # s
                             /\ p.try < Cardinality(TriesIn(a, p.sub))
        BY <1>19, <2>6, <3>1
      <4>2. x \in 1 .. Len(M) /\ (x <= n \/ x = n + 1) /\ x <= n + 1
        BY <1>8, <4>1
      <4>3. p \in Post
        BY <1>2 DEF WhTypeOK
      <4>4. p.try <= t => p.try < t + 1
        BY <4>3 DEF Post
      <4>5. p.try < Cardinality(TriesIn(b, p.sub))
        BY <1>18, <4>1, <4>2, <4>4
      <4>6. QED
        BY <1>15, <2>2, <2>6, <4>1, <4>2, <4>5 DEF PostInv
    <3>2. CASE p \notin net \cup got
      <4>1. p.sub = M[n + 2] /\ p.try = 0
        BY <1>3, <1>24, <3>2 DEF PostTo
      <4>2. n + 2 = n + 1 + 1
        BY <1>8
      <4>3. QED
        BY <1>15, <2>1, <2>2, <2>4, <2>6, <4>1, <4>2 DEF PostInv
    <3>3. QED
      BY <3>1, <3>2
  <2>7. QED
    BY <1>22, <2>5, <2>6
<1>25. CASE /\ ok \/ t = 2
            /\ n + 1 = Len(M) /\ phase' = [phase EXCEPT ![e] = "done"]
            /\ UNCHANGED <<pos, tries, net>>
  <2>1. phase'[e] = "done" /\ tries'[e] = t
    BY <1>1, <1>7, <1>25 DEF WhTypeOK
  <2>2. Through(e)' = n + 1
    BY <1>15, <1>25, <2>1 DEF Through
  <2>3. Tale(M, n + 1, t, b, d2, f2)
    <3>1. n < Len(M) /\ t \in Nat /\ s = M[n + 1] /\ Tried(a, b, s, ok)
      BY <1>8, <1>9, <1>10
    <3>2. Counted(ok, t, d, f, d2, f2) /\ (ok \/ t = 2)
      BY <1>12, <1>25
    <3>3. n + 1 < Len(M) => t = 0
      BY <1>8, <1>25
    <3>4. QED
      BY <1>13, <3>1, <3>2, <3>3, TaleOver
  <2>4. n + 1 \in 0 .. Len(M)
    BY <1>8, <1>25
  <2>5. EmitInv(e)'
    BY <1>13, <1>15, <1>17, <2>1, <2>2, <2>3, <2>4 DEF EmitInv
  <2>6. ASSUME NEW p \in net' \cup got', p.event = e PROVE PostInv(p)'
    <3>1. PICK x \in 1 .. n + 1 :
            /\ x <= Len(M) /\ M[x] = p.sub
            /\ x = n + 1 => p.sub = s /\ p.try <= t
            /\ x <= n => p.sub \in Subs /\ p.sub # s
                           /\ p.try < Cardinality(TriesIn(a, p.sub))
      BY <1>3, <1>19, <1>25, <2>6
    <3>2. x \in 1 .. Len(M) /\ (x <= n \/ x = n + 1) /\ x <= n + 1
      BY <1>8, <3>1
    <3>3. p \in Post
      BY <1>2 DEF WhTypeOK
    <3>4. p.try <= t => p.try < t + 1
      BY <3>3 DEF Post
    <3>5. p.try < Cardinality(TriesIn(b, p.sub))
      BY <1>18, <3>1, <3>2, <3>4
    <3>6. QED
      BY <1>15, <2>2, <2>6, <3>1, <3>2, <3>5 DEF PostInv
  <2>7. QED
    BY <1>22, <2>5, <2>6
<1>26. QED
  BY <1>14, <1>23, <1>24, <1>25
-----------------------------------------------------------------------------
(* The theorems                                                             *)

LEMMA DeliveryInit == WhInit => DeliveryInv
<1> SUFFICES ASSUME WhInit PROVE DeliveryInv
  OBVIOUS
<1>1. WhTypeOK
  <2>1. wants \in [Events -> SUBSET Subs] /\ signable \in [Events -> BOOLEAN]
    BY WebhookAssumption DEF WhInit
  <2>2. /\ subs \in Seq(Subs) /\ log \in Seq(Delivery) /\ taken \subseteq Subs
        /\ matching \in [Events -> Seq(Subs)]
        /\ attempts \in [Events -> Seq([sub : Subs, ok : BOOLEAN])]
    BY DEF WhInit
  <2>3. /\ phase \in [Events -> Phases] /\ pos \in [Events -> Nat \ {0}]
        /\ tries \in [Events -> 0 .. 2]
        /\ delivered \in [Events -> Nat] /\ failed \in [Events -> Nat]
        /\ net \subseteq Post /\ got \subseteq Post
    BY DEF WhInit, Phases
  <2>4. QED
    BY <2>1, <2>2, <2>3 DEF WhTypeOK
<1>2. ListInv
  BY DEF WhInit, ListInv, Distinct
<1>3. IsFiniteSet(net) /\ IsFiniteSet(got)
  BY FS_EmptySet DEF WhInit
<1>4. ASSUME NEW e \in Events PROVE EmitInv(e)
  <2>1. /\ phase[e] = "idle" /\ matching[e] = <<>> /\ pos[e] = 1 /\ tries[e] = 0
        /\ attempts[e] = <<>> /\ delivered[e] = 0 /\ failed[e] = 0
    BY DEF WhInit
  <2>2. Through(e) = 0
    BY <2>1 DEF Through
  <2>3. Tale(<<>>, 0, 0, <<>>, 0, 0)
    <3>1. <<>> \in Seq(Subs)
      OBVIOUS
    <3>2. QED
      BY <3>1, TaleStart
  <2>4. Distinct(<<>>) /\ \A s : ~ToldIn(<<>>, s)
    BY DEF Distinct, ToldIn, TriesIn
  <2>5. QED
    BY <2>1, <2>2, <2>3, <2>4 DEF EmitInv
<1>5. net \cup got = {}
  BY DEF WhInit
<1>6. QED
  BY <1>1, <1>2, <1>3, <1>4, <1>5 DEF DeliveryInv

LEMMA DeliveryNext == DeliveryInv /\ [WhNext]_whVars => DeliveryInv'
<1> SUFFICES ASSUME DeliveryInv, [WhNext]_whVars PROVE DeliveryInv'
  OBVIOUS
<1>1. ASSUME NEW s \in Subs, Subscribe(s) \/ Unsubscribe(s) PROVE DeliveryInv'
  BY <1>1, SubscriptionKeeps
<1>2. ASSUME NEW e \in Events, Emit(e) PROVE DeliveryInv'
  BY <1>2, EmitKeeps
<1>3. ASSUME NEW e \in Events, NEW ok \in BOOLEAN, Answered(e, ok) PROVE DeliveryInv'
  <2>1. Attempted(e, ok) /\ PostTo(e, Subscriber(e), tries[e]) \in got
    BY <1>3 DEF Answered
  <2>2. QED
    BY <2>1, AttemptedKeeps
<1>4. ASSUME NEW e \in Events, FetchRejects(e) PROVE DeliveryInv'
  <2>1. PICK ok \in BOOLEAN : ~ok /\ Attempted(e, ok)
    BY <1>4 DEF FetchRejects
  <2>2. QED
    BY <2>1, AttemptedKeeps
<1>5. ASSUME NEW e \in Events, Wake(e) PROVE DeliveryInv'
  BY <1>5, WakeKeeps
<1>6. ASSUME NEW p \in net, Receive(p) PROVE DeliveryInv'
  BY <1>6, ReceiveKeeps
<1>7. CASE UNCHANGED whVars
  <2>1. /\ UNCHANGED <<subs, taken, wants, signable, phase, matching, pos, tries>>
        /\ UNCHANGED <<attempts, delivered, failed, net, got, log>>
    BY <1>7 DEF whVars
  <2>2. WhTypeOK /\ ListInv /\ IsFiniteSet(net) /\ IsFiniteSet(got)
    BY DEF DeliveryInv
  <2>3. WhTypeOK' /\ ListInv'
    BY <2>1, <2>2 DEF WhTypeOK, ListInv, Distinct
  <2>4. (\A g \in Events : EmitInv(g)) /\ \A p \in net \cup got : PostInv(p)
    BY DEF DeliveryInv
  <2>5. QED
    BY <2>1, <2>2, <2>3, <2>4, AllSame
<1>8. QED
  BY <1>1, <1>2, <1>3, <1>4, <1>5, <1>6, <1>7 DEF WhNext, WhSettled

(* What emit has counted, posted and still has to tell fit together in      *)
(* every reachable state; the invariant has WhTypeOK as its first part.       *)
LEMMA DeliveryInductive == WhSpec => []DeliveryInv
BY DeliveryInit, DeliveryNext, PTL DEF WhSpec

LEMMA ToldFromAttempts ==
  ASSUME WhTypeOK, NEW e \in Events, NEW s
  PROVE  Told(e, s) <=> ToldIn(attempts[e], s)
<1>1. attempts[e] \in Seq(Attempt)
  BY DEF WhTypeOK, Attempt
<1>2. \A i \in DOMAIN attempts[e] :
        attempts[e][i] = [sub |-> s, ok |-> TRUE] <=> attempts[e][i].sub = s /\ attempts[e][i].ok
  <2>1. \A i \in DOMAIN attempts[e] : attempts[e][i] \in Attempt
    BY <1>1
  <2>2. \A x \in Attempt : x = [sub |-> s, ok |-> TRUE] <=> x.sub = s /\ x.ok
    BY DEF Attempt
  <2>3. QED
    BY <2>1, <2>2
<1>3. QED
  BY <1>2 DEF Told, ToldIn, TriesIn

(* Positions of a list without repetitions count its elements.              *)
LEMMA CountPositions ==
  ASSUME NEW S, NEW M \in Seq(S), Distinct(M), NEW P
  PROVE  Cardinality({s \in ToSet(M) : s \in P}) = Cardinality({x \in 1 .. Len(M) : M[x] \in P})
<1> DEFINE X == {x \in 1 .. Len(M) : M[x] \in P}
           Y == {s \in ToSet(M) : s \in P}
           h == [x \in X |-> M[x]]
<1>1. IsFiniteSet(X)
  <2>1. Len(M) \in Nat
    OBVIOUS
  <2>2. X \subseteq 1 .. Len(M)
    OBVIOUS
  <2>3. QED
    BY <2>1, <2>2, UpToFinite, FS_Subset
<1>2. h \in Bijection(X, Y)
  <2>1. ToSet(M) = {M[x] : x \in 1 .. Len(M)}
    BY DEF ToSet
  <2>2. h \in [X -> Y] /\ \A x, y \in X : h[x] = h[y] => x = y
    BY <2>1 DEF Distinct
  <2>3. \A s \in Y : \E x \in X : h[x] = s
    BY <2>1
  <2>4. QED
    BY <2>2, <2>3 DEF Bijection, Injection, Surjection, IsInjective
<1>3. ExistsBijection(X, Y)
  BY <1>2 DEF ExistsBijection
<1>4. QED
  BY <1>1, <1>3, FS_Bijection

(* NoSubscriberSkipped: when emit returns, every subscriber it matched was  *)
(* told or tried three times, and delivered and failed count exactly these, *)
(* whoever failed, subscribed or left meanwhile.                            *)
THEOREM NoneSkipped == WhSpec => []NoSubscriberSkipped
<1>1. ASSUME DeliveryInv PROVE NoSubscriberSkipped
  <2> SUFFICES ASSUME NEW e \in Events, phase[e] = "done"
               PROVE  LET M == ToSet(matching[e]) IN
                      /\ \A s \in M : Told(e, s) \/ Cardinality(TriesWith(e, s)) = 3
                      /\ delivered[e] = Cardinality({s \in M : Told(e, s)})
                      /\ failed[e] = Cardinality({s \in M : ~Told(e, s)})
    BY DEF NoSubscriberSkipped
  <2>1. PICK M \in Seq(Subs) : M = matching[e]
    BY <1>1 DEF DeliveryInv, WhTypeOK
  <2>2. WhTypeOK /\ EmitInv(e) /\ Through(e) = Len(M) /\ Distinct(M)
    BY <1>1, <2>1 DEF DeliveryInv, EmitInv, Through
  <2>3. Tale(M, Len(M), tries[e], attempts[e], delivered[e], failed[e])
    BY <2>1, <2>2 DEF EmitInv
  <2>4. ToSet(M) = {M[x] : x \in 1 .. Len(M)}
    BY DEF ToSet
  <2>5. \A s : Told(e, s) <=> ToldIn(attempts[e], s)
    BY <2>2, ToldFromAttempts
  <2>6. \A s \in ToSet(M) : Told(e, s) \/ Cardinality(TriesWith(e, s)) = 3
    <3>1. \A x \in 1 .. Len(M) : x <= Len(M)
      OBVIOUS
    <3>2. \A x \in 1 .. Len(M) : ToldIn(attempts[e], M[x])
                                   \/ Cardinality(TriesIn(attempts[e], M[x])) = 3
      BY <2>3, <3>1 DEF Tale
    <3>3. \A s : TriesWith(e, s) = TriesIn(attempts[e], s)
      BY DEF TriesWith, TriesIn
    <3>4. QED
      BY <2>4, <2>5, <3>2, <3>3
  <2> DEFINE P == {s \in ToSet(M) : Told(e, s)}
             Q == {s \in ToSet(M) : ~Told(e, s)}
  <2>7. delivered[e] = Cardinality(P)
    <3>1. {x \in 1 .. Len(M) : ToldIn(attempts[e], M[x])} = {x \in 1 .. Len(M) : M[x] \in P}
      BY <2>4, <2>5
    <3>2. {s \in ToSet(M) : s \in P} = P
      OBVIOUS
    <3>3. Cardinality({s \in ToSet(M) : s \in P}) = Cardinality({x \in 1 .. Len(M) : M[x] \in P})
      BY <2>2, CountPositions
    <3> HIDE DEF P
    <3>4. QED
      BY <2>3, <3>1, <3>2, <3>3 DEF Tale
  <2>8. failed[e] = Cardinality(Q)
    <3>1. {x \in 1 .. Len(M) : ~ToldIn(attempts[e], M[x])} = {x \in 1 .. Len(M) : M[x] \in Q}
      BY <2>4, <2>5
    <3>2. {s \in ToSet(M) : s \in Q} = Q
      OBVIOUS
    <3>3. Cardinality({s \in ToSet(M) : s \in Q}) = Cardinality({x \in 1 .. Len(M) : M[x] \in Q})
      BY <2>2, CountPositions
    <3> HIDE DEF Q
    <3>4. QED
      BY <2>3, <3>1, <3>2, <3>3 DEF Tale
  <2>9. QED
    BY <2>1, <2>6, <2>7, <2>8
<1>2. QED
  BY <1>1, DeliveryInductive, PTL

(* DeliveredWasReceived: no subscriber counts as notified that has not      *)
(* received the event, however answers and timeouts race.                   *)
THEOREM ToldReceived == WhSpec => []DeliveredWasReceived
<1>1. ASSUME DeliveryInv PROVE DeliveredWasReceived
  <2> SUFFICES ASSUME NEW e \in Events
               PROVE  /\ \A s \in Subs : Told(e, s) => \E p \in got : p.event = e /\ p.sub = s
                      /\ delivered[e] <= Cardinality({p.sub : p \in {q \in got : q.event = e}})
    BY DEF DeliveredWasReceived
  <2>1. WhTypeOK /\ EmitInv(e) /\ IsFiniteSet(got)
    BY <1>1 DEF DeliveryInv
  <2>2. \A s \in Subs : ToldIn(attempts[e], s) => \E p \in got : p.event = e /\ p.sub = s
    BY <2>1 DEF EmitInv
  <2>3. \A s \in Subs : Told(e, s) => \E p \in got : p.event = e /\ p.sub = s
    BY <2>1, <2>2, ToldFromAttempts
  <2> DEFINE G == {q \in got : q.event = e}
             R == {p.sub : p \in G}
  <2>4. IsFiniteSet(R) /\ Cardinality(R) \in Nat
    <3>1. IsFiniteSet(G)
      BY <2>1, FS_Subset
    <3>2. IsFiniteSet(R)
      <4>1. PICK h : h = [q \in G |-> q.sub]
        OBVIOUS
      <4>2. h \in Surjection(G, R)
        BY <4>1 DEF Surjection
      <4> HIDE DEF G, R
      <4>3. QED
        BY <3>1, <4>2, FS_Surjection
    <3>3. QED
      BY <3>2, FS_CardinalityType
  <2>5. delivered[e] <= Cardinality(R)
    <3>1. PICK M \in Seq(Subs) : M = matching[e]
      BY <2>1 DEF WhTypeOK
    <3>2. PICK n \in 0 .. Len(M) : n = Through(e)
      BY <2>1, <3>1 DEF EmitInv
    <3> DEFINE X == {x \in 1 .. n : ToldIn(attempts[e], M[x])}
    <3>3. Distinct(M) /\ delivered[e] = Cardinality(X)
      BY <2>1, <3>1, <3>2 DEF EmitInv, Tale
    <3> DEFINE h == [x \in X |-> M[x]]
    <3>4. h \in Injection(X, R)
      <4>1. \A x \in X : x \in 1 .. Len(M) /\ M[x] \in Subs
        BY <3>2
      <4>2. \A x \in X : M[x] \in R
        BY <2>2, <4>1
      <4>3. QED
        BY <3>3, <4>1, <4>2 DEF Injection, IsInjective, Distinct
    <3>5. Cardinality(X) <= Cardinality(R)
      <4> HIDE DEF X, R, h
      <4>1. QED
        BY <2>4, <3>4, FS_Injection
    <3>6. QED
      BY <3>3, <3>5
  <2>6. QED
    BY <2>3, <2>5
<1>2. QED
  BY <1>1, DeliveryInductive, PTL

(* OnlyFailuresRetried: a subscriber that answered 2xx is not posted the    *)
(* event again, and one that did not match is never posted to.              *)
THEOREM RetriesAfterFailure == WhSpec => []OnlyFailuresRetried
<1>1. ASSUME DeliveryInv PROVE OnlyFailuresRetried
  <2> SUFFICES ASSUME NEW p \in net \cup got
               PROVE  /\ Contains(matching[p.event], p.sub)
                      /\ \A i \in TriesWith(p.event, p.sub) :
                           attempts[p.event][i].ok =>
                             p.try < Cardinality({j \in TriesWith(p.event, p.sub) : j <= i})
    BY DEF OnlyFailuresRetried
  <2>1. WhTypeOK /\ PostInv(p) /\ p \in Post
    BY <1>1 DEF DeliveryInv, WhTypeOK
  <2>2. PICK e \in Events : e = p.event
    BY <2>1 DEF Post
  <2>3. EmitInv(e)
    BY <1>1 DEF DeliveryInv
  <2>4. PICK M \in Seq(Subs) : M = matching[e]
    BY <2>1 DEF WhTypeOK
  <2>5. PICK x \in 1 .. Len(M) :
          /\ M[x] = p.sub
          /\ \/ x <= Through(e) /\ p.try < Cardinality(TriesIn(attempts[e], p.sub))
             \/ x = Through(e) + 1 /\ phase[e] \in {"posting", "waiting"} /\ p.try <= tries[e]
    BY <2>1, <2>2, <2>4 DEF PostInv
  <2>6. Contains(M, p.sub)
    BY <2>5 DEF Contains
  <2>7. ASSUME NEW i \in TriesWith(e, p.sub), attempts[e][i].ok
        PROVE  p.try < Cardinality({j \in TriesWith(e, p.sub) : j <= i})
    <3>1. TriesWith(e, p.sub) = TriesIn(attempts[e], p.sub)
      BY DEF TriesWith, TriesIn
    <3>2. ToldIn(attempts[e], p.sub)
      BY <2>7, <3>1 DEF ToldIn
    <3>3. Tale(M, Through(e), tries[e], attempts[e], delivered[e], failed[e])
      BY <2>3, <2>4 DEF EmitInv
    <3>4. x # Through(e) + 1
      <4>1. x = Through(e) + 1 => ~ToldIn(attempts[e], M[x])
        BY <3>3 DEF Tale
      <4>2. QED
        BY <2>5, <3>2, <4>1
    <3>5. \A j \in TriesIn(attempts[e], M[x]) : j <= i
      <4>1. \A k, j \in TriesIn(attempts[e], M[x]) : attempts[e][k].ok => j <= k
        BY <3>3 DEF Tale
      <4>2. QED
        BY <2>5, <2>7, <3>1, <4>1
    <3>6. {j \in TriesWith(e, p.sub) : j <= i} = TriesIn(attempts[e], p.sub)
      BY <2>5, <3>1, <3>5
    <3>7. QED
      BY <2>5, <3>4, <3>6
  <2>8. QED
    BY <2>2, <2>4, <2>6, <2>7
<1>2. QED
  BY <1>1, DeliveryInductive, PTL
=============================================================================
