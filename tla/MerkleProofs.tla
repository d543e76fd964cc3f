---------------------------- MODULE MerkleProofs ----------------------------
(***************************************************************************)
(* What the two Merkle logs prove of an entry and of their own length, for *)
(* every number of entries: the trees, the lists of steps the logs hand    *)
(* out, the heads of the revocation log and the roots of the audit log.    *)
(***************************************************************************)
EXTENDS RevocationLog, AuditTrail, FiniteSetTheorems, WellFoundedInduction, TLAPS

LEMMA HasLeast ==
  ASSUME NEW S \in SUBSET Nat, S # {}
  PROVE  \E m \in S : \A n \in S : m <= n
<1> DEFINE R == {p \in Nat \X Nat : p[1] < p[2]}
<1>1. IsWellFoundedOn(R, Nat)
  BY NatLessThanWellFounded DEF OpToRel
<1>2. S \subseteq Nat /\ S # {}
  OBVIOUS
<1>3. \E m \in S : \A n \in S : ~(<<n, m>> \in R)
  <2> HIDE DEF R
  <2>1. QED
    BY <1>1, <1>2, WFMin, Zenon
<1>4. \E m \in S : \A n \in S : ~(n < m)
  BY <1>3
<1>5. QED
  BY <1>4

(* A list is known by its length and its elements                           *)
LEMMA ListOf ==
  ASSUME NEW m \in Nat, NEW s, s = [x \in 1 .. m |-> s[x]]
  PROVE  Len(s) = m
<1> DEFINE S == {s[x] : x \in 1 .. m}
<1>1. s \in [1 .. m -> S]
  OBVIOUS
<1>2. s \in Seq(S)
  BY <1>1
<1>3. DOMAIN s = 1 .. m /\ DOMAIN s = 1 .. Len(s) /\ Len(s) \in Nat
  BY <1>1, <1>2
<1>4. QED
  BY <1>3

LEMMA Terms ==
  /\ \A a, b, c : <<a>> # <<b, c>>
  /\ \A a, b : <<a>> = <<b>> => a = b
  /\ \A a, b, c, d : <<a, b>> = <<c, d>> => a = c /\ b = d
<1>1. \A a, b, c : <<a>> # <<b, c>>
  <2> SUFFICES ASSUME NEW a, NEW b, NEW c, <<a>> = <<b, c>> PROVE FALSE
    OBVIOUS
  <2>1. Len(<<a>>) = 1 /\ Len(<<b, c>>) = 2
    OBVIOUS
  <2>2. QED
    BY <2>1
<1>2. \A a, b : <<a>> = <<b>> => a = b
  OBVIOUS
<1>3. \A a, b, c, d : <<a, b>> = <<c, d>> => a = c /\ b = d
  OBVIOUS
<1>4. QED
  BY <1>1, <1>2, <1>3

(* LevelUp, place by place                                                  *)
LEMMA LevelAbove ==
  ASSUME NEW s, NEW rule, Len(s) \in Nat \ {0}
  PROVE  /\ Len(LevelUp(s, rule)) = (Len(s) + 1) \div 2
         /\ \A j \in 1 .. (Len(s) + 1) \div 2 :
              /\ 2 * j <= Len(s) => LevelUp(s, rule)[j] = <<s[2 * j - 1], s[2 * j]>>
              /\ 2 * j > Len(s) => 2 * j = Len(s) + 1 /\ LevelUp(s, rule)[j] = Odd(rule, s[2 * j - 1])
<1> DEFINE m == (Len(s) + 1) \div 2
           u == LevelUp(s, rule)
<1>1. m \in Nat /\ 2 * m <= Len(s) + 1 /\ Len(s) <= 2 * m
  OBVIOUS
<1>2. u = [j \in 1 .. m |-> IF 2 * j <= Len(s) THEN <<s[2 * j - 1], s[2 * j]>>
                            ELSE Odd(rule, s[2 * j - 1])]
  BY DEF LevelUp
<1>3. u = [j \in 1 .. m |-> u[j]]
  BY <1>2
<1>4. Len(u) = m
  <2> HIDE DEF m, u
  <2>1. QED
    BY <1>1, <1>3, ListOf
<1>5. \A j \in 1 .. m : 2 * j > Len(s) => 2 * j = Len(s) + 1
  <2> HIDE DEF m
  <2>1. QED
    BY <1>1
<1>6. \A j \in 1 .. m :
        u[j] = IF 2 * j <= Len(s) THEN <<s[2 * j - 1], s[2 * j]>> ELSE Odd(rule, s[2 * j - 1])
  BY <1>2
<1>7. /\ Len(u) = m
      /\ \A j \in 1 .. m :
           /\ 2 * j <= Len(s) => u[j] = <<s[2 * j - 1], s[2 * j]>>
           /\ 2 * j > Len(s) => 2 * j = Len(s) + 1 /\ u[j] = Odd(rule, s[2 * j - 1])
  <2> HIDE DEF m, u
  <2>1. \A j \in 1 .. m : 2 * j \in Nat
    BY <1>1
  <2>2. QED
    BY <1>4, <1>5, <1>6, <2>1
<1>8. QED
  BY <1>7

(* The recursive functions of MerkleTrees exist, and what each step yields. *)
RowStep(n, rule, f, k) == IF k = 0 THEN Leaves(n) ELSE LevelUp(f[k - 1], rule)
RowsTo(n, rule, h, f)  == f = [k \in 0 .. h |-> RowStep(n, rule, f, k)]
Rows(n, rule)          == CHOOSE f : RowsTo(n, rule, n, f)
TopRow(n, rule) ==
  CHOOSE h \in 0 .. n :
    Len(Rows(n, rule)[h]) <= 1 /\ \A g \in 0 .. h - 1 : Len(Rows(n, rule)[g]) > 1

LEMMA LevelsAreRows ==
  \A n, rule : Levels(n, rule) = [k \in 1 .. TopRow(n, rule) + 1 |-> Rows(n, rule)[k - 1]]
BY DEF Levels, TopRow, Rows, RowsTo, RowStep

LEMMA RowsExist ==
  ASSUME NEW n, NEW rule
  PROVE  \A h \in Nat : \E f : RowsTo(n, rule, h, f)
<1> DEFINE Bad == {h \in Nat : ~ \E f : RowsTo(n, rule, h, f)}
<1>1. SUFFICES ASSUME Bad # {} PROVE FALSE
  OBVIOUS
<1>2. PICK m \in Bad : \A h \in Bad : m <= h
  <2>1. Bad \in SUBSET Nat
    OBVIOUS
  <2> HIDE DEF Bad
  <2>2. QED
    BY <1>1, <2>1, HasLeast
<1>3. PICK f : m # 0 => RowsTo(n, rule, m - 1, f)
  <2>1. m # 0 => m - 1 \in Nat /\ m - 1 \notin Bad
    BY <1>2
  <2>2. QED
    BY <2>1
<1> DEFINE g == [k \in 0 .. m |-> RowStep(n, rule, f, k)]
<1>4. \A k \in 0 .. m : k # 0 => m # 0 /\ k - 1 \in 0 .. m - 1 /\ k - 1 \in 0 .. m
  BY <1>2
<1>5. \A k \in 0 .. m : k # 0 => g[k - 1] = f[k - 1]
  BY <1>3, <1>4 DEF RowsTo
<1>6. \A k \in 0 .. m : RowStep(n, rule, f, k) = RowStep(n, rule, g, k)
  <2> HIDE DEF g
  <2>1. QED
    BY <1>5 DEF RowStep
<1>7. RowsTo(n, rule, m, g)
  BY <1>6 DEF RowsTo
<1>8. QED
  BY <1>2, <1>7

LEMMA RowIs ==
  ASSUME NEW n \in Nat \ {0}, NEW rule
  PROVE  /\ Rows(n, rule)[0] = Leaves(n)
         /\ \A k \in 1 .. n : Rows(n, rule)[k] = LevelUp(Rows(n, rule)[k - 1], rule)
<1>1. RowsTo(n, rule, n, Rows(n, rule))
  BY RowsExist DEF Rows
<1>2. PICK f : f = Rows(n, rule)
  OBVIOUS
<1>3. \A k \in 0 .. n : f[k] = RowStep(n, rule, f, k)
  BY <1>1, <1>2 DEF RowsTo
<1>4. 0 \in 0 .. n /\ \A k \in 1 .. n : k \in 0 .. n /\ k # 0
  OBVIOUS
<1>5. f[0] = Leaves(n) /\ \A k \in 1 .. n : f[k] = LevelUp(f[k - 1], rule)
  BY <1>3, <1>4 DEF RowStep
<1>6. QED
  BY <1>2, <1>5

LEMMA RowShrinks ==
  ASSUME NEW n \in Nat \ {0}, NEW rule
  PROVE  \A k \in 0 .. n : Len(Rows(n, rule)[k]) \in Nat \ {0}
                           /\ (Len(Rows(n, rule)[k]) = 1 \/ Len(Rows(n, rule)[k]) <= n - k)
<1>1. PICK f : f = Rows(n, rule)
  OBVIOUS
<1> DEFINE Good(k) == Len(f[k]) \in Nat \ {0} /\ (Len(f[k]) = 1 \/ Len(f[k]) <= n - k)
           Bad == {k \in 0 .. n : ~Good(k)}
<1>2. SUFFICES ASSUME Bad # {} PROVE FALSE
  BY <1>1
<1>3. PICK m \in Bad : \A k \in Bad : m <= k
  <2>1. Bad \in SUBSET Nat
    OBVIOUS
  <2> HIDE DEF Bad
  <2>2. QED
    BY <1>2, <2>1, HasLeast
<1>4. m \in 0 .. n /\ ~Good(m)
  BY <1>3
<1>5. CASE m = 0
  <2>1. f[0] = [i \in 1 .. n |-> <<i>>]
    BY <1>1, RowIs DEF Leaves
  <2>2. Len(f[0]) = n
    BY <2>1, ListOf
  <2>3. QED
    BY <1>4, <1>5, <2>2
<1>6. CASE m # 0
  <2>1. m - 1 \in 0 .. n /\ m - 1 \notin Bad /\ m \in 1 .. n
    BY <1>3, <1>4, <1>6
  <2>2. Good(m - 1)
    BY <2>1
  <2>3. f[m] = LevelUp(f[m - 1], rule)
    BY <1>1, <2>1, RowIs
  <2>4. Len(f[m]) = (Len(f[m - 1]) + 1) \div 2
    BY <2>2, <2>3, LevelAbove
  <2>5. PICK w \in Nat \ {0} : w = Len(f[m - 1])
    BY <2>2
  <2>6. w = 1 \/ w <= n - m + 1
    BY <2>2, <2>5, <2>1
  <2>7. (w + 1) \div 2 \in Nat \ {0} /\ ((w + 1) \div 2 = 1 \/ (w + 1) \div 2 <= w - 1)
    OBVIOUS
  <2>8. (w + 1) \div 2 = 1 \/ (w + 1) \div 2 <= n - m
    BY <2>1, <2>6, <2>7
  <2>9. QED
    BY <1>4, <2>4, <2>5, <2>7, <2>8
<1>7. QED
  BY <1>5, <1>6

LEMMA TopRowIs ==
  ASSUME NEW n \in Nat \ {0}, NEW rule
  PROVE  /\ TopRow(n, rule) \in 0 .. n /\ Len(Rows(n, rule)[TopRow(n, rule)]) = 1
         /\ \A g \in 0 .. TopRow(n, rule) - 1 : Len(Rows(n, rule)[g]) > 1
<1>1. PICK f : f = Rows(n, rule)
  OBVIOUS
<1>2. \A k \in 0 .. n : Len(f[k]) \in Nat \ {0} /\ (Len(f[k]) = 1 \/ Len(f[k]) <= n - k)
  BY <1>1, RowShrinks
<1> DEFINE Single == {k \in 0 .. n : Len(f[k]) <= 1}
<1>3. n \in Single
  <2>1. n \in 0 .. n /\ n - n = 0
    OBVIOUS
  <2>2. PICK w \in Nat \ {0} : w = Len(f[n]) /\ (w = 1 \/ w <= 0)
    BY <1>2, <2>1
  <2>3. w = 1
    BY <2>2
  <2>4. Len(f[n]) <= 1
    <3>1. w <= 1
      BY <2>3
    <3>2. QED
      BY <2>2, <3>1
  <2>5. QED
    BY <2>1, <2>4
<1>4. PICK h \in Single : \A k \in Single : h <= k
  <2>1. Single \in SUBSET Nat /\ Single # {}
    BY <1>3
  <2> HIDE DEF Single
  <2>2. QED
    BY <2>1, HasLeast
<1>5. h \in 0 .. n /\ Len(f[h]) <= 1 /\ \A g \in 0 .. h - 1 : Len(f[g]) > 1
  <2>1. \A g \in 0 .. h - 1 : g \in 0 .. n /\ g \notin Single
    BY <1>4
  <2>2. QED
    BY <1>2, <1>4, <2>1
<1>6. PICK t : /\ t = TopRow(n, rule)
               /\ t \in 0 .. n /\ Len(f[t]) <= 1 /\ \A g \in 0 .. t - 1 : Len(f[g]) > 1
  BY <1>1, <1>5 DEF TopRow
<1>7. Len(f[t]) = 1
  <2>1. PICK w \in Nat \ {0} : w = Len(f[t])
    BY <1>2, <1>6
  <2>2. w <= 1
    BY <1>6, <2>1
  <2>3. w = 1
    BY <2>2
  <2>4. QED
    BY <2>1, <2>3
<1>8. QED
  BY <1>1, <1>6, <1>7

(* What is known of the levels L of a tree of n entries                     *)
Tree(L, n, rule) ==
  /\ Len(L) \in Nat \ {0}
  /\ L[1] = Leaves(n) /\ Len(L[1]) = n
  /\ \A k \in 1 .. Len(L) - 1 : L[k + 1] = LevelUp(L[k], rule)
  /\ \A k \in 1 .. Len(L) : Len(L[k]) \in Nat \ {0}
  /\ \A k \in 1 .. Len(L) - 1 : Len(L[k]) > 1
  /\ Len(L[Len(L)]) = 1

LEMMA LevelsAreTree ==
  ASSUME NEW n \in Nat \ {0}, NEW rule
  PROVE  Tree(Levels(n, rule), n, rule)
<1>1. PICK f : f = Rows(n, rule)
  OBVIOUS
<1>2. PICK h \in Nat : h = TopRow(n, rule)
  BY TopRowIs
<1>3. PICK L : L = Levels(n, rule)
  OBVIOUS
<1>4. h \in 0 .. n /\ L = [k \in 1 .. h + 1 |-> f[k - 1]]
  BY <1>1, <1>2, <1>3, LevelsAreRows, TopRowIs
<1>5. Len(L) = h + 1
  <2>1. L = [k \in 1 .. h + 1 |-> L[k]]
    BY <1>4
  <2>2. h + 1 \in Nat
    OBVIOUS
  <2>3. QED
    BY <2>1, <2>2, ListOf
<1>6. \A k \in 1 .. h + 1 : L[k] = f[k - 1] /\ k - 1 \in 0 .. n
  BY <1>4
<1>7. L[1] = Leaves(n) /\ Len(L[1]) = n
  <2>1. L[1] = Leaves(n)
    <3>1. 1 \in 1 .. h + 1 /\ 1 - 1 = 0
      OBVIOUS
    <3>2. QED
      BY <1>1, <1>6, <3>1, RowIs
  <2>2. Leaves(n) = [i \in 1 .. n |-> Leaves(n)[i]]
    BY DEF Leaves
  <2>3. QED
    BY <2>1, <2>2, ListOf
<1>8. \A k \in 1 .. h : L[k + 1] = LevelUp(L[k], rule)
  <2> SUFFICES ASSUME NEW k \in 1 .. h PROVE L[k + 1] = LevelUp(L[k], rule)
    OBVIOUS
  <2>1. k \in 1 .. n /\ k \in 1 .. h + 1 /\ k + 1 \in 1 .. h + 1 /\ (k + 1) - 1 = k
    BY <1>4
  <2>2. QED
    BY <1>1, <1>6, <2>1, RowIs
<1>9. \A k \in 1 .. h + 1 : Len(L[k]) \in Nat \ {0}
  BY <1>1, <1>6, RowShrinks
<1>10. \A k \in 1 .. h : Len(L[k]) > 1
  <2>1. \A k \in 1 .. h : k - 1 \in 0 .. h - 1 /\ k \in 1 .. h + 1
    OBVIOUS
  <2>2. QED
    BY <1>1, <1>2, <1>6, <2>1, TopRowIs
<1>11. Len(L[h + 1]) = 1
  <2>1. h + 1 \in 1 .. h + 1 /\ (h + 1) - 1 = h
    OBVIOUS
  <2>2. QED
    BY <1>1, <1>2, <1>6, <2>1, TopRowIs
<1>12. (h + 1) - 1 = h /\ h + 1 \in Nat \ {0}
  OBVIOUS
<1>13. QED
  BY <1>3, <1>5, <1>7, <1>8, <1>9, <1>10, <1>11, <1>12 DEF Tree

PlaceStep(i, f, k)  == IF k = 1 THEN i ELSE f[k - 1] \div 2
PlacesTo(i, h, f)   == f = [k \in 1 .. h |-> PlaceStep(i, f, k)]

LEMMA PlacesAre == \A i, L : Places(i, L) = CHOOSE f : PlacesTo(i, Len(L), f)
BY DEF Places, PlacesTo, PlaceStep

LEMMA PlacesExist ==
  ASSUME NEW i
  PROVE  \A h \in Nat : \E f : PlacesTo(i, h, f)
<1> DEFINE Bad == {h \in Nat : ~ \E f : PlacesTo(i, h, f)}
<1>1. SUFFICES ASSUME Bad # {} PROVE FALSE
  OBVIOUS
<1>2. PICK m \in Bad : \A h \in Bad : m <= h
  <2>1. Bad \in SUBSET Nat
    OBVIOUS
  <2> HIDE DEF Bad
  <2>2. QED
    BY <1>1, <2>1, HasLeast
<1>3. PICK f : m # 0 => PlacesTo(i, m - 1, f)
  <2>1. m # 0 => m - 1 \in Nat /\ m - 1 \notin Bad
    BY <1>2
  <2>2. QED
    BY <2>1
<1> DEFINE g == [k \in 1 .. m |-> PlaceStep(i, f, k)]
<1>4. \A k \in 1 .. m : k # 1 => m # 0 /\ k - 1 \in 1 .. m - 1 /\ k - 1 \in 1 .. m
  BY <1>2
<1>5. \A k \in 1 .. m : k # 1 => g[k - 1] = f[k - 1]
  BY <1>3, <1>4 DEF PlacesTo
<1>6. \A k \in 1 .. m : PlaceStep(i, f, k) = PlaceStep(i, g, k)
  <2> HIDE DEF g
  <2>1. QED
    BY <1>5 DEF PlaceStep
<1>7. PlacesTo(i, m, g)
  BY <1>6 DEF PlacesTo
<1>8. QED
  BY <1>2, <1>7

LEMMA PlaceIs ==
  ASSUME NEW i, NEW L, Len(L) \in Nat \ {0}
  PROVE  /\ Places(i, L)[1] = i
         /\ \A k \in 1 .. Len(L) - 1 : Places(i, L)[k + 1] = Places(i, L)[k] \div 2
<1>1. PlacesTo(i, Len(L), Places(i, L))
  BY PlacesExist, PlacesAre
<1>2. PICK f : f = Places(i, L)
  OBVIOUS
<1>3. \A k \in 1 .. Len(L) : f[k] = PlaceStep(i, f, k)
  BY <1>1, <1>2 DEF PlacesTo
<1>4. 1 \in 1 .. Len(L)
  OBVIOUS
<1>5. \A k \in 1 .. Len(L) - 1 : k + 1 \in 1 .. Len(L) /\ k + 1 # 1 /\ (k + 1) - 1 = k
  OBVIOUS
<1>6. f[1] = i /\ \A k \in 1 .. Len(L) - 1 : f[k + 1] = f[k] \div 2
  BY <1>3, <1>4, <1>5 DEF PlaceStep
<1>7. QED
  BY <1>2, <1>6

(* An entry's ancestors are in their levels.                                *)
LEMMA PlaceBound ==
  ASSUME NEW n \in Nat \ {0}, NEW rule, NEW L, Tree(L, n, rule), NEW i \in 0 .. n - 1
  PROVE  \A k \in 1 .. Len(L) : Places(i, L)[k] \in 0 .. Len(L[k]) - 1
<1>1. PICK f : f = Places(i, L)
  OBVIOUS
<1> DEFINE Bad == {k \in 1 .. Len(L) : f[k] \notin 0 .. Len(L[k]) - 1}
<1>2. SUFFICES ASSUME Bad # {} PROVE FALSE
  BY <1>1
<1>3. PICK m \in Bad : \A k \in Bad : m <= k
  <2>1. Bad \in SUBSET Nat
    BY DEF Tree
  <2> HIDE DEF Bad
  <2>2. QED
    BY <1>2, <2>1, HasLeast
<1>4. Len(L) \in Nat \ {0} /\ m \in 1 .. Len(L) /\ f[m] \notin 0 .. Len(L[m]) - 1
  BY <1>3 DEF Tree
<1>5. CASE m = 1
  BY <1>1, <1>4, <1>5, PlaceIs DEF Tree
<1>6. CASE m # 1
  <2>1. m - 1 \in 1 .. Len(L) - 1 /\ m - 1 \in 1 .. Len(L) /\ m - 1 \notin Bad /\ (m - 1) + 1 = m
    BY <1>3, <1>4, <1>6
  <2>2. f[m] = f[m - 1] \div 2
    BY <1>1, <1>4, <2>1, PlaceIs
  <2>3. PICK w \in Nat \ {0} : w = Len(L[m - 1])
    BY <2>1 DEF Tree
  <2>4. Len(L[m]) = (w + 1) \div 2
    <3>1. L[m] = LevelUp(L[m - 1], rule)
      BY <2>1 DEF Tree
    <3>2. QED
      BY <2>3, <3>1, LevelAbove
  <2>5. PICK j \in 0 .. w - 1 : j = f[m - 1]
    BY <2>1, <2>3
  <2>6. j \div 2 \in 0 .. ((w + 1) \div 2) - 1
    OBVIOUS
  <2>7. QED
    BY <1>4, <2>2, <2>4, <2>5, <2>6
<1>7. QED
  BY <1>5, <1>6

(* A path hashed step by step                                               *)
ClimbStep(i, path, f, t) == IF t = 0 THEN <<i + 1>> ELSE Hashed(f[t - 1], path[t])
ClimbsTo(i, path, h, f)  == f = [t \in 0 .. h |-> ClimbStep(i, path, f, t)]
Climb(i, path)           == CHOOSE f : ClimbsTo(i, path, Len(path), f)

LEMMA LeadsIsClimb == \A i, path, root : Leads(i, path, root) <=> Climb(i, path)[Len(path)] = root
BY DEF Leads, Climb, ClimbsTo, ClimbStep

LEMMA ClimbsExist ==
  ASSUME NEW i, NEW path
  PROVE  \A h \in Nat : \E f : ClimbsTo(i, path, h, f)
<1> DEFINE Bad == {h \in Nat : ~ \E f : ClimbsTo(i, path, h, f)}
<1>1. SUFFICES ASSUME Bad # {} PROVE FALSE
  OBVIOUS
<1>2. PICK m \in Bad : \A h \in Bad : m <= h
  <2>1. Bad \in SUBSET Nat
    OBVIOUS
  <2> HIDE DEF Bad
  <2>2. QED
    BY <1>1, <2>1, HasLeast
<1>3. PICK f : m # 0 => ClimbsTo(i, path, m - 1, f)
  <2>1. m # 0 => m - 1 \in Nat /\ m - 1 \notin Bad
    BY <1>2
  <2>2. QED
    BY <2>1
<1> DEFINE g == [t \in 0 .. m |-> ClimbStep(i, path, f, t)]
<1>4. \A t \in 0 .. m : t # 0 => m # 0 /\ t - 1 \in 0 .. m - 1 /\ t - 1 \in 0 .. m
  BY <1>2
<1>5. \A t \in 0 .. m : t # 0 => g[t - 1] = f[t - 1]
  BY <1>3, <1>4 DEF ClimbsTo
<1>6. \A t \in 0 .. m : ClimbStep(i, path, f, t) = ClimbStep(i, path, g, t)
  <2> HIDE DEF g
  <2>1. QED
    BY <1>5 DEF ClimbStep
<1>7. ClimbsTo(i, path, m, g)
  BY <1>6 DEF ClimbsTo
<1>8. QED
  BY <1>2, <1>7

LEMMA ClimbIs ==
  ASSUME NEW i, NEW path, Len(path) \in Nat
  PROVE  /\ Climb(i, path)[0] = <<i + 1>>
         /\ \A t \in 1 .. Len(path) : Climb(i, path)[t] = Hashed(Climb(i, path)[t - 1], path[t])
<1>1. ClimbsTo(i, path, Len(path), Climb(i, path))
  BY ClimbsExist DEF Climb
<1>2. PICK f : f = Climb(i, path)
  OBVIOUS
<1>3. \A t \in 0 .. Len(path) : f[t] = ClimbStep(i, path, f, t)
  BY <1>1, <1>2 DEF ClimbsTo
<1>4. 0 \in 0 .. Len(path) /\ \A t \in 1 .. Len(path) : t \in 0 .. Len(path) /\ t # 0
  OBVIOUS
<1>5. f[0] = <<i + 1>> /\ \A t \in 1 .. Len(path) : f[t] = Hashed(f[t - 1], path[t])
  BY <1>3, <1>4 DEF ClimbStep
<1>6. QED
  BY <1>2, <1>5

(* The lists of steps put one after the other                               *)
JoinStep(q, f, k) == IF k = 1 THEN q[k] ELSE f[k - 1] \o q[k]
JoinsTo(q, h, f)  == f = [k \in 1 .. h |-> JoinStep(q, f, k)]

LEMMA FlattenIsJoin ==
  \A q : Len(q) # 0 => FlattenSeq(q) = (CHOOSE f : JoinsTo(q, Len(q), f))[Len(q)]
BY DEF FlattenSeq, JoinsTo, JoinStep

LEMMA JoinsExist ==
  ASSUME NEW q
  PROVE  \A h \in Nat : \E f : JoinsTo(q, h, f)
<1> DEFINE Bad == {h \in Nat : ~ \E f : JoinsTo(q, h, f)}
<1>1. SUFFICES ASSUME Bad # {} PROVE FALSE
  OBVIOUS
<1>2. PICK m \in Bad : \A h \in Bad : m <= h
  <2>1. Bad \in SUBSET Nat
    OBVIOUS
  <2> HIDE DEF Bad
  <2>2. QED
    BY <1>1, <2>1, HasLeast
<1>3. PICK f : m # 0 => JoinsTo(q, m - 1, f)
  <2>1. m # 0 => m - 1 \in Nat /\ m - 1 \notin Bad
    BY <1>2
  <2>2. QED
    BY <2>1
<1> DEFINE g == [k \in 1 .. m |-> JoinStep(q, f, k)]
<1>4. \A k \in 1 .. m : k # 1 => m # 0 /\ k - 1 \in 1 .. m - 1 /\ k - 1 \in 1 .. m
  BY <1>2
<1>5. \A k \in 1 .. m : k # 1 => g[k - 1] = f[k - 1]
  BY <1>3, <1>4 DEF JoinsTo
<1>6. \A k \in 1 .. m : JoinStep(q, f, k) = JoinStep(q, g, k)
  <2> HIDE DEF g
  <2>1. QED
    BY <1>5 DEF JoinStep
<1>7. JoinsTo(q, m, g)
  BY <1>6 DEF JoinsTo
<1>8. QED
  BY <1>2, <1>7

(* Joining lists of at most one step: how many steps that makes, and which  *)
(* they are when every list has one                                         *)
Filled(q, k) == {m \in 1 .. k : Len(q[m]) = 1}

LEMMA OneMoreFilled ==
  ASSUME NEW q, NEW k \in Nat
  PROVE  /\ IsFiniteSet(Filled(q, k)) /\ Cardinality(Filled(q, k)) \in Nat
         /\ Len(q[k + 1]) = 1 => Cardinality(Filled(q, k + 1)) = Cardinality(Filled(q, k)) + 1
         /\ Len(q[k + 1]) # 1 => Filled(q, k + 1) = Filled(q, k)
<1>1. IsFiniteSet(1 .. k) /\ Filled(q, k) \subseteq 1 .. k
  BY FS_Interval DEF Filled
<1>2. IsFiniteSet(Filled(q, k)) /\ Cardinality(Filled(q, k)) \in Nat
  BY <1>1, FS_Subset, FS_CardinalityType
<1>3. \A m : m \in 1 .. k + 1 <=> m \in 1 .. k \/ m = k + 1
  OBVIOUS
<1>4. Len(q[k + 1]) = 1 => Filled(q, k + 1) = Filled(q, k) \cup {k + 1}
  BY <1>3 DEF Filled
<1>5. Len(q[k + 1]) # 1 => Filled(q, k + 1) = Filled(q, k)
  BY <1>3 DEF Filled
<1>6. k + 1 \notin Filled(q, k)
  BY DEF Filled
<1>7. Cardinality(Filled(q, k) \cup {k + 1}) = Cardinality(Filled(q, k)) + 1
  BY <1>2, <1>6, FS_AddElement
<1>8. QED
  BY <1>2, <1>4, <1>5, <1>7

LEMMA JoinedSteps ==
  ASSUME NEW S, NEW q \in Seq(Seq(S)), \A m \in 1 .. Len(q) : Len(q[m]) <= 1
  PROVE  /\ FlattenSeq(q) \in Seq(S)
         /\ Len(FlattenSeq(q)) = Cardinality(Filled(q, Len(q)))
         /\ (\A m \in 1 .. Len(q) : Len(q[m]) = 1) =>
              /\ Len(FlattenSeq(q)) = Len(q)
              /\ \A m \in 1 .. Len(q) : FlattenSeq(q)[m] = q[m][1]
<1> DEFINE n == Len(q)
<1>1. n \in Nat /\ \A m \in 1 .. n : q[m] \in Seq(S) /\ Len(q[m]) \in {0, 1}
  <2>1. n \in Nat /\ \A m \in 1 .. n : q[m] \in Seq(S)
    OBVIOUS
  <2>2. \A s \in Seq(S) : Len(s) \in Nat
    OBVIOUS
  <2>3. \A w \in Nat : w <= 1 => w \in {0, 1}
    OBVIOUS
  <2>4. QED
    BY <2>1, <2>2, <2>3
<1>2. CASE n = 0
  <2>1. FlattenSeq(q) = q /\ q = << >>
    BY <1>2 DEF FlattenSeq
  <2>2. Filled(q, n) = {}
    BY <1>2 DEF Filled
  <2>3. QED
    BY <1>2, <2>1, <2>2, FS_EmptySet
<1>3. CASE n # 0
  <2>1. PICK f : f = CHOOSE g : JoinsTo(q, n, g)
    OBVIOUS
  <2>2. JoinsTo(q, n, f)
    BY <1>1, <2>1, JoinsExist
  <2>3. FlattenSeq(q) = f[n]
    BY <1>3, <2>1, FlattenIsJoin
  <2>4. f[1] = q[1] /\ \A k \in 1 .. n - 1 : f[k + 1] = f[k] \o q[k + 1]
    <3>1. \A k \in 1 .. n : f[k] = JoinStep(q, f, k)
      BY <2>2 DEF JoinsTo
    <3>2. 1 \in 1 .. n /\ \A k \in 1 .. n - 1 : k + 1 \in 1 .. n /\ k + 1 # 1 /\ (k + 1) - 1 = k
      BY <1>1, <1>3
    <3>3. QED
      BY <3>1, <3>2 DEF JoinStep
  <2> DEFINE Good(k) == /\ f[k] \in Seq(S) /\ Len(f[k]) = Cardinality(Filled(q, k))
                        /\ (\A m \in 1 .. k : Len(q[m]) = 1) =>
                              Len(f[k]) = k /\ \A m \in 1 .. k : f[k][m] = q[m][1]
             Bad == {k \in 1 .. n : ~Good(k)}
  <2>5. Bad = {}
    <3>1. SUFFICES ASSUME Bad # {} PROVE FALSE
      OBVIOUS
    <3>2. PICK k \in Bad : \A m \in Bad : k <= m
      <4>1. Bad \in SUBSET Nat
        OBVIOUS
      <4> HIDE DEF Bad
      <4>2. QED
        BY <3>1, <4>1, HasLeast
    <3>3. k \in 1 .. n /\ ~Good(k)
      BY <3>2
    <3>4. CASE k = 1
      <4>1. f[1] = q[1] /\ 1 \in 1 .. n /\ q[1] \in Seq(S) /\ Len(q[1]) \in {0, 1}
        BY <1>1, <1>3, <2>4
      <4>2. Filled(q, 0) = {}
        BY DEF Filled
      <4>3. Cardinality(Filled(q, 1)) = Len(q[1])
        <5>1. 0 + 1 = 1 /\ 0 \in Nat
          OBVIOUS
        <5>2. /\ Len(q[1]) = 1 => Cardinality(Filled(q, 1)) = Cardinality(Filled(q, 0)) + 1
              /\ Len(q[1]) # 1 => Filled(q, 1) = Filled(q, 0)
          BY <5>1, OneMoreFilled
        <5>3. Cardinality(Filled(q, 0)) = 0
          BY <4>2, FS_EmptySet
        <5>4. CASE Len(q[1]) = 1
          BY <5>2, <5>3, <5>4
        <5>5. CASE Len(q[1]) = 0
          BY <5>2, <5>3, <5>5
        <5>6. QED
          BY <4>1, <5>4, <5>5
      <4>4. \A m \in 1 .. 1 : m = 1
        OBVIOUS
      <4>5. 1 \in 1 .. 1
        OBVIOUS
      <4>6. QED
        BY <3>3, <3>4, <4>1, <4>3, <4>4, <4>5
    <3>5. CASE k # 1
      <4>1. PICK j \in Nat : j + 1 = k /\ j \in 1 .. n - 1 /\ j \in 1 .. n /\ j \notin Bad
        <5>1. k - 1 \in Nat /\ (k - 1) + 1 = k /\ k - 1 \in 1 .. n - 1 /\ k - 1 \in 1 .. n /\ k - 1 \notin Bad
          BY <3>2, <3>3, <3>5
        <5>2. QED
          BY <5>1
      <4>2. Good(j)
        BY <4>1
      <4>3. f[k] = f[j] \o q[k]
        BY <2>4, <4>1
      <4>4. f[j] \in Seq(S) /\ q[k] \in Seq(S) /\ Len(q[k]) \in {0, 1}
        BY <1>1, <3>3, <4>2
      <4>5. PICK a, b : a = f[j] /\ b = q[k]
        OBVIOUS
      <4>6. /\ f[k] \in Seq(S) /\ Len(f[k]) = Len(a) + Len(b)
            /\ \A m \in 1 .. Len(a) : f[k][m] = a[m]
            /\ Len(b) = 1 => f[k][Len(a) + 1] = b[1]
        <5>1. a \in Seq(S) /\ b \in Seq(S) /\ f[k] = a \o b
          BY <4>3, <4>4, <4>5
        <5>2. a \o b \in Seq(S) /\ Len(a \o b) = Len(a) + Len(b)
          BY <5>1
        <5>3. \A m \in 1 .. Len(a) : (a \o b)[m] = a[m]
          BY <5>1
        <5>4. Len(b) = 1 => (a \o b)[Len(a) + 1] = b[1]
          <6>1. Len(a) \in Nat /\ Len(b) \in Nat
            BY <5>1
          <6>2. \A x \in 1 .. Len(a) + Len(b) : x > Len(a) => (a \o b)[x] = b[x - Len(a)]
            BY <5>1
          <6>3. /\ (Len(a) + 1) - Len(a) = 1 /\ Len(a) + 1 > Len(a)
                /\ Len(a) + 1 \in 1 .. Len(a) + 1
            BY <6>1
          <6>4. QED
            BY <6>2, <6>3
        <5>5. QED
          BY <5>1, <5>2, <5>3, <5>4
      <4>7. Len(f[k]) = Cardinality(Filled(q, k))
        <5>1. /\ Cardinality(Filled(q, j)) \in Nat
              /\ Len(q[k]) = 1 => Cardinality(Filled(q, k)) = Cardinality(Filled(q, j)) + 1
              /\ Len(q[k]) # 1 => Filled(q, k) = Filled(q, j)
          BY <4>1, OneMoreFilled
        <5>2. Len(a) = Cardinality(Filled(q, j))
          BY <4>2, <4>5
        <5>3. QED
          BY <4>4, <4>5, <4>6, <5>1, <5>2
      <4>8. ASSUME \A m \in 1 .. k : Len(q[m]) = 1
            PROVE  Len(f[k]) = k /\ \A m \in 1 .. k : f[k][m] = q[m][1]
        <5>1. /\ \A m \in 1 .. j : m \in 1 .. k
              /\ \A m \in 1 .. k : m \in 1 .. j \/ m = j + 1
              /\ k \in 1 .. k
          BY <3>3, <4>1
        <5>2. Len(a) = j /\ \A m \in 1 .. j : a[m] = q[m][1]
          BY <4>2, <4>5, <4>8, <5>1
        <5>3. Len(b) = 1
          BY <4>5, <4>8, <5>1
        <5>4. QED
          BY <4>1, <4>5, <4>6, <5>1, <5>2, <5>3
      <4>9. QED
        BY <3>3, <4>6, <4>7, <4>8
    <3>6. QED
      BY <3>4, <3>5
  <2>6. Good(n)
    BY <1>1, <1>3, <2>5
  <2>7. QED
    BY <2>3, <2>6
<1>4. QED
  BY <1>2, <1>3

LEMMA HashedIs == \A x, s : \E h : Hashed(x, s) = <<x, h>> \/ Hashed(x, s) = <<h, x>>
BY DEF Hashed

(* Place j of the level above level k, which has w nodes                    *)
Above(L, k, w, j) ==
  k \in 1 .. Len(L) - 1 /\ w \in Nat /\ w = Len(L[k]) /\ j \in Nat /\ j < (w + 1) \div 2

(* The node there and its children                                          *)
Branches(L, rule, k, w, j) ==
  /\ 2 * j < w
  /\ 2 * j + 1 < w => L[k + 1][j + 1] = <<L[k][2 * j + 1], L[k][2 * j + 2]>>
  /\ ~(2 * j + 1 < w) => 2 * j + 1 = w /\ L[k + 1][j + 1] = Odd(rule, L[k][2 * j + 1])

LEMMA NodeIs ==
  ASSUME NEW n \in Nat \ {0}, NEW rule, NEW L, Tree(L, n, rule), NEW k, NEW w, NEW j,
         Above(L, k, w, j)
  PROVE  Branches(L, rule, k, w, j)
<1>1. /\ k \in 1 .. Len(L) - 1 /\ w \in Nat /\ w = Len(L[k]) /\ j \in Nat
      /\ j < (w + 1) \div 2 /\ Len(L) \in Nat
  BY DEF Above, Tree
<1>2. PICK s : s = L[k] /\ Len(s) = w /\ w \in Nat \ {0} /\ L[k + 1] = LevelUp(s, rule)
  <2>1. k \in 1 .. Len(L)
    BY <1>1
  <2>2. QED
    BY <1>1, <2>1 DEF Tree
<1>3. PICK x : x = j + 1
  OBVIOUS
<1>4. /\ x \in 1 .. (w + 1) \div 2 /\ 2 * x - 1 = 2 * j + 1 /\ 2 * x = 2 * j + 2
      /\ 2 * j < w /\ (2 * j + 1 < w <=> 2 * x <= w)
      /\ (2 * x = w + 1 <=> 2 * j + 1 = w)
      /\ (~(2 * j + 1 < w) <=> 2 * x > w)
  <2>1. \A a, b \in Nat : b < (a + 1) \div 2 =>
          /\ b + 1 \in 1 .. (a + 1) \div 2 /\ 2 * (b + 1) - 1 = 2 * b + 1
          /\ 2 * (b + 1) = 2 * b + 2
          /\ 2 * b < a /\ (2 * b + 1 < a <=> 2 * (b + 1) <= a)
          /\ (2 * (b + 1) = a + 1 <=> 2 * b + 1 = a)
          /\ (~(2 * b + 1 < a) <=> 2 * (b + 1) > a)
    OBVIOUS
  <2>2. QED
    BY <1>1, <1>3, <2>1
<1>5. /\ 2 * x <= w => LevelUp(s, rule)[x] = <<s[2 * x - 1], s[2 * x]>>
      /\ 2 * x > w => 2 * x = w + 1 /\ LevelUp(s, rule)[x] = Odd(rule, s[2 * x - 1])
  <2>1. Len(s) \in Nat \ {0} /\ x \in 1 .. (Len(s) + 1) \div 2
    BY <1>2, <1>4
  <2>2. /\ 2 * x <= Len(s) => LevelUp(s, rule)[x] = <<s[2 * x - 1], s[2 * x]>>
        /\ 2 * x > Len(s) => 2 * x = Len(s) + 1 /\ LevelUp(s, rule)[x] = Odd(rule, s[2 * x - 1])
    BY <2>1, LevelAbove
  <2>3. QED
    BY <1>2, <2>2
<1>6. /\ 2 * j + 1 < w => L[k + 1][j + 1] = <<s[2 * j + 1], s[2 * j + 2]>>
      /\ ~(2 * j + 1 < w) => 2 * j + 1 = w /\ L[k + 1][j + 1] = Odd(rule, s[2 * j + 1])
  BY <1>2, <1>3, <1>4, <1>5
<1>7. QED
  BY <1>2, <1>4, <1>6 DEF Branches

LEMMA AboveIs ==
  ASSUME NEW n \in Nat \ {0}, NEW rule, NEW L, Tree(L, n, rule), NEW k \in 1 .. Len(L) - 1
  PROVE  \E w \in Nat \ {0} : /\ w = Len(L[k]) /\ Len(L[k + 1]) = (w + 1) \div 2
                             /\ (w + 1) \div 2 \in Nat \ {0}
                             /\ \A j \in Nat : j < (w + 1) \div 2 => Above(L, k, w, j)
<1>1. Len(L) \in Nat
  BY DEF Tree
<1>2. k \in 1 .. Len(L)
  BY <1>1
<1>3. PICK w \in Nat \ {0} : w = Len(L[k])
  BY <1>2 DEF Tree
<1>4. Len(L[k + 1]) = (w + 1) \div 2
  BY <1>3, LevelAbove DEF Tree
<1>5. (w + 1) \div 2 \in Nat \ {0}
  OBVIOUS
<1>6. \A j \in Nat : j < (w + 1) \div 2 => Above(L, k, w, j)
  BY <1>3 DEF Above
<1>7. QED
  BY <1>3, <1>4, <1>5, <1>6

LEMMA Halves ==
  \A j \in Nat :
    /\ (2 * j) \div 2 = j /\ (2 * j) % 2 = 0 /\ Sibling(2 * j) = 2 * j + 1
    /\ (2 * j + 1) \div 2 = j /\ (2 * j + 1) % 2 = 1 /\ Sibling(2 * j + 1) = 2 * j
<1>1. \A j \in Nat : /\ (2 * j) \div 2 = j /\ (2 * j) % 2 = 0
                     /\ (2 * j + 1) \div 2 = j /\ (2 * j + 1) % 2 = 1
                     /\ (2 * j + 1) - 1 = 2 * j
  OBVIOUS
<1>2. QED
  BY <1>1 DEF Sibling

(* The levels below k at which a path to the ancestor at places f hashes    *)
Merged(L, rule, f, k) == {m \in 1 .. k - 1 : rule = "doubled" \/ Sibling(f[m]) < Len(L[m])}

LEMMA OneMoreMerged ==
  ASSUME NEW L, NEW rule, NEW f, NEW k \in Nat \ {0}
  PROVE  /\ IsFiniteSet(Merged(L, rule, f, k)) /\ Cardinality(Merged(L, rule, f, k)) \in Nat
         /\ rule = "doubled" \/ Sibling(f[k]) < Len(L[k]) =>
              Cardinality(Merged(L, rule, f, k + 1)) = Cardinality(Merged(L, rule, f, k)) + 1
         /\ ~(rule = "doubled" \/ Sibling(f[k]) < Len(L[k])) =>
              Merged(L, rule, f, k + 1) = Merged(L, rule, f, k)
<1> DEFINE M == Merged(L, rule, f, k)
<1>1. IsFiniteSet(1 .. k - 1) /\ M \subseteq 1 .. k - 1
  <2>1. k - 1 \in Nat
    OBVIOUS
  <2>2. QED
    BY <2>1, FS_Interval DEF Merged
<1>2. IsFiniteSet(M) /\ Cardinality(M) \in Nat
  BY <1>1, FS_Subset, FS_CardinalityType
<1>3. \A m : m \in 1 .. (k + 1) - 1 <=> m \in 1 .. k - 1 \/ m = k
  OBVIOUS
<1>4. rule = "doubled" \/ Sibling(f[k]) < Len(L[k]) => Merged(L, rule, f, k + 1) = M \cup {k}
  BY <1>3 DEF Merged
<1>5. ~(rule = "doubled" \/ Sibling(f[k]) < Len(L[k])) => Merged(L, rule, f, k + 1) = M
  BY <1>3 DEF Merged
<1>6. k \notin M
  BY DEF Merged
<1>7. Cardinality(M \cup {k}) = Cardinality(M) + 1
  BY <1>2, <1>6, FS_AddElement
<1>8. QED
  BY <1>2, <1>4, <1>5, <1>7

(* A list of hashes that starts at the leaf of an entry and ends at a node  *)
(* of the tree ends at an ancestor of the entry, and has one step for every *)
(* level below it at which the tree hashes that ancestor.                   *)
LEMMA ClimbEnds ==
  ASSUME NEW n \in Nat \ {0}, NEW rule, NEW L, Tree(L, n, rule), NEW i \in 0 .. n - 1,
         NEW path, Len(path) \in Nat
  PROVE  \A k \in 1 .. Len(L) : \A t \in 0 .. Len(path) : \A j \in Nat :
           j < Len(L[k]) /\ Climb(i, path)[t] = L[k][j + 1] =>
             j = Places(i, L)[k] /\ t = Cardinality(Merged(L, rule, Places(i, L), k))
<1>1. PICK f : f = Places(i, L)
  OBVIOUS
<1>2. PICK c : c = Climb(i, path)
  OBVIOUS
<1>3. c[0] = <<i + 1>> /\ \A t \in 1 .. Len(path) : c[t] = Hashed(c[t - 1], path[t])
  BY <1>2, ClimbIs
<1>4. Len(L) \in Nat \ {0} /\ f[1] = i /\ \A k \in 1 .. Len(L) - 1 : f[k + 1] = f[k] \div 2
  BY <1>1, PlaceIs DEF Tree
<1> DEFINE Good(k) == \A t \in 0 .. Len(path) : \A j \in Nat :
                        j < Len(L[k]) /\ c[t] = L[k][j + 1] =>
                          j = f[k] /\ t = Cardinality(Merged(L, rule, f, k))
           Bad == {k \in 1 .. Len(L) : ~Good(k)}
<1>5. SUFFICES ASSUME Bad # {} PROVE FALSE
  BY <1>1, <1>2
<1>6. PICK m \in Bad : \A k \in Bad : m <= k
  <2>1. Bad \in SUBSET Nat
    OBVIOUS
  <2> HIDE DEF Bad
  <2>2. QED
    BY <1>5, <2>1, HasLeast
<1>7. m \in 1 .. Len(L) /\ ~Good(m)
  BY <1>6
<1>8. PICK t \in 0 .. Len(path), j \in Nat :
        /\ j < Len(L[m]) /\ c[t] = L[m][j + 1]
        /\ ~(j = f[m] /\ t = Cardinality(Merged(L, rule, f, m)))
  BY <1>7
<1>9. t # 0 => t - 1 \in 0 .. Len(path) /\ t \in 1 .. Len(path)
  OBVIOUS
<1>10. t # 0 => \E h : c[t] = <<c[t - 1], h>> \/ c[t] = <<h, c[t - 1]>>
  BY <1>3, <1>9, HashedIs
<1>11. CASE m = 1
  <2>1. j + 1 \in 1 .. n
    BY <1>8, <1>11 DEF Tree
  <2>2. L[1][j + 1] = <<j + 1>>
    BY <2>1 DEF Tree, Leaves
  <2>3. t = 0
    BY <1>8, <1>10, <1>11, <2>2, Terms
  <2>4. i + 1 = j + 1
    BY <1>3, <1>8, <1>11, <2>2, <2>3, Terms
  <2>5. Merged(L, rule, f, 1) = {}
    BY DEF Merged
  <2>6. Cardinality(Merged(L, rule, f, 1)) = 0
    BY <2>5, FS_EmptySet
  <2>7. i = j
    BY <2>4
  <2>8. QED
    BY <1>4, <1>8, <1>11, <2>3, <2>6, <2>7
<1>12. CASE m # 1
  <2>1. PICK k \in 1 .. Len(L) - 1 : k + 1 = m /\ k \in Nat \ {0} /\ Good(k)
    <3>1. m - 1 \in 1 .. Len(L) - 1 /\ (m - 1) + 1 = m /\ m - 1 \in Nat \ {0}
          /\ m - 1 \in 1 .. Len(L)
      BY <1>4, <1>7, <1>12
    <3>2. m - 1 \notin Bad
      <4> HIDE DEF Bad
      <4>1. QED
        BY <1>6, <1>7, <3>1
    <3>3. Good(m - 1)
      BY <3>1, <3>2
    <3>4. QED
      BY <3>1, <3>3
  <2>2. PICK w \in Nat \ {0} :
          /\ w = Len(L[k]) /\ Len(L[k + 1]) = (w + 1) \div 2
          /\ \A x \in Nat : x < (w + 1) \div 2 => Above(L, k, w, x)
    BY AboveIs
  <2>3. PICK x, y : x = L[k][2 * j + 1] /\ y = L[k][2 * j + 2]
    OBVIOUS
  <2>4. /\ 2 * j < w
        /\ 2 * j + 1 < w => L[m][j + 1] = <<x, y>>
        /\ ~(2 * j + 1 < w) => 2 * j + 1 = w /\ L[m][j + 1] = Odd(rule, x)
    <3>1. Above(L, k, w, j)
      <4>1. j < (w + 1) \div 2
        BY <1>8, <2>1, <2>2
      <4>2. QED
        BY <2>2, <4>1
    <3>2. Branches(L, rule, k, w, j)
      BY <3>1, NodeIs
    <3>3. QED
      BY <2>1, <2>3, <3>2 DEF Branches
  <2>5. f[m] = f[k] \div 2
    BY <1>4, <2>1
  <2>6. \A p \in 0 .. Len(path) :
          /\ c[p] = x => 2 * j = f[k] /\ p = Cardinality(Merged(L, rule, f, k))
          /\ 2 * j + 1 < w /\ c[p] = y =>
               2 * j + 1 = f[k] /\ p = Cardinality(Merged(L, rule, f, k))
    <3>1. 2 * j \in Nat /\ 2 * j + 1 \in Nat /\ (2 * j + 1) + 1 = 2 * j + 2
      OBVIOUS
    <3>2. QED
      BY <2>1, <2>2, <2>3, <2>4, <3>1
  <2>7. CASE L[m][j + 1] = <<x, y>> /\ 2 * j + 1 < w
    <3>1. t # 0
      BY <1>3, <1>8, <2>7, Terms
    <3>2. c[t - 1] = x \/ c[t - 1] = y
      <4>1. PICK h : c[t] = <<c[t - 1], h>> \/ c[t] = <<h, c[t - 1]>>
        BY <1>10, <3>1
      <4>2. c[t] = <<x, y>>
        BY <1>8, <2>7
      <4>3. QED
        BY <4>1, <4>2, Terms
    <3>3. (f[k] = 2 * j \/ f[k] = 2 * j + 1) /\ t - 1 = Cardinality(Merged(L, rule, f, k))
      BY <1>9, <2>6, <2>7, <3>1, <3>2
    <3>4. f[k] \div 2 = j /\ Sibling(f[k]) < w
      BY <2>4, <2>7, <3>3, Halves
    <3>5. Cardinality(Merged(L, rule, f, m)) = Cardinality(Merged(L, rule, f, k)) + 1
      BY <2>1, <2>2, <3>4, OneMoreMerged
    <3>6. QED
      BY <1>8, <2>5, <3>3, <3>4, <3>5
  <2>8. CASE ~(2 * j + 1 < w) /\ rule = "doubled"
    <3>1. L[m][j + 1] = <<x, x>>
      BY <2>4, <2>8 DEF Odd
    <3>2. t # 0
      BY <1>3, <1>8, <3>1, Terms
    <3>3. c[t - 1] = x
      BY <1>8, <1>10, <3>1, <3>2, Terms
    <3>4. f[k] = 2 * j /\ t - 1 = Cardinality(Merged(L, rule, f, k))
      BY <1>9, <2>6, <3>2, <3>3
    <3>5. f[k] \div 2 = j
      BY <3>4, Halves
    <3>6. Cardinality(Merged(L, rule, f, m)) = Cardinality(Merged(L, rule, f, k)) + 1
      BY <2>1, <2>8, OneMoreMerged
    <3>7. QED
      BY <1>8, <2>5, <3>4, <3>5, <3>6
  <2>9. CASE ~(2 * j + 1 < w) /\ rule # "doubled"
    <3>1. L[m][j + 1] = x /\ 2 * j + 1 = w
      BY <2>4, <2>9 DEF Odd
    <3>2. f[k] = 2 * j /\ t = Cardinality(Merged(L, rule, f, k))
      BY <1>8, <2>6, <3>1
    <3>3. f[k] \div 2 = j /\ Sibling(f[k]) = w
      BY <3>1, <3>2, Halves
    <3>4. ~(Sibling(f[k]) < w)
      BY <3>3
    <3>5. Merged(L, rule, f, m) = Merged(L, rule, f, k)
      BY <2>1, <2>2, <2>9, <3>4, OneMoreMerged
    <3>6. QED
      BY <1>8, <2>5, <3>2, <3>3, <3>5
  <2>10. QED
    BY <2>4, <2>7, <2>8, <2>9
<1>13. QED
  BY <1>11, <1>12

(* The other way round: with a step to the sibling at every level, the      *)
(* hashes are the ancestors up to the root.                                 *)
HasSibling(level, j)  == Sibling(j) < Len(level)
SiblingStep(level, j) == [hash |-> level[Sibling(j) + 1], side |-> Side(j)]

LEMMA HashUp ==
  ASSUME NEW n \in Nat \ {0}, NEW rule, NEW L, Tree(L, n, rule), NEW k \in 1 .. Len(L) - 1,
         NEW p \in Nat, p < Len(L[k]), HasSibling(L[k], p)
  PROVE  Hashed(L[k][p + 1], SiblingStep(L[k], p)) = L[k + 1][(p \div 2) + 1]
<1>1. PICK w \in Nat \ {0} : /\ w = Len(L[k])
                           /\ \A j \in Nat : j < (w + 1) \div 2 => Above(L, k, w, j)
  BY AboveIs
<1>2. PICK j \in Nat : j = p \div 2 /\ (p = 2 * j \/ p = 2 * j + 1)
  OBVIOUS
<1>3. p < w /\ Sibling(p) < w
  BY <1>1 DEF HasSibling
<1>4. 2 * j + 1 < w
  BY <1>2, <1>3, Halves
<1>5. Above(L, k, w, j)
  <2>1. \A a, b \in Nat : 2 * b + 1 < a => b < (a + 1) \div 2
    OBVIOUS
  <2>2. j < (w + 1) \div 2
    BY <1>4, <2>1
  <2>3. QED
    BY <1>1, <2>2
<1>6. Branches(L, rule, k, w, j)
  BY <1>5, NodeIs
<1>7. L[k + 1][j + 1] = <<L[k][2 * j + 1], L[k][2 * j + 2]>>
  BY <1>4, <1>6 DEF Branches
<1>8. PICK x, y : x = L[k][2 * j + 1] /\ y = L[k][2 * j + 2]
  OBVIOUS
<1>9. CASE p = 2 * j
  <2>1. Sibling(p) + 1 = 2 * j + 2 /\ Side(p) = "right"
    <3>1. (2 * j + 1) + 1 = 2 * j + 2
      OBVIOUS
    <3>2. QED
      BY <1>9, <3>1, Halves DEF Side
  <2>2. SiblingStep(L[k], p) = [hash |-> y, side |-> "right"]
    BY <1>8, <2>1 DEF SiblingStep
  <2>3. Hashed(x, SiblingStep(L[k], p)) = <<x, y>>
    BY <2>2 DEF Hashed
  <2>4. QED
    BY <1>2, <1>7, <1>8, <1>9, <2>3
<1>10. CASE p = 2 * j + 1
  <2>1. Sibling(p) + 1 = 2 * j + 1 /\ Side(p) = "left" /\ p + 1 = 2 * j + 2
    <3>1. (2 * j + 1) + 1 = 2 * j + 2
      OBVIOUS
    <3>2. QED
      BY <1>10, <3>1, Halves DEF Side
  <2>2. SiblingStep(L[k], p) = [hash |-> x, side |-> "left"]
    BY <1>8, <2>1 DEF SiblingStep
  <2>3. Hashed(y, SiblingStep(L[k], p)) = <<x, y>>
    BY <2>2 DEF Hashed
  <2>4. QED
    BY <1>2, <1>7, <1>8, <2>1, <2>3
<1>11. QED
  BY <1>2, <1>9, <1>10

(* The step a climb takes, and where it leads                               *)
Climbable(L, k, p) == p \in Nat /\ p < Len(L[k]) /\ HasSibling(L[k], p)
HashesUp(L, k, p)  == Hashed(L[k][p + 1], SiblingStep(L[k], p)) = L[k + 1][(p \div 2) + 1]

LEMMA HashesUpAll ==
  ASSUME NEW n \in Nat \ {0}, NEW rule, NEW L, Tree(L, n, rule)
  PROVE  \A k \in 1 .. Len(L) - 1 : \A p : Climbable(L, k, p) => HashesUp(L, k, p)
<1> SUFFICES ASSUME NEW k \in 1 .. Len(L) - 1, NEW p, Climbable(L, k, p)
             PROVE  HashesUp(L, k, p)
  OBVIOUS
<1>1. p \in Nat /\ p < Len(L[k]) /\ HasSibling(L[k], p)
  BY DEF Climbable
<1>2. Hashed(L[k][p + 1], SiblingStep(L[k], p)) = L[k + 1][(p \div 2) + 1]
  BY <1>1, HashUp
<1>3. QED
  BY <1>2 DEF HashesUp

LEMMA ClimbFollows ==
  ASSUME NEW n \in Nat \ {0}, NEW rule, NEW L, Tree(L, n, rule), NEW i \in 0 .. n - 1,
         NEW path, Len(path) = Len(L) - 1,
         \A k \in 1 .. Len(L) - 1 : /\ HasSibling(L[k], Places(i, L)[k])
                                    /\ path[k] = SiblingStep(L[k], Places(i, L)[k])
  PROVE  Leads(i, path, RootOf(L))
<1>1. PICK f : f = Places(i, L)
  OBVIOUS
<1>2. PICK c : c = Climb(i, path)
  OBVIOUS
<1>3. PICK h \in Nat : h = Len(path) /\ Len(L) = h + 1
  <2>1. Len(L) \in Nat \ {0}
    BY DEF Tree
  <2>2. Len(L) - 1 \in Nat /\ Len(L) = (Len(L) - 1) + 1
    BY <2>1
  <2>3. QED
    BY <2>2
<1>4. c[0] = <<i + 1>> /\ \A t \in 1 .. h : c[t] = Hashed(c[t - 1], path[t])
  BY <1>2, <1>3, ClimbIs
<1>5. f[1] = i /\ \A k \in 1 .. h : f[k + 1] = f[k] \div 2
  <2>1. Len(L) \in Nat \ {0} /\ Len(L) - 1 = h
    BY <1>3
  <2>2. QED
    BY <1>1, <2>1, PlaceIs
<1>6. \A k \in 1 .. h + 1 : Len(L[k]) \in Nat \ {0} /\ f[k] \in 0 .. Len(L[k]) - 1
  BY <1>1, <1>3, PlaceBound DEF Tree
<1>7. \A k \in 1 .. h : HasSibling(L[k], f[k]) /\ path[k] = SiblingStep(L[k], f[k])
  <2>1. Len(L) - 1 = h
    BY <1>3
  <2>2. QED
    BY <1>1, <2>1
<1> DEFINE Good(t) == c[t] = L[t + 1][f[t + 1] + 1]
           Bad == {t \in 0 .. h : ~Good(t)}
<1>8. Bad = {}
  <2>1. SUFFICES ASSUME Bad # {} PROVE FALSE
    OBVIOUS
  <2>2. PICK t \in Bad : \A s \in Bad : t <= s
    <3>1. Bad \in SUBSET Nat
      OBVIOUS
    <3> HIDE DEF Bad
    <3>2. QED
      BY <2>1, <3>1, HasLeast
  <2>3. t \in 0 .. h /\ ~Good(t)
    BY <2>2
  <2>4. CASE t = 0
    <3>1. i + 1 \in 1 .. n /\ L[1][i + 1] = <<i + 1>>
      BY DEF Tree, Leaves
    <3>2. 0 + 1 = 1
      OBVIOUS
    <3>3. QED
      BY <1>4, <1>5, <2>3, <2>4, <3>1, <3>2
  <2>5. CASE t # 0
    <3>1. t - 1 \in 0 .. h /\ t \in 1 .. h /\ (t - 1) + 1 = t /\ t \in 1 .. Len(L) - 1
          /\ t \in 1 .. h + 1 /\ t + 1 \in 1 .. h + 1
      BY <1>3, <2>3, <2>5
    <3>2. t - 1 \notin Bad
      <4> HIDE DEF Bad
      <4>1. QED
        BY <2>2, <2>3, <3>1
    <3>3. c[t - 1] = L[t][f[t] + 1]
      BY <3>1, <3>2
    <3>4. PICK w \in Nat, p \in Nat : w = Len(L[t]) /\ p = f[t] /\ p < w /\ HasSibling(L[t], p)
      <4>1. Len(L[t]) \in Nat \ {0} /\ f[t] \in 0 .. Len(L[t]) - 1
        BY <1>6, <3>1
      <4>2. PICK w \in Nat, p \in Nat : w = Len(L[t]) /\ p = f[t] /\ p < w
        BY <4>1
      <4>3. HasSibling(L[t], p)
        BY <1>7, <3>1, <4>2
      <4>4. QED
        BY <4>2, <4>3
    <3>5. Hashed(L[t][p + 1], SiblingStep(L[t], p)) = L[t + 1][(p \div 2) + 1]
      <4>1. Climbable(L, t, p)
        BY <3>4 DEF Climbable
      <4>2. t \in 1 .. Len(L) - 1
        BY <3>1
      <4>3. HashesUp(L, t, p)
        BY <4>1, <4>2, HashesUpAll
      <4>4. QED
        BY <4>3 DEF HashesUp
    <3>6. c[t] = Hashed(L[t][p + 1], SiblingStep(L[t], p))
      BY <1>4, <1>7, <3>1, <3>3, <3>4
    <3>7. f[t + 1] = p \div 2
      BY <1>5, <3>1, <3>4
    <3>8. QED
      BY <2>3, <3>5, <3>6, <3>7
  <2>6. QED
    BY <2>4, <2>5
<1>9. c[h] = L[h + 1][f[h + 1] + 1]
  <2>1. h \in 0 .. h
    OBVIOUS
  <2>2. QED
    BY <1>8, <2>1
<1>10. f[h + 1] = 0
  <2>1. Len(L[h + 1]) = 1 /\ h + 1 \in 1 .. h + 1
    BY <1>3 DEF Tree
  <2>2. f[h + 1] \in 0 .. 1 - 1
    BY <1>6, <2>1
  <2>3. QED
    BY <2>2
<1>11. c[h] = RootOf(L)
  <2>1. 0 + 1 = 1
    OBVIOUS
  <2>2. QED
    BY <1>3, <1>9, <1>10, <2>1 DEF RootOf
<1>12. QED
  BY <1>2, <1>3, <1>11, LeadsIsClimb

(* A list that leads to the root has one step for every level at which the  *)
(* tree hashes the entry's ancestor.                                        *)
LEMMA LeadsCounts ==
  ASSUME NEW n \in Nat \ {0}, NEW rule, NEW L, Tree(L, n, rule), NEW i \in 0 .. n - 1,
         NEW path, Len(path) \in Nat, Leads(i, path, RootOf(L))
  PROVE  Len(path) = Cardinality(Merged(L, rule, Places(i, L), Len(L)))
<1>1. Climb(i, path)[Len(path)] = L[Len(L)][0 + 1]
  <2>1. 0 + 1 = 1
    OBVIOUS
  <2>2. QED
    BY <2>1, LeadsIsClimb DEF RootOf
<1>2. Len(L) \in 1 .. Len(L) /\ 0 < Len(L[Len(L)]) /\ 0 \in Nat /\ Len(path) \in 0 .. Len(path)
  BY DEF Tree
<1>3. QED
  BY <1>1, <1>2, ClimbEnds

(* Lists of at most one step, and their join                                *)
Short(s)      == s = << >> \/ \E x : s = <<x>>
ShortOnes(q, h) == q = [m \in 1 .. h |-> q[m]] /\ \A m \in 1 .. h : Short(q[m])

LEMMA ShortJoin ==
  ASSUME NEW h \in Nat, NEW q, ShortOnes(q, h)
  PROVE  /\ Len(FlattenSeq(q)) = Cardinality(Filled(q, h)) /\ Len(FlattenSeq(q)) \in Nat
         /\ (\A m \in 1 .. h : Len(q[m]) = 1) =>
              Len(FlattenSeq(q)) = h /\ \A m \in 1 .. h : FlattenSeq(q)[m] = q[m][1]
<1> DEFINE S == {q[m][1] : m \in 1 .. h}
<1>1. \A m \in 1 .. h : q[m] \in Seq(S) /\ Len(q[m]) <= 1
  <2>1. SUFFICES ASSUME NEW m \in 1 .. h PROVE q[m] \in Seq(S) /\ Len(q[m]) <= 1
    OBVIOUS
  <2>2. CASE q[m] = << >>
    BY <2>2
  <2>3. CASE q[m] # << >>
    <3>1. PICK x : q[m] = <<x>>
      BY <2>3 DEF ShortOnes, Short
    <3>2. x \in S
      BY <3>1
    <3>3. QED
      BY <3>1, <3>2
  <2>4. QED
    BY <2>2, <2>3
<1>2. q \in Seq(Seq(S)) /\ Len(q) = h
  <2>1. q = [m \in 1 .. h |-> q[m]]
    BY DEF ShortOnes
  <2>2. Len(q) = h
    BY <2>1, ListOf
  <2> HIDE DEF S
  <2>3. q \in [1 .. h -> Seq(S)]
    BY <1>1, <2>1
  <2>4. QED
    BY <2>2, <2>3
<1>3. FlattenSeq(q) \in Seq(S) => Len(FlattenSeq(q)) \in Nat
  OBVIOUS
<1>4. QED
  <2> HIDE DEF S
  <2>1. QED
    BY <1>1, <1>2, <1>3, JoinedSteps

(* A node without sibling is the odd last one of its level.                 *)
LEMMA OddLast ==
  ASSUME NEW w \in Nat \ {0}, NEW p \in 0 .. w - 1
  PROVE  ~(Sibling(p) < w) <=> w % 2 = 1 /\ p = w - 1
<1>1. \A j \in Nat : (2 * j) % 2 = 0 /\ (2 * j + 1) % 2 = 1
  OBVIOUS
<1>2. p % 2 = 0 \/ p % 2 = 1
  OBVIOUS
<1>3. QED
  BY <1>2 DEF Sibling

LEMMA OddAncestorIs ==
  ASSUME NEW n \in Nat \ {0}, NEW rule, NEW L, Tree(L, n, rule), NEW i \in 0 .. n - 1
  PROVE  HasOddAncestor(i, L) <=>
           \E k \in 1 .. Len(L) - 1 : ~HasSibling(L[k], Places(i, L)[k])
<1>1. ASSUME NEW k \in 1 .. Len(L) - 1
      PROVE  ~HasSibling(L[k], Places(i, L)[k]) <=>
               Len(L[k]) % 2 = 1 /\ Places(i, L)[k] = Len(L[k]) - 1
  <2>1. k \in 1 .. Len(L)
    BY DEF Tree
  <2>2. PICK w \in Nat \ {0} : w = Len(L[k])
    BY <2>1 DEF Tree
  <2>3. PICK p \in 0 .. w - 1 : p = Places(i, L)[k]
    BY <2>1, <2>2, PlaceBound
  <2>4. ~(Sibling(p) < w) <=> w % 2 = 1 /\ p = w - 1
    BY OddLast
  <2>5. QED
    BY <2>2, <2>3, <2>4 DEF HasSibling
<1>2. QED
  BY <1>1 DEF HasOddAncestor

(* The steps the two logs take                                              *)
LEMMA StepToIs ==
  \A level, j : /\ HasSibling(level, j) => StepTo(level, j) = <<SiblingStep(level, j)>>
                /\ ~HasSibling(level, j) => StepTo(level, j) = << >>
BY DEF HasSibling, StepTo, SiblingStep

LEMMA StepOrNextIs ==
  \A level, next, j :
    /\ Short(StepOrNext(level, next, j))
    /\ HasSibling(level, j) => StepOrNext(level, next, j) = <<SiblingStep(level, j)>>
    /\ HasSibling(next, j \div 2) => Len(StepOrNext(level, next, j)) = 1
<1> TAKE level, next, j
<1>1. CASE HasSibling(level, j)
  <2>1. StepOrNext(level, next, j) = <<SiblingStep(level, j)>>
    BY <1>1, StepToIs DEF StepOrNext, HasSibling
  <2>2. QED
    BY <1>1, <2>1 DEF Short
<1>2. CASE ~HasSibling(level, j)
  <2>1. CASE HasSibling(next, j \div 2)
    <3>1. \E x : StepOrNext(level, next, j) = <<x>>
      BY <1>2, <2>1 DEF StepOrNext, HasSibling
    <3>2. QED
      BY <1>2, <3>1 DEF Short
  <2>2. CASE ~HasSibling(next, j \div 2)
    <3>1. StepOrNext(level, next, j) = << >>
      BY <1>2, <2>2 DEF StepOrNext, HasSibling
    <3>2. QED
      BY <1>2, <2>2, <3>1 DEF Short
  <2>3. QED
    BY <2>1, <2>2
<1>3. QED
  BY <1>1, <1>2

(* A proper part of a finite set has fewer elements.                        *)
LEMMA FewerIn ==
  ASSUME NEW B, IsFiniteSet(B), NEW A \in SUBSET B, NEW x \in B, x \notin A
  PROVE  Cardinality(A) # Cardinality(B)
BY FS_Subset

LEMMA TreeHeight ==
  ASSUME NEW n, NEW rule, NEW L, Tree(L, n, rule)
  PROVE  \E h \in Nat : h = Len(L) - 1 /\ Len(L) = h + 1
<1>1. PICK w \in Nat \ {0} : w = Len(L)
  BY DEF Tree
<1>2. w - 1 \in Nat /\ w = (w - 1) + 1
  OBVIOUS
<1>3. QED
  BY <1>1, <1>2

LEMMA OneLong == \A x : Len(<<x>>) = 1 /\ <<x>>[1] = x
OBVIOUS

LEMMA AllPaired ==
  ASSUME NEW n \in Nat \ {0}, NEW rule, NEW L, Tree(L, n, rule), NEW i \in 0 .. n - 1,
         ~HasOddAncestor(i, L), NEW q, ShortOnes(q, Len(L) - 1),
         \A k \in 1 .. Len(L) - 1 : HasSibling(L[k], Places(i, L)[k]) =>
           q[k] = <<SiblingStep(L[k], Places(i, L)[k])>>
  PROVE  Leads(i, FlattenSeq(q), RootOf(L))
<1>1. PICK h \in Nat : h = Len(L) - 1 /\ Len(L) = h + 1
  BY TreeHeight
<1>2. \A k \in 1 .. h : HasSibling(L[k], Places(i, L)[k])
  BY <1>1, OddAncestorIs
<1>3. \A k \in 1 .. h : q[k] = <<SiblingStep(L[k], Places(i, L)[k])>>
  BY <1>1, <1>2
<1>4. Len(FlattenSeq(q)) = h /\ \A k \in 1 .. h : FlattenSeq(q)[k] = q[k][1]
  <2>1. \A k \in 1 .. h : Len(q[k]) = 1
    BY <1>3, OneLong
  <2>2. QED
    BY <1>1, <2>1, ShortJoin
<1>5. \A k \in 1 .. h : FlattenSeq(q)[k] = SiblingStep(L[k], Places(i, L)[k])
  BY <1>3, <1>4, OneLong
<1>6. QED
  BY <1>1, <1>2, <1>4, <1>5, ClimbFollows

(* The list leads to the root only if it has as many steps as the tree      *)
(* hashes the entry's ancestors.                                            *)
LEMMA StepsMatch ==
  ASSUME NEW n \in Nat \ {0}, NEW rule, NEW L, Tree(L, n, rule), NEW i \in 0 .. n - 1,
         NEW q, ShortOnes(q, Len(L) - 1), Leads(i, FlattenSeq(q), RootOf(L))
  PROVE  Cardinality(Filled(q, Len(L) - 1)) = Cardinality(Merged(L, rule, Places(i, L), Len(L)))
<1>1. PICK h \in Nat : h = Len(L) - 1 /\ Len(L) = h + 1
  BY TreeHeight
<1>2. Len(FlattenSeq(q)) = Cardinality(Filled(q, h)) /\ Len(FlattenSeq(q)) \in Nat
  BY <1>1, ShortJoin
<1>3. QED
  BY <1>1, <1>2, LeadsCounts

(* The audit log leaves out the step of an odd last node, which its tree    *)
(* hashes with itself.                                                      *)
LEMMA AuditPathLeads ==
  ASSUME NEW n \in Nat \ {0}, NEW L, Tree(L, n, "doubled"), NEW i \in 0 .. n - 1
  PROVE  Leads(i, AuditPath(i, L), RootOf(L)) <=> ~HasOddAncestor(i, L)
<1>1. PICK h \in Nat : h = Len(L) - 1 /\ Len(L) = h + 1
  BY TreeHeight
<1>2. PICK q : q = [k \in 1 .. h |-> StepTo(L[k], Places(i, L)[k])]
  OBVIOUS
<1>3. AuditPath(i, L) = FlattenSeq(q)
  BY <1>1, <1>2 DEF AuditPath
<1>4. ShortOnes(q, h)
  BY <1>2, StepToIs DEF ShortOnes, Short
<1>5. ASSUME ~HasOddAncestor(i, L) PROVE Leads(i, AuditPath(i, L), RootOf(L))
  <2>1. \A k \in 1 .. h : HasSibling(L[k], Places(i, L)[k]) =>
          q[k] = <<SiblingStep(L[k], Places(i, L)[k])>>
    BY <1>2, StepToIs
  <2>2. QED
    BY <1>1, <1>3, <1>4, <1>5, <2>1, AllPaired
<1>6. ASSUME HasOddAncestor(i, L), Leads(i, AuditPath(i, L), RootOf(L)) PROVE FALSE
  <2>1. PICK k \in 1 .. h : ~HasSibling(L[k], Places(i, L)[k])
    BY <1>1, <1>6, OddAncestorIs
  <2>2. q[k] = << >>
    BY <1>2, <2>1, StepToIs
  <2>3. Merged(L, "doubled", Places(i, L), Len(L)) = 1 .. h
    BY <1>1 DEF Merged
  <2>4. Filled(q, h) \in SUBSET (1 .. h) /\ k \notin Filled(q, h)
    <3>1. Len(q[k]) # 1
      BY <2>2
    <3>2. QED
      BY <3>1 DEF Filled
  <2>5. IsFiniteSet(1 .. h)
    BY FS_Interval
  <2>6. Cardinality(Filled(q, h)) # Cardinality(1 .. h)
    BY <2>1, <2>4, <2>5, FewerIn
  <2>7. QED
    BY <1>1, <1>3, <1>4, <1>6, <2>3, <2>6, StepsMatch
<1>7. QED
  BY <1>5, <1>6

(* Among levels one of which is odd at the entry's ancestor, the topmost    *)
LEMMA TopmostOdd ==
  ASSUME NEW h \in Nat, NEW S \in SUBSET (1 .. h), S # {}
  PROVE  \E k \in S : \A m \in S : m <= k
<1> DEFINE R == {r \in Nat : \E k \in S : r = h - k}
<1>1. R \in SUBSET Nat /\ R # {}
  <2>1. PICK k \in S : TRUE
    OBVIOUS
  <2>2. h - k \in Nat
    OBVIOUS
  <2>3. h - k \in R
    BY <2>2
  <2>4. QED
    BY <2>3
<1>2. PICK r \in R : \A s \in R : r <= s
  <2> HIDE DEF R
  <2>1. QED
    BY <1>1, HasLeast
<1>3. PICK k \in S : r = h - k
  BY <1>2
<1>4. ASSUME NEW m \in S PROVE m <= k
  <2>1. h - m \in Nat
    OBVIOUS
  <2>2. h - m \in R
    BY <2>1
  <2>3. h - k <= h - m /\ m \in Nat /\ k \in Nat
    <3>1. \A s \in R : h - k <= s
      BY <1>2, <1>3
    <3> HIDE DEF R
    <3>2. QED
      BY <2>2, <3>1
  <2>4. QED
    BY <2>3
<1>5. QED
  BY <1>4

(* The parent of an odd last node is the last of the next level, which is   *)
(* not the root.                                                            *)
LEMMA AboveOdd ==
  ASSUME NEW n \in Nat \ {0}, NEW rule, NEW L, Tree(L, n, rule), NEW i \in 0 .. n - 1,
         NEW k \in 1 .. Len(L) - 1, ~HasSibling(L[k], Places(i, L)[k])
  PROVE  k + 1 \in 1 .. Len(L) - 1
<1>1. k \in 1 .. Len(L) /\ k + 1 \in 1 .. Len(L) /\ Len(L) \in Nat /\ k \in Nat
  <2>1. PICK h \in Nat : h = Len(L) - 1 /\ Len(L) = h + 1
    BY TreeHeight
  <2>2. QED
    BY <2>1
<1>2. PICK w \in Nat \ {0} : w = Len(L[k])
  BY <1>1 DEF Tree
<1>3. PICK p \in 0 .. w - 1 : p = Places(i, L)[k]
  BY <1>1, <1>2, PlaceBound
<1>4. w % 2 = 1
  <2>1. ~(Sibling(p) < w)
    BY <1>2, <1>3 DEF HasSibling
  <2>2. QED
    BY <2>1, OddLast
<1>5. w > 1
  BY <1>2 DEF Tree
<1>6. (w + 1) \div 2 > 1
  BY <1>4, <1>5
<1>7. Len(L[k + 1]) = (w + 1) \div 2
  <2>1. PICK v \in Nat \ {0} : v = Len(L[k]) /\ Len(L[k + 1]) = (v + 1) \div 2
    BY AboveIs
  <2>2. QED
    BY <1>2, <2>1
<1>8. k + 1 # Len(L)
  <2>1. Len(L[Len(L)]) = 1
    BY DEF Tree
  <2>2. Len(L[k + 1]) # 1
    <3>1. \A a \in Int : a > 1 => a # 1
      OBVIOUS
    <3>2. (w + 1) \div 2 \in Int
      OBVIOUS
    <3>3. QED
      BY <1>6, <1>7, <3>1, <3>2
  <2>3. QED
    BY <2>1, <2>2
<1>9. QED
  BY <1>1, <1>8

(* The revocation log takes a step for an odd last node that its tree does  *)
(* not hash.                                                                *)
LEMMA RevocationPathLeads ==
  ASSUME NEW n \in Nat \ {0}, NEW L, Tree(L, n, "promoted"), NEW i \in 0 .. n - 1
  PROVE  Leads(i, RevocationPath(i, L), RootOf(L)) <=> ~HasOddAncestor(i, L)
<1>1. PICK h \in Nat : h = Len(L) - 1 /\ Len(L) = h + 1
  BY TreeHeight
<1>2. PICK q : q = [k \in 1 .. h |-> StepOrNext(L[k], L[k + 1], Places(i, L)[k])]
  OBVIOUS
<1>3. RevocationPath(i, L) = FlattenSeq(q)
  BY <1>1, <1>2 DEF RevocationPath
<1>4. ShortOnes(q, h)
  BY <1>2, StepOrNextIs DEF ShortOnes
<1>5. \A k \in 1 .. h : HasSibling(L[k], Places(i, L)[k]) =>
        q[k] = <<SiblingStep(L[k], Places(i, L)[k])>>
  BY <1>2, StepOrNextIs
<1>6. ASSUME ~HasOddAncestor(i, L) PROVE Leads(i, RevocationPath(i, L), RootOf(L))
  BY <1>1, <1>3, <1>4, <1>5, <1>6, AllPaired
<1>7. ASSUME HasOddAncestor(i, L), Leads(i, RevocationPath(i, L), RootOf(L)) PROVE FALSE
  <2> DEFINE O == {k \in 1 .. h : ~HasSibling(L[k], Places(i, L)[k])}
             M == Merged(L, "promoted", Places(i, L), Len(L))
  <2>1. O # {} /\ O \in SUBSET (1 .. h)
    BY <1>1, <1>7, OddAncestorIs
  <2>2. PICK k \in O : \A m \in O : m <= k
    <3> HIDE DEF O
    <3>1. QED
      BY <2>1, TopmostOdd
  <2>3. k \in 1 .. h /\ ~HasSibling(L[k], Places(i, L)[k])
    BY <2>2
  <2>4. k + 1 \in 1 .. h
    BY <1>1, <2>3, AboveOdd
  <2>5. k + 1 \notin O
    <3>1. ~(k + 1 <= k)
      BY <2>3
    <3> HIDE DEF O
    <3>2. QED
      BY <2>2, <3>1
  <2>6. HasSibling(L[k + 1], Places(i, L)[k + 1])
    BY <2>4, <2>5
  <2>7. Places(i, L)[k + 1] = Places(i, L)[k] \div 2
    BY <1>1, <2>3, PlaceIs DEF Tree
  <2>8. Len(q[k]) = 1
    BY <1>2, <2>3, <2>6, <2>7, StepOrNextIs
  <2>9. k \in Filled(q, h)
    BY <2>3, <2>8 DEF Filled
  <2>10. M = {m \in 1 .. h : HasSibling(L[m], Places(i, L)[m])}
    BY <1>1 DEF Merged, HasSibling
  <2>11. k \notin M
    BY <2>3, <2>10
  <2>12. M \in SUBSET Filled(q, h)
    <3>1. \A m \in M : m \in 1 .. h /\ Len(q[m]) = 1
      BY <1>5, <2>10, OneLong
    <3>2. QED
      BY <3>1 DEF Filled
  <2>13. IsFiniteSet(Filled(q, h))
    BY OneMoreFilled
  <2>14. Cardinality(M) # Cardinality(Filled(q, h))
    <3> HIDE DEF M
    <3>1. QED
      BY <2>9, <2>11, <2>12, <2>13, FewerIn
  <2>15. QED
    BY <1>1, <1>3, <1>4, <1>7, <2>14, StepsMatch
<1>8. QED
  BY <1>6, <1>7
-----------------------------------------------------------------------------
(* The revocation log: levels in the cache that are not dirty are those of   *)
(* the tree, and the entries after the last head are fewer than the log is   *)
(* past a multiple of the interval.                                          *)

LogHead == [root : {RootOf(TreeOf[n]) : n \in 1 .. MaxEntries}, size : 1 .. MaxEntries]

RlogInv ==
  /\ clock \in Nat /\ rlogKey \in BOOLEAN /\ rlogDirty \in BOOLEAN
  /\ rlogSize \in 0 .. MaxEntries
  /\ ~rlogDirty => rlogLevels = TreeOf[rlogSize]
  /\ rlogHeads \in Seq(LogHead)
  /\ \A s \in 1 .. Len(rlogHeads) : rlogHeads[s].root = RootOf(TreeOf[rlogHeads[s].size])
  /\ rlogSize = 0 => rlogSigned = Epoch
  /\ rlogKey /\ rlogSize > 0 =>
       rlogHeads # << >> /\ rlogSize - LastHead.size <= rlogSize % HeadEvery

LEMMA OneQuotient ==
  ASSUME NEW e \in Nat \ {0}, NEW a \in Int, NEW c \in Int, NEW b \in 0 .. e - 1, NEW d \in 0 .. e - 1,
         e * a + b = e * c + d
  PROVE  b = d
<1>1. e * (c - a) = b - d /\ e * (a - c) = d - b
  OBVIOUS
<1>2. CASE a < c
  <2>1. e * (c - a) >= e
    BY <1>2
  <2>2. QED
    BY <1>1, <2>1
<1>3. CASE c < a
  <2>1. e * (a - c) >= e
    BY <1>3
  <2>2. QED
    BY <1>1, <2>1
<1>4. CASE a = c
  BY <1>4
<1>5. QED
  BY <1>2, <1>3, <1>4

LEMMA Remainders ==
  ASSUME NEW n \in Nat
  PROVE  /\ n % HeadEvery \in Nat /\ n % HeadEvery < HeadEvery /\ HeadEvery \in Nat \ {0}
         /\ (n + 1) % HeadEvery # 0 => (n + 1) % HeadEvery = (n % HeadEvery) + 1
<1>1. HeadEvery \in Nat \ {0}
  BY LogAssumption DEF LogAssumption
<1>2. n % HeadEvery \in 0 .. HeadEvery - 1
  BY <1>1
<1>3. (n + 1) % HeadEvery # 0 => (n + 1) % HeadEvery = (n % HeadEvery) + 1
  <2> DEFINE r == n % HeadEvery
             q == n \div HeadEvery
             s == (n + 1) % HeadEvery
             p == (n + 1) \div HeadEvery
  <2>1. q \in Int /\ r \in 0 .. HeadEvery - 1 /\ n = HeadEvery * q + r
    BY <1>1
  <2>2. p \in Int /\ s \in 0 .. HeadEvery - 1 /\ n + 1 = HeadEvery * p + s
    BY <1>1
  <2> HIDE DEF q, r, p, s
  <2>3. CASE r + 1 < HeadEvery
    <3>1. HeadEvery * q + (r + 1) = HeadEvery * p + s /\ r + 1 \in 0 .. HeadEvery - 1
      BY <1>1, <2>1, <2>2, <2>3
    <3>2. s = r + 1
      BY <1>1, <2>1, <2>2, <3>1, OneQuotient
    <3>3. QED
      BY <3>2 DEF r, s
  <2>4. CASE ~(r + 1 < HeadEvery)
    <3>1. HeadEvery * (q + 1) + 0 = HeadEvery * p + s /\ q + 1 \in Int /\ 0 \in 0 .. HeadEvery - 1
      BY <1>1, <2>1, <2>2, <2>4
    <3>2. s = 0
      BY <1>1, <2>2, <3>1, OneQuotient
    <3>3. QED
      BY <3>2 DEF s
  <2>5. QED
    BY <2>3, <2>4
<1>4. QED
  BY <1>1, <1>2, <1>3

LEMMA HeadSigned ==
  ASSUME RlogInv, rlogSize < MaxEntries, rlogSize' = rlogSize + 1, SignHead(TRUE, rlogSize + 1),
         UNCHANGED <<clock, rlogKey>>
  PROVE  RlogInv'
<1> DEFINE n == rlogSize + 1
           h == [root |-> RootOf(TreeOf[n]), size |-> n]
<1>1. rlogSize \in Nat /\ MaxEntries \in Nat /\ n \in 1 .. MaxEntries /\ rlogHeads \in Seq(LogHead)
  BY LogAssumption DEF RlogInv, LogAssumption
<1>2. /\ rlogLevels' = TreeOf[n] /\ rlogDirty' = FALSE /\ rlogHeads' = Append(rlogHeads, h)
      /\ rlogSize' = n
  BY DEF SignHead, Rebuild, FreshLevels
<1>3. h \in LogHead /\ h.root = RootOf(TreeOf[n]) /\ h.size = n
  BY <1>1 DEF LogHead
<1> HIDE DEF n, h
<1>4. /\ rlogHeads' \in Seq(LogHead) /\ Len(rlogHeads') = Len(rlogHeads) + 1
      /\ rlogHeads'[Len(rlogHeads) + 1] = h /\ Len(rlogHeads) \in Nat
      /\ \A s \in 1 .. Len(rlogHeads) : rlogHeads'[s] = rlogHeads[s]
  BY <1>1, <1>2, <1>3
<1>5. \A s \in 1 .. Len(rlogHeads') : rlogHeads'[s].root = RootOf(TreeOf[rlogHeads'[s].size])
  <2> SUFFICES ASSUME NEW s \in 1 .. Len(rlogHeads')
               PROVE  rlogHeads'[s].root = RootOf(TreeOf[rlogHeads'[s].size])
    OBVIOUS
  <2>1. CASE s = Len(rlogHeads) + 1
    BY <1>3, <1>4, <2>1
  <2>2. CASE s \in 1 .. Len(rlogHeads)
    BY <1>4, <2>2 DEF RlogInv
  <2>3. QED
    BY <1>4, <2>1, <2>2
<1>6. LastHead' = h /\ rlogHeads' # << >>
  BY <1>4 DEF LastHead
<1>7. rlogSize' - LastHead'.size <= rlogSize' % HeadEvery /\ ~(rlogSize' = 0)
  <2>1. n \in Nat /\ n # 0 /\ n - n = 0
    BY <1>1
  <2>2. n % HeadEvery \in Nat
    BY <2>1, Remainders
  <2>3. QED
    BY <1>2, <1>3, <1>6, <2>1, <2>2
<1>8. rlogSize' \in 0 .. MaxEntries /\ rlogLevels' = TreeOf[rlogSize'] /\ rlogDirty' \in BOOLEAN
  <2>1. n \in 0 .. MaxEntries
    BY <1>1
  <2>2. rlogLevels' = TreeOf[rlogSize']
    BY <1>2
  <2>3. QED
    BY <1>2, <2>1, <2>2
<1>9. clock' \in Nat /\ rlogKey' \in BOOLEAN
  BY DEF RlogInv
<1>10. QED
  BY <1>4, <1>5, <1>6, <1>7, <1>8, <1>9 DEF RlogInv

LEMMA EntryWithoutHead ==
  ASSUME RlogInv, rlogSize < MaxEntries, rlogSize' = rlogSize + 1, ~(HeadDue(rlogSize + 1) /\ rlogKey),
         rlogDirty' = TRUE, UNCHANGED <<rlogLevels, rlogHeads, rlogSigned, clock, rlogKey>>
  PROVE  RlogInv'
<1>1. rlogSize \in Nat /\ MaxEntries \in Nat /\ clock \in Nat /\ HeadAge \in Nat
  BY LogAssumption DEF RlogInv, LogAssumption
<1>2. ASSUME rlogKey
      PROVE  rlogHeads' # << >> /\ rlogSize' - LastHead'.size <= rlogSize' % HeadEvery
  <2>1. (rlogSize + 1) % HeadEvery # 0 /\ ~(clock - rlogSigned > HeadAge)
    BY <1>2 DEF HeadDue
  <2>2. rlogSize # 0
    BY <1>1, <2>1 DEF RlogInv, Epoch
  <2>3. rlogHeads # << >> /\ rlogSize - LastHead.size <= rlogSize % HeadEvery
    BY <1>1, <1>2, <2>2 DEF RlogInv
  <2>4. LastHead \in LogHead
    BY <2>3 DEF RlogInv, LastHead
  <2>5. LastHead.size \in Nat
    BY <2>4 DEF LogHead
  <2>6. (rlogSize + 1) % HeadEvery = (rlogSize % HeadEvery) + 1 /\ rlogSize % HeadEvery \in Nat
    BY <1>1, <2>1, Remainders
  <2>7. LastHead' = LastHead
    BY DEF LastHead
  <2>8. QED
    BY <1>1, <2>3, <2>5, <2>6, <2>7
<1>3. rlogSize' \in 0 .. MaxEntries /\ ~(rlogSize' = 0)
  BY <1>1
<1>4. QED
  BY <1>2, <1>3 DEF RlogInv

LEMMA RlogInductive == RlogSpec => []RlogInv
<1>1. ClockInit /\ RlogInit => RlogInv
  BY LogAssumption DEF ClockInit, RlogInit, RlogInv, LogAssumption
<1>2. RlogInv /\ [RlogNext]_rlogVars => RlogInv'
  <2> SUFFICES ASSUME RlogInv, [RlogNext]_rlogVars PROVE RlogInv'
    OBVIOUS
  <2>1. CASE AppendEntry
    BY <2>1, HeadSigned, EntryWithoutHead DEF AppendEntry
  <2>2. CASE AskProof
    <3>1. /\ rlogLevels' = TreeOf[rlogSize] /\ rlogDirty' = FALSE
          /\ UNCHANGED <<clock, rlogKey, rlogSize, rlogHeads, rlogSigned>>
      BY <2>2 DEF AskProof, Rebuild, FreshLevels, RlogInv
    <3>2. QED
      BY <3>1 DEF RlogInv, LastHead
  <2>3. CASE TimePasses /\ UNCHANGED rlogOwn
    BY <2>3 DEF TimePasses, rlogOwn, RlogInv, LastHead
  <2>4. CASE UNCHANGED rlogVars
    BY <2>4 DEF rlogVars, rlogOwn, RlogInv, LastHead
  <2>5. QED
    BY <2>1, <2>2, <2>3, <2>4 DEF RlogNext
<1>3. QED
  BY <1>1, <1>2, PTL DEF RlogSpec

(* HeadsCover: whatever the intervals and the times, every head is the root  *)
(* of the first entries it says, also when taken from the cache, and with   *)
(* its key the log is never an interval past its last head.                 *)
THEOREM HeadsCover == RlogSpec => []HeadsCoverLog
<1>1. RlogInv => HeadsCoverLog
  <2> SUFFICES ASSUME RlogInv, rlogKey, rlogSize > 0
               PROVE  rlogHeads # << >> /\ rlogSize - LastHead.size < HeadEvery
    BY DEF RlogInv, HeadsCoverLog
  <2>1. rlogHeads # << >> /\ rlogSize - LastHead.size <= rlogSize % HeadEvery /\ rlogSize \in Nat
    BY DEF RlogInv
  <2>2. LastHead \in LogHead
    BY <2>1 DEF RlogInv, LastHead
  <2>3. LastHead.size \in Nat
    BY <2>2 DEF LogHead
  <2>4. rlogSize % HeadEvery \in Nat /\ rlogSize % HeadEvery < HeadEvery /\ HeadEvery \in Nat
    BY <2>1, Remainders
  <2>5. QED
    BY <2>1, <2>3, <2>4
<1>2. QED
  BY <1>1, RlogInductive, PTL

(* An entry under a head of the whole log has a proof that verifies exactly  *)
(* when no odd last node is above it.                                       *)
LEMMA ProvableExactly ==
  ASSUME RlogInv, Covered, NEW i \in 0 .. rlogSize - 1
  PROVE  Provable(i) <=> ~HasOddAncestor(i, TreeOf[rlogSize])
<1>1. LastHead \in LogHead /\ LastHead.root = RootOf(TreeOf[LastHead.size])
  BY DEF RlogInv, LastHead, Covered
<1>2. rlogSize \in 1 .. MaxEntries /\ LastHead.root = RootOf(TreeOf[rlogSize])
  BY <1>1 DEF Covered, LogHead
<1>3. FreshLevels(rlogDirty, rlogSize) = TreeOf[rlogSize]
  BY DEF RlogInv, FreshLevels
<1>4. MaxEntries \in Nat
  BY LogAssumption DEF LogAssumption
<1>5. PICK n \in Nat \ {0} : n = rlogSize
  BY <1>2, <1>4
<1>6. TreeOf[n] = Levels(n, "promoted")
  BY <1>2, <1>5 DEF TreeOf
<1>7. Tree(TreeOf[n], n, "promoted")
  BY <1>6, LevelsAreTree
<1>8. Leads(i, RevocationPath(i, TreeOf[n]), RootOf(TreeOf[n])) <=> ~HasOddAncestor(i, TreeOf[n])
  BY <1>5, <1>7, RevocationPathLeads
<1>9. QED
  BY <1>2, <1>3, <1>5, <1>8 DEF Provable

(* ProvableWithSiblings: for every length of the log, an entry under a head  *)
(* of the whole log has a proof that verifies if no odd last node is above   *)
(* it.                                                                      *)
THEOREM SiblingsProve == RlogSpec => []ProvableWithSiblings
<1>1. RlogInv => ProvableWithSiblings
  BY ProvableExactly DEF ProvableWithSiblings
<1>2. QED
  BY <1>1, RlogInductive, PTL

(* The others have none: the proof that getInclusionProof returns for an     *)
(* entry under an odd last node never verifies, at any length of the log.    *)
THEOREM PromotedHaveNone ==
  RlogSpec => [](Covered => \A i \in 0 .. rlogSize - 1 :
                   HasOddAncestor(i, TreeOf[rlogSize]) => ~Provable(i))
<1>1. RlogInv => (Covered => \A i \in 0 .. rlogSize - 1 :
                    HasOddAncestor(i, TreeOf[rlogSize]) => ~Provable(i))
  BY ProvableExactly
<1>2. QED
  BY <1>1, RlogInductive, PTL
-----------------------------------------------------------------------------
(* The trail: the last node of a level of a doubled tree ends the last node *)
(* of the level above, down from the root to the last receipt, so that the  *)
(* root tells how many receipts there are.                                  *)

EndOf(level) == level[Len(level)]

LEMMA EndAbove ==
  ASSUME NEW n \in Nat \ {0}, NEW L, Tree(L, n, "doubled"), NEW k \in 1 .. Len(L) - 1
  PROVE  \E a : EndOf(L[k + 1]) = <<a, EndOf(L[k])>>
<1>1. PICK w \in Nat \ {0} : /\ w = Len(L[k]) /\ Len(L[k + 1]) = (w + 1) \div 2
                           /\ \A j \in Nat : j < (w + 1) \div 2 => Above(L, k, w, j)
  BY AboveIs
<1>2. PICK j \in Nat : j + 1 = (w + 1) \div 2 /\ j < (w + 1) \div 2 /\ (w = 2 * j + 1 \/ w = 2 * j + 2)
  <2>1. \A v \in Nat \ {0} : \E j \in Nat :
          j + 1 = (v + 1) \div 2 /\ j < (v + 1) \div 2 /\ (v = 2 * j + 1 \/ v = 2 * j + 2)
    <3> TAKE v \in Nat \ {0}
    <3>1. (v + 1) \div 2 \in Nat \ {0}
      OBVIOUS
    <3>2. PICK j \in Nat : j + 1 = (v + 1) \div 2
      <4>1. \A a \in Nat \ {0} : a - 1 \in Nat /\ (a - 1) + 1 = a
        OBVIOUS
      <4>2. QED
        BY <3>1, <4>1
    <3>3. QED
      BY <3>2
  <2>2. QED
    BY <2>1
<1>3. Branches(L, "doubled", k, w, j)
  BY <1>1, <1>2, NodeIs
<1>4. EndOf(L[k + 1]) = L[k + 1][j + 1] /\ EndOf(L[k]) = L[k][w]
  BY <1>1, <1>2 DEF EndOf
<1>5. CASE w = 2 * j + 2
  <2>1. 2 * j + 1 < w
    BY <1>5
  <2>2. L[k + 1][j + 1] = <<L[k][2 * j + 1], L[k][2 * j + 2]>>
    BY <1>3, <2>1 DEF Branches
  <2>3. QED
    BY <1>4, <1>5, <2>2
<1>6. CASE w = 2 * j + 1
  <2>1. ~(2 * j + 1 < w)
    BY <1>6
  <2>2. L[k + 1][j + 1] = Odd("doubled", L[k][2 * j + 1])
    BY <1>3, <2>1 DEF Branches
  <2>3. QED
    BY <1>4, <1>6, <2>2 DEF Odd
<1>7. QED
  BY <1>2, <1>5, <1>6

LEMMA FirstEnd ==
  ASSUME NEW n \in Nat \ {0}, NEW L, Tree(L, n, "doubled")
  PROVE  EndOf(L[1]) = <<n>>
<1>1. Len(L[1]) = n /\ L[1] = Leaves(n) /\ n \in 1 .. n
  BY DEF Tree
<1>2. QED
  BY <1>1 DEF EndOf, Leaves

LEMMA SameEnd ==
  ASSUME NEW n \in Nat \ {0}, NEW L, Tree(L, n, "doubled"),
         NEW m \in Nat \ {0}, NEW M, Tree(M, m, "doubled")
  PROVE  \A k \in 1 .. Len(L) : \A g \in 1 .. Len(M) : EndOf(L[k]) = EndOf(M[g]) => n = m
<1> DEFINE Bad == {k \in 1 .. Len(L) : \E g \in 1 .. Len(M) : EndOf(L[k]) = EndOf(M[g]) /\ n # m}
<1>1. SUFFICES ASSUME Bad # {} PROVE FALSE
  OBVIOUS
<1>2. PICK k \in Bad : \A l \in Bad : k <= l
  <2>1. Bad \in SUBSET Nat
    OBVIOUS
  <2> HIDE DEF Bad
  <2>2. QED
    BY <1>1, <2>1, HasLeast
<1>3. PICK g \in 1 .. Len(M) : EndOf(L[k]) = EndOf(M[g]) /\ n # m
  BY <1>2
<1>4. PICK v \in Nat, h \in Nat : /\ v = Len(L) - 1 /\ Len(L) = v + 1
                                /\ h = Len(M) - 1 /\ Len(M) = h + 1
  BY TreeHeight
<1>5. k \in 1 .. v + 1 /\ g \in 1 .. h + 1
  BY <1>2, <1>3, <1>4
<1>6. k # 1 => \E a : EndOf(L[k]) = <<a, EndOf(L[k - 1])>>
  <2> SUFFICES ASSUME k # 1 PROVE \E a : EndOf(L[k]) = <<a, EndOf(L[k - 1])>>
    OBVIOUS
  <2>1. k - 1 \in 1 .. Len(L) - 1 /\ (k - 1) + 1 = k
    BY <1>4, <1>5
  <2> HIDE DEF Bad
  <2>2. QED
    BY <2>1, EndAbove
<1>7. g # 1 => \E a : EndOf(M[g]) = <<a, EndOf(M[g - 1])>>
  <2> SUFFICES ASSUME g # 1 PROVE \E a : EndOf(M[g]) = <<a, EndOf(M[g - 1])>>
    OBVIOUS
  <2>1. g - 1 \in 1 .. Len(M) - 1 /\ (g - 1) + 1 = g
    BY <1>4, <1>5
  <2> HIDE DEF Bad
  <2>2. QED
    BY <2>1, EndAbove
<1>8. EndOf(L[1]) = <<n>> /\ EndOf(M[1]) = <<m>>
  BY FirstEnd
<1>9. k # 1 /\ g # 1
  <2> HIDE DEF Bad
  <2>1. CASE k = 1 /\ g = 1
    BY <1>3, <1>8, <2>1, Terms
  <2>2. CASE k = 1 /\ g # 1
    <3>1. PICK a : EndOf(M[g]) = <<a, EndOf(M[g - 1])>>
      BY <1>7, <2>2
    <3>2. <<n>> = <<a, EndOf(M[g - 1])>>
      BY <1>3, <1>8, <2>2, <3>1
    <3>3. QED
      BY <3>2, Terms
  <2>3. CASE k # 1 /\ g = 1
    <3>1. PICK a : EndOf(L[k]) = <<a, EndOf(L[k - 1])>>
      BY <1>6, <2>3
    <3>2. <<m>> = <<a, EndOf(L[k - 1])>>
      BY <1>3, <1>8, <2>3, <3>1
    <3>3. QED
      BY <3>2, Terms
  <2>4. QED
    BY <2>1, <2>2, <2>3
<1>10. EndOf(L[k - 1]) = EndOf(M[g - 1])
  <2> HIDE DEF Bad
  <2>1. QED
    BY <1>3, <1>6, <1>7, <1>9, Terms
<1>11. k - 1 \in 1 .. Len(L) /\ g - 1 \in 1 .. Len(M) /\ ~(k <= k - 1)
  BY <1>4, <1>5, <1>9
<1>12. k - 1 \in Bad
  BY <1>3, <1>10, <1>11
<1>13. QED
  <2> HIDE DEF Bad
  <2>1. QED
    BY <1>2, <1>11, <1>12

LEMMA RootTellsSize ==
  ASSUME NEW n \in Nat \ {0}, NEW L, Tree(L, n, "doubled"),
         NEW m \in Nat \ {0}, NEW M, Tree(M, m, "doubled"), RootOf(L) = RootOf(M)
  PROVE  n = m
<1>1. EndOf(L[Len(L)]) = RootOf(L) /\ EndOf(M[Len(M)]) = RootOf(M)
  BY DEF EndOf, RootOf, Tree
<1>2. Len(L) \in 1 .. Len(L) /\ Len(M) \in 1 .. Len(M)
  BY DEF Tree
<1>3. QED
  BY <1>1, <1>2, SameEnd

PublishedRoot == {[root |-> RootOf(ReceiptTree[n]), size |-> n] : n \in 1 .. MaxReceipts}

AlogInv ==
  /\ alogSize \in 0 .. MaxReceipts
  /\ alogSize > 0 => alogRoot = RootOf(ReceiptTree[alogSize])
  /\ alogSigned \in Seq(PublishedRoot)
  /\ alogSigned # << >> => alogSize > 0

LEMMA ReceiptsAreTree ==
  ASSUME NEW n \in 1 .. MaxReceipts
  PROVE  n \in Nat \ {0} /\ Tree(ReceiptTree[n], n, "doubled")
<1>1. n \in Nat \ {0}
  BY TrailAssumption DEF TrailAssumption
<1>2. QED
  BY <1>1, LevelsAreTree DEF ReceiptTree

LEMMA AlogInductive == AlogSpec => []AlogInv
<1> USE TrailAssumption DEF TrailAssumption
<1>1. AlogInit => AlogInv
  BY DEF AlogInit, AlogInv
<1>2. AlogInv /\ [AlogNext]_alogVars => AlogInv'
  <2> SUFFICES ASSUME AlogInv, [AlogNext]_alogVars PROVE AlogInv'
    OBVIOUS
  <2>1. CASE AddReceipt
    <3>1. alogSize' = alogSize + 1 /\ alogSize + 1 \in 1 .. MaxReceipts
      BY <2>1 DEF AddReceipt, AlogInv
    <3>2. alogRoot' = RootOf(ReceiptTree[alogSize']) /\ alogSigned' = alogSigned
      BY <2>1 DEF AddReceipt
    <3>3. QED
      BY <3>1, <3>2 DEF AlogInv
  <2>2. CASE PublishRoot
    <3> DEFINE r == [root |-> alogRoot, size |-> alogSize]
    <3>1. alogSize > 0 /\ alogSigned' = Append(alogSigned, r) /\ UNCHANGED <<alogSize, alogRoot>>
      BY <2>2 DEF PublishRoot
    <3>2. alogSize \in 1 .. MaxReceipts /\ alogRoot = RootOf(ReceiptTree[alogSize])
      BY <3>1 DEF AlogInv
    <3>3. r \in PublishedRoot
      BY <3>2 DEF PublishedRoot
    <3> HIDE DEF r
    <3>4. alogSigned' \in Seq(PublishedRoot)
      BY <3>1, <3>3 DEF AlogInv
    <3>5. QED
      BY <3>1, <3>4 DEF AlogInv
  <2>3. CASE UNCHANGED alogVars
    BY <2>3 DEF alogVars, AlogInv
  <2>4. QED
    BY <2>1, <2>2, <2>3 DEF AlogNext
<1>3. QED
  BY <1>1, <1>2, PTL DEF AlogSpec

(* TrailAnswers: for every length of the trail and however often its root is *)
(* published, a receipt is reported as included exactly when no odd last    *)
(* node is above it, and the trail as intact exactly while no receipt       *)
(* followed the last published root.                                        *)
THEOREM TrailAnswersExactly == AlogSpec => []TrailAnswers
<1>1. AlogInv => TrailAnswers
  <2> SUFFICES ASSUME AlogInv PROVE TrailAnswers
    OBVIOUS
  <2>1. ASSUME NEW i \in 0 .. alogSize - 1
        PROVE  Included(i) <=> ~HasOddAncestor(i, ReceiptTree[alogSize])
    <3>1. alogSize \in 1 .. MaxReceipts
      BY TrailAssumption DEF AlogInv, TrailAssumption
    <3>2. alogRoot = RootOf(ReceiptTree[alogSize])
      BY <3>1 DEF AlogInv
    <3>3. PICK n \in Nat \ {0} : n = alogSize /\ Tree(ReceiptTree[n], n, "doubled")
      BY <3>1, ReceiptsAreTree
    <3>4. Leads(i, AuditPath(i, ReceiptTree[n]), RootOf(ReceiptTree[n]))
            <=> ~HasOddAncestor(i, ReceiptTree[n])
      BY <3>3, AuditPathLeads
    <3>5. QED
      BY <3>2, <3>3, <3>4 DEF Included
  <2>2. ASSUME alogSigned # << >>
        PROVE  alogSigned[Len(alogSigned)].root = alogRoot
                 <=> alogSigned[Len(alogSigned)].size = alogSize
    <3>1. alogSize \in 1 .. MaxReceipts /\ alogRoot = RootOf(ReceiptTree[alogSize])
      BY <2>2, TrailAssumption DEF AlogInv, TrailAssumption
    <3>2. alogSigned[Len(alogSigned)] \in PublishedRoot
      BY <2>2 DEF AlogInv
    <3>3. PICK s \in 1 .. MaxReceipts :
            alogSigned[Len(alogSigned)] = [root |-> RootOf(ReceiptTree[s]), size |-> s]
      BY <3>2 DEF PublishedRoot
    <3>4. RootOf(ReceiptTree[s]) = RootOf(ReceiptTree[alogSize]) => s = alogSize
      BY <3>1, ReceiptsAreTree, RootTellsSize
    <3>5. QED
      BY <3>1, <3>3, <3>4
  <2>3. QED
    BY <2>1, <2>2 DEF TrailAnswers, Intact
<1>2. QED
  BY <1>1, AlogInductive, PTL
=============================================================================
