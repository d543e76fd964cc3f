---------------------------- MODULE MerkleTrees ----------------------------
(***************************************************************************)
(* The trees of the two Merkle logs, the revocation transparency log       *)
(* (core/revocation-transparency.ts) and the audit log of receipts         *)
(* (packages/audit/src/index.ts).  Entries are distinct: the leaf of entry *)
(* i is <<i>>, an inner node the pair of its children.  The logs differ in *)
(* what becomes of an odd last node.                                       *)
(***************************************************************************)
EXTENDS Naturals, Sequences, SequencesExt

(* The parent of an odd last node: "promoted" as it is, or "doubled"        *)
Odd(rule, x) == IF rule = "doubled" THEN <<x, x>> ELSE x

Leaves(n) == [i \in 1 .. n |-> <<i>>]

LevelUp(s, rule) ==
  [j \in 1 .. (Len(s) + 1) \div 2 |->
     IF 2 * j <= Len(s) THEN <<s[2 * j - 1], s[2 * j]>> ELSE Odd(rule, s[2 * j - 1])]

(* The levels of the tree of n entries, leaves first, while they have more  *)
(* than one node, and the root                                              *)
Levels(n, rule) ==
  LET level[k \in 0 .. n] == IF k = 0 THEN Leaves(n) ELSE LevelUp(level[k - 1], rule)
      height == CHOOSE h \in 0 .. n :
                  Len(level[h]) <= 1 /\ \A g \in 0 .. h - 1 : Len(level[g]) > 1
  IN [k \in 1 .. height + 1 |-> level[k - 1]]

RootOf(levels) == levels[Len(levels)][1]

(* The places of entry i and its ancestors in their levels, counted from 0, *)
(* the sibling of a place, and the side it is on                            *)
Places(i, levels) ==
  LET at[k \in 1 .. Len(levels)] == IF k = 1 THEN i ELSE at[k - 1] \div 2
  IN at
Sibling(j) == IF j % 2 = 0 THEN j + 1 ELSE j - 1

(* Slip: the side is that of the node, not of its sibling. *)
SideOfNode(j) == IF j % 2 = 0 THEN "left" ELSE "right"

Side(j) == IF j % 2 = 0 THEN "right" ELSE "left"

(* The step of a node to its sibling, none if it has none                   *)
StepTo(level, j) ==
  IF Sibling(j) < Len(level) THEN <<[hash |-> level[Sibling(j) + 1], side |-> Side(j)]>>
  ELSE << >>

(* auditPath of the revocation log: for a node without sibling it takes the *)
(* sibling of its parent, which the next level contributes again            *)
StepOrNext(level, next, j) ==
  LET above == Sibling(j \div 2) IN
  IF Sibling(j) < Len(level) THEN StepTo(level, j)
  ELSE IF above < Len(next) THEN <<[hash |-> next[above + 1], side |-> "right"]>>
  ELSE << >>

RevocationPath(i, levels) ==
  FlattenSeq([k \in 1 .. Len(levels) - 1 |->
                StepOrNext(levels[k], levels[k + 1], Places(i, levels)[k])])

(* getProof of the audit log: a node without sibling has no step            *)
AuditPath(i, levels) ==
  FlattenSeq([k \in 1 .. Len(levels) - 1 |-> StepTo(levels[k], Places(i, levels)[k])])

(* verifyAuditPath and verifyProof                                          *)
Hashed(node, step) == IF step.side = "right" THEN <<node, step.hash>> ELSE <<step.hash, node>>

Leads(i, path, root) ==
  LET climb[t \in 0 .. Len(path)] == IF t = 0 THEN <<i + 1>> ELSE Hashed(climb[t - 1], path[t])
  IN climb[Len(path)] = root

(* Is the odd last node of a level above entry i, or entry i itself?        *)
HasOddAncestor(i, levels) ==
  \E k \in 1 .. Len(levels) - 1 :
    Len(levels[k]) % 2 = 1 /\ Places(i, levels)[k] = Len(levels[k]) - 1
=============================================================================
