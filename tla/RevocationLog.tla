--------------------------- MODULE RevocationLog ---------------------------
(***************************************************************************)
(* RevocationTransparencyLog (core/revocation-transparency.ts): appended   *)
(* entries, the Merkle tree over them with its cached levels, and the tree *)
(* heads signed every HeadEvery entries or HeadAge ticks.                  *)
(***************************************************************************)
EXTENDS WallClock, Integers, Sequences, MerkleTrees

CONSTANTS
  HeadEvery,   \* sthInterval
  HeadAge,     \* sthTimeInterval
  MaxEntries   \* bound of the log

ASSUME LogAssumption == HeadEvery \in Nat \ {0} /\ HeadAge \in Nat /\ MaxEntries \in Nat

VARIABLES
  rlogKey,      \* is the operator's private key configured?
  rlogSize,     \* entries, and leaves of the tree
  rlogLevels,   \* cachedLevels
  rlogDirty,    \* dirty
  rlogHeads,    \* sths: [root, size]
  rlogSigned    \* lastSthTime

rlogOwn  == <<rlogKey, rlogSize, rlogLevels, rlogDirty, rlogHeads, rlogSigned>>
rlogVars == <<clock, rlogOwn>>

Epoch == -HeadAge - 1   \* longer ago than a head may be old

RlogInit ==
  /\ rlogKey \in BOOLEAN
  /\ rlogSize = 0
  /\ rlogLevels = << >>
  /\ rlogDirty = TRUE
  /\ rlogHeads = << >>
  /\ rlogSigned = Epoch

TreeOf == [n \in 1 .. MaxEntries |-> Levels(n, "promoted")]

(* rebuildIfDirty, for a tree of n leaves                                   *)
FreshLevels(dirty, n) == IF dirty THEN TreeOf[n] ELSE rlogLevels

Rebuild(dirty, n) ==
  /\ rlogLevels' = FreshLevels(dirty, n)
  /\ rlogDirty' = FALSE

(* signTreeHead                                                             *)
SignHead(dirty, n) ==
  /\ Rebuild(dirty, n)
  /\ rlogHeads' = Append(rlogHeads, [root |-> RootOf(FreshLevels(dirty, n)), size |-> n])
  /\ rlogSigned' = clock

HeadDue(n) == n % HeadEvery = 0 \/ clock - rlogSigned > HeadAge

(* Slip: a leaf added to the tree leaves the cached levels in use. *)
AppendKeepsCache ==
  /\ rlogSize < MaxEntries
  /\ rlogSize' = rlogSize + 1
  /\ IF HeadDue(rlogSize + 1) /\ rlogKey
     THEN SignHead(rlogSize = 0, rlogSize + 1)
     ELSE rlogDirty' = (rlogSize = 0) /\ UNCHANGED <<rlogLevels, rlogHeads, rlogSigned>>
  /\ UNCHANGED <<clock, rlogKey>>

(* append: without a key a head that is due throws, and the entry stays     *)
AppendEntry ==
  /\ rlogSize < MaxEntries
  /\ rlogSize' = rlogSize + 1
  /\ IF HeadDue(rlogSize + 1) /\ rlogKey
     THEN SignHead(TRUE, rlogSize + 1)
     ELSE rlogDirty' = TRUE /\ UNCHANGED <<rlogLevels, rlogHeads, rlogSigned>>
  /\ UNCHANGED <<clock, rlogKey>>

(* getInclusionProof and root rebuild the levels when they are stale        *)
AskProof ==
  /\ rlogSize > 0
  /\ Rebuild(rlogDirty, rlogSize)
  /\ UNCHANGED <<clock, rlogKey, rlogSize, rlogHeads, rlogSigned>>

RlogNext ==
  \/ AppendEntry
  \/ AskProof
  \/ TimePasses /\ UNCHANGED rlogOwn

RlogSpec == ClockInit /\ RlogInit /\ [][RlogNext]_rlogVars
-----------------------------------------------------------------------------
LastHead == rlogHeads[Len(rlogHeads)]

(* verifyInclusionProof of getInclusionProof(i), against a head of the same *)
(* size                                                                     *)
Provable(i) ==
  LET levels == FreshLevels(rlogDirty, rlogSize)
  IN Leads(i, RevocationPath(i, levels), LastHead.root)

Covered == rlogHeads # << >> /\ LastHead.size = rlogSize

(* With its key the log never holds HeadEvery entries without a head over    *)
(* them, and every head commits to the first entries of the log, as many as  *)
(* it says, though it is taken from cached levels.                           *)
HeadsCoverLog ==
  /\ \A s \in 1 .. Len(rlogHeads) : rlogHeads[s].root = RootOf(TreeOf[rlogHeads[s].size])
  /\ rlogKey /\ rlogSize > 0 => rlogHeads # << >> /\ rlogSize - LastHead.size < HeadEvery

(* An entry has a proof that verifies against the head over the whole log    *)
(* if neither it nor a node above it is the odd last one of its level,       *)
(* though head and proof may come from levels cached at different times.     *)
ProvableWithSiblings ==
  Covered => \A i \in 0 .. rlogSize - 1 : ~HasOddAncestor(i, TreeOf[rlogSize]) => Provable(i)

(* A statement of the documents that the code does not keep: "Verifier can   *)
(* prove an ATC was revoked at time T", whichever entry it is and however    *)
(* many there are.                                                           *)
EveryEntryProvable == Covered => \A i \in 0 .. rlogSize - 1 : Provable(i)
=============================================================================
