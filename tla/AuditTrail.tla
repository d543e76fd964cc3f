----------------------------- MODULE AuditTrail -----------------------------
(***************************************************************************)
(* AuditLog (packages/audit/src/index.ts): receipts appended to a Merkle   *)
(* tree that is rebuilt each time, and the roots published on demand.      *)
(***************************************************************************)
EXTENDS Naturals, Sequences, MerkleTrees

CONSTANTS
  MaxReceipts,   \* bound of the trail
  MaxPublished   \* bound of the published roots

ASSUME TrailAssumption == MaxReceipts \in Nat /\ MaxPublished \in Nat

VARIABLES
  alogSize,     \* receipts in the tree
  alogRoot,     \* the root as last rebuilt
  alogSigned    \* signedRoots: [root, size]

alogVars == <<alogSize, alogRoot, alogSigned>>

ReceiptTree == [n \in 1 .. MaxReceipts |-> Levels(n, "doubled")]

AlogInit ==
  /\ alogSize = 0
  /\ alogRoot = << >>
  /\ alogSigned = << >>

(* Slip: the tree is not rebuilt. *)
AddUnbuilt ==
  /\ alogSize < MaxReceipts
  /\ alogSize' = alogSize + 1
  /\ UNCHANGED <<alogRoot, alogSigned>>

AddReceipt ==
  /\ alogSize < MaxReceipts
  /\ alogSize' = alogSize + 1
  /\ alogRoot' = RootOf(ReceiptTree[alogSize + 1])
  /\ UNCHANGED alogSigned

(* publishRoot throws while the tree is empty                               *)
PublishRoot ==
  /\ alogSize > 0
  /\ Len(alogSigned) < MaxPublished
  /\ alogSigned' = Append(alogSigned, [root |-> alogRoot, size |-> alogSize])
  /\ UNCHANGED <<alogSize, alogRoot>>

AlogNext == AddReceipt \/ PublishRoot

AlogSpec == AlogInit /\ [][AlogNext]_alogVars
-----------------------------------------------------------------------------
(* verifyReceipt: is the i-th receipt reported as included?                 *)
Included(i) == Leads(i, AuditPath(i, ReceiptTree[alogSize]), alogRoot)

(* verifyIntegrity                                                          *)
Intact ==
  alogSigned # << >> /\ alogSigned[Len(alogSigned)].root = alogRoot

(* A receipt of the trail is reported as included exactly when no node above *)
(* it is the odd last one of its level, and the trail is reported as intact  *)
(* exactly while nothing was added since its root was last published.        *)
TrailAnswers ==
  /\ \A i \in 0 .. alogSize - 1 : Included(i) <=> ~HasOddAncestor(i, ReceiptTree[alogSize])
  /\ Intact <=> alogSigned # << >> /\ alogSigned[Len(alogSigned)].size = alogSize
=============================================================================
