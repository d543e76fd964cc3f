------------------------ MODULE ThresholdSignatures ------------------------
(***************************************************************************)
(* Credentials with several signatures (adapters/multisig.ts): signers are *)
(* appended to the list one request after the other, and verifyMultiSig    *)
(* counts the entries that verify.  Everyone who holds the credential can  *)
(* add entries of his own to the list, which no signature covers.          *)
(***************************************************************************)
EXTENDS Naturals, Sequences, FiniteSets

CONSTANTS
  Signers,       \* key ids
  SigPolicies,   \* [min, required, closed]: min_signatures, required_key_ids,
                 \* fail_closed_unknown_keys
  MaxSigs        \* bound of the list

ASSUME SigAssumption ==
  /\ SigPolicies \subseteq [min : Nat, required : SUBSET Signers, closed : BOOLEAN]
  /\ MaxSigs \in Nat

VARIABLES
  msigList,     \* credential.signatures: [key, form]
  msigKnown,    \* the keys of the verifier's map
  msigPolicy    \* its policy

msigVars == <<msigList, msigKnown, msigPolicy>>

(* How an entry is made: as appendSignatures makes it, or with one thing    *)
(* wrong                                                                    *)
Forms == {"good", "malformed", "domain", "value", "evidence"}

MsigInit ==
  /\ msigList = << >>
  /\ msigKnown \in SUBSET Signers
  /\ msigPolicy \in SigPolicies

AppendSignatures(signers) ==
  /\ Len(msigList) + Len(signers) <= MaxSigs
  /\ msigList' = msigList \o [i \in 1 .. Len(signers) |-> [key |-> signers[i], form |-> "good"]]
  /\ UNCHANGED <<msigKnown, msigPolicy>>

(* Somebody else adds an entry                                              *)
AddEntry(k, form) ==
  /\ Len(msigList) < MaxSigs
  /\ msigList' = Append(msigList, [key |-> k, form |-> form])
  /\ UNCHANGED <<msigKnown, msigPolicy>>

MsigNext ==
  \/ \E k, l \in Signers : AppendSignatures(<<k>>) \/ AppendSignatures(<<k, l>>)
  \/ \E k \in Signers, form \in Forms : AddEntry(k, form)

MsigSpec == MsigInit /\ [][MsigNext]_msigVars
-----------------------------------------------------------------------------
(* Slip: the evidence hash is not compared. *)
VerifiesWithoutHash(s) == s.form \in {"good", "evidence"} /\ s.key \in msigKnown

Verifies(s) == s.form = "good" /\ s.key \in msigKnown

(* Does an entry raise an issue?  An entry that is malformed, of another    *)
(* domain or does not verify raises none, and is not counted.               *)
Issue(s) == msigPolicy.closed /\ s.form \notin {"malformed", "domain"} /\ s.key \notin msigKnown

VerifiedCount(list) == Cardinality({i \in DOMAIN list : Verifies(list[i])})
PresentKeys(list)   == {list[i].key : i \in {j \in DOMAIN list : Verifies(list[j])}}

QuorumMet(list) == VerifiedCount(list) >= msigPolicy.min

(* verifyMultiSig                                                           *)
VerifyMultiSig(list) ==
  /\ list # << >>
  /\ \A i \in DOMAIN list : ~Issue(list[i])
  /\ QuorumMet(list)
  /\ msigPolicy.required \subseteq PresentKeys(list)

(* Every required key has signed what verifies, and min_signatures different *)
(* keys have unless one of them is in the list twice, for entries are        *)
(* counted and not keys.  The other entries say nothing: one that does not   *)
(* verify is left out of the count, and the credential may still pass.       *)
QuorumStands ==
  VerifyMultiSig(msigList) =>
    /\ \A k \in msigPolicy.required : [key |-> k, form |-> "good"] \in {msigList[i] : i \in DOMAIN msigList}
    /\ Cardinality(PresentKeys(msigList)) < msigPolicy.min =>
         \E i, j \in DOMAIN msigList : i # j /\ msigList[i] = msigList[j]
=============================================================================
