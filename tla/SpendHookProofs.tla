--------------------------- MODULE SpendHookProofs ---------------------------
(***************************************************************************)
(* Proofs about SpendHook for every policy, every set of calls and every   *)
(* behaviour of the verifier and the revocation service: the evidence an   *)
(* ALLOW rests on, how far a check before the awaits and a charge after    *)
(* them let a budget overshoot, and the ledger the charges are read from.  *)
(***************************************************************************)
EXTENDS SpendHook, FiniteSetTheorems, WellFoundedInduction, TLAPS

(* A day's number never exceeds the clock it is computed from.              *)
LEMMA DayBounded ==
  ASSUME NEW n \in Nat, NEW d \in Nat \ {0}
  PROVE  n \div d \in 0 .. n
OBVIOUS

(* The day a spend is recorded on is one the ledger has a row for.          *)
LEMMA TodayIsADay == TypeOK => Today \in Days
<1> SUFFICES ASSUME TypeOK PROVE Today \in Days
  OBVIOUS
<1>1. now \in Nat /\ now <= MaxTime /\ MaxTime \in Nat /\ DayLength \in Nat \ {0}
  BY HookAssumption DEF HookAssumption, TypeOK
<1>2. now \div DayLength \in 0 .. now
  BY <1>1, DayBounded
<1>3. QED
  BY <1>1, <1>2 DEF Today, Days

(* What authorize decides before its first await is a refusal or a pass.    *)
LEMMA AdmissionType ==
  ASSUME NEW o
  PROVE  Admission(o) \in Refusals \cup {"pass"}
BY DEF Admission, Refusals

LEMMA TypeInit == Init => TypeOK
<1> SUFFICES ASSUME Init PROVE TypeOK
  OBVIOUS
<1>1. now \in 0 .. MaxTime
  BY HookAssumption DEF Init, HookAssumption
<1>2. evidence \in [Calls -> [verdict: Verdict \cup {NoVerdict}, band: Bands,
                             at: 0 .. MaxTime]]
  BY HookAssumption DEF Init, HookAssumption, NoEvidence
<1>3. QED
  BY <1>1, <1>2 DEF Init, TypeOK, Days

(* Returning a refusal, or throwing, keeps the types of what it writes.     *)
LEMMA FinishType ==
  ASSUME TypeOK, NEW c \in Calls, NEW how \in {Threw} \cup Refusals, Finish(c, how)
  PROVE  /\ pc' \in [Calls -> {"idle", "verify", "revocation", "done"}]
         /\ outcome' \in [Calls -> {"none", "allow", Threw} \cup Refusals]
         /\ spentAll' \in Nat
         /\ spentOn' \in [Agents -> [Days -> Nat]]
BY DEF Finish, TypeOK

(* So does recording a spend: the amount is added to a row that exists.     *)
LEMMA AllowType ==
  ASSUME TypeOK, NEW c \in Calls, Allow(c)
  PROVE  /\ pc' \in [Calls -> {"idle", "verify", "revocation", "done"}]
         /\ outcome' \in [Calls -> {"none", "allow", Threw} \cup Refusals]
         /\ spentAll' \in Nat
         /\ spentOn' \in [Agents -> [Days -> Nat]]
<1>1. op[c].amount \in Nat /\ op[c].agent \in Agents
  BY HookAssumption DEF HookAssumption, TypeOK, Op
<1>2. spentAll' \in Nat
  BY <1>1 DEF Allow, TypeOK
<1>3. spentOn' \in [Agents -> [Days -> Nat]]
  <2> DEFINE a == op[c].agent
  <2>1. spentOn[a][Today] + op[c].amount \in Nat
    BY <1>1, TodayIsADay DEF TypeOK
  <2>2. [spentOn[a] EXCEPT ![Today] = @ + op[c].amount] \in [Days -> Nat]
    BY <1>1, <2>1 DEF TypeOK
  <2>3. QED
    BY <1>1, <2>2 DEF Allow, TypeOK
<1>4. QED
  BY <1>2, <1>3 DEF Allow, TypeOK

(* What a reply carries is typed, whatever the verifier chose to send.      *)
LEMMA ReplyType ==
  ASSUME TypeOK, NEW r \in Replies
  PROVE  r.verdict \in Verdict \cup {NoVerdict} /\ BandOf(r) \in Bands
<1>1. r.verdict \in Verdict \cup {NoVerdict} /\ r.band \in Bands /\ r.uts \in Bands
  BY HookAssumption DEF HookAssumption, TypeOK, Replies
<1>2. CASE r.verdict = NoVerdict
  BY <1>1, <1>2 DEF BandOf
<1>3. CASE r.verdict \in Verdict
  BY <1>1, <1>3 DEF BandOf, Verdict
<1>4. QED
  BY <1>1, <1>2, <1>3

LEMMA AuthorizeType ==
  ASSUME TypeOK, NEW c \in Calls, Authorize(c)
  PROVE  TypeOK'
<1>1. late' \subseteq Calls
  BY DEF Authorize, TypeOK
<1>2. CASE Admission(op[c]) = "pass"
  BY <1>1, <1>2 DEF Authorize, TypeOK
<1>3. CASE Admission(op[c]) # "pass"
  <2>1. Admission(op[c]) \in {Threw} \cup Refusals
    BY <1>3, AdmissionType
  <2>2. Finish(c, Admission(op[c]))
    BY <1>3 DEF Authorize, Deny
  <2>3. QED
    BY <1>1, <2>1, <2>2, FinishType DEF Authorize, TypeOK
<1>4. QED
  BY <1>2, <1>3

LEMMA VerifyReplyType ==
  ASSUME TypeOK, NEW c \in Calls, NEW r \in Replies, VerifyReply(c, r)
  PROVE  TypeOK'
<1>1. /\ UNCHANGED <<now, op, verdicts, revoked, lookup, late>>
  BY DEF VerifyReply
<1>2. CASE \E how \in {Threw} \cup Refusals : Finish(c, how) /\ UNCHANGED evidence
  <2>1. PICK how \in {Threw} \cup Refusals : Finish(c, how) /\ UNCHANGED evidence
    BY <1>2
  <2>2. QED
    BY <1>1, <2>1, FinishType DEF TypeOK
<1>3. CASE /\ r.kind = "verified"
           /\ VerdictAccepted(c, r)
  <2>1. evidence' = [evidence EXCEPT ![c] =
                       [verdict |-> r.verdict, band |-> BandOf(r), at |-> now]]
    BY <1>3 DEF VerifyReply
  <2>2. evidence' \in [Calls -> [verdict: Verdict \cup {NoVerdict}, band: Bands,
                                 at: 0 .. MaxTime]]
    BY <2>1, ReplyType DEF TypeOK
  <2>3. CASE \E i \in GrantFor(op[c]) : BandSufficient(BandOf(r), Grants[i].minBand)
    <3>1. /\ pc' = [pc EXCEPT ![c] = "revocation"]
          /\ UNCHANGED <<outcome, spentAll, spentOn>>
      BY <1>3, <2>3 DEF VerifyReply
    <3>2. QED
      BY <1>1, <2>2, <3>1 DEF TypeOK
  <2>4. CASE ~ \E i \in GrantFor(op[c]) : BandSufficient(BandOf(r), Grants[i].minBand)
    <3>1. Finish(c, "band")
      BY <1>3, <2>4 DEF VerifyReply, Deny
    <3>2. QED
      BY <1>1, <2>2, <3>1, FinishType DEF TypeOK, Refusals
  <2>5. QED
    BY <2>3, <2>4
<1>4. QED
  BY <1>2, <1>3 DEF VerifyReply, Deny, Refusals

(* The three ways revocationCheck can end: a refusal or a recorded spend.   *)
LEMMA RevocationType ==
  ASSUME TypeOK, NEW c \in Calls,
         SkipRevocation(c) \/ RevocationReply(c) \/ RevocationDown(c)
  PROVE  TypeOK'
<1>1. UNCHANGED <<now, op, verdicts, evidence, revoked, lookup, late>>
  BY DEF SkipRevocation, RevocationReply, RevocationDown
<1>2. Allow(c) \/ \E how \in {"revoked", "fail_closed"} : Finish(c, how)
  BY DEF SkipRevocation, RevocationReply, RevocationDown, Deny
<1>3. CASE Allow(c)
  BY <1>1, <1>3, AllowType DEF TypeOK
<1>4. CASE \E how \in {"revoked", "fail_closed"} : Finish(c, how)
  <2>1. PICK how \in {"revoked", "fail_closed"} : Finish(c, how)
    BY <1>4
  <2>2. how \in {Threw} \cup Refusals
    BY <2>1 DEF Refusals
  <2>3. QED
    BY <1>1, <2>1, <2>2, FinishType DEF TypeOK
<1>5. QED
  BY <1>2, <1>3, <1>4

(* What the verifier signs is a verdict, also when it skews the date.       *)
LEMMA VerifierSignsType ==
  ASSUME TypeOK, NEW c \in Calls, NEW s \in Shapes, NEW o \in Op,
         NEW b \in VerdictBands, VerifierSigns(c, s, o, b)
  PROVE  TypeOK'
<1> DEFINE v == [kid |-> s.kid, key |-> s.key, challenge |-> c,
                 resource |-> o.resource, amount |-> o.amount, band |-> b,
                 window |-> s.window, issued |-> now + s.skew,
                 expires |-> s.expires]
<1>1. s \in Shape /\ b \in Bands /\ now \in Nat
  BY HookAssumption DEF HookAssumption, TypeOK
<1>2. now + s.skew \in Nat
  BY <1>1 DEF Shape
<1>3. v \in Verdict
  BY <1>1, <1>2 DEF Shape, Op, Verdict
<1>4. verdicts' = verdicts \cup {v}
  BY DEF VerifierSigns
<1> HIDE DEF v
<1>5. QED
  BY <1>3, <1>4 DEF VerifierSigns, TypeOK

LEMMA TypeNext == TypeOK /\ [Next]_hookVars => TypeOK'
<1> SUFFICES ASSUME TypeOK, [Next]_hookVars PROVE TypeOK'
  OBVIOUS
<1>1. ASSUME NEW c \in Calls, Authorize(c) PROVE TypeOK'
  BY <1>1, AuthorizeType
<1>2. ASSUME NEW c \in Calls, NEW r \in Replies, VerifyReply(c, r) PROVE TypeOK'
  BY <1>2, VerifyReplyType
<1>3. ASSUME NEW c \in Calls,
             SkipRevocation(c) \/ RevocationReply(c) \/ RevocationDown(c)
      PROVE  TypeOK'
  BY <1>3, RevocationType
<1>4. ASSUME NEW c \in Calls, NEW s \in Shapes, NEW o \in Op,
             NEW b \in VerdictBands, VerifierSigns(c, s, o, b)
      PROVE  TypeOK'
  BY <1>4, VerifierSignsType
<1>5. ASSUME NEW c \in Calls, RegistryAnswers(c) PROVE TypeOK'
  BY <1>5 DEF RegistryAnswers, TypeOK
<1>6. ASSUME NEW a \in Agents, RegistryRevokes(a) PROVE TypeOK'
  BY <1>6 DEF RegistryRevokes, TypeOK
<1>7. CASE Tick
  BY <1>7, HookAssumption DEF Tick, TypeOK, HookAssumption
<1>8. CASE UNCHANGED hookVars
  BY <1>8 DEF hookVars, TypeOK
<1>9. QED
  BY <1>1, <1>2, <1>3, <1>4, <1>5, <1>6, <1>7, <1>8 DEF Next, Quiescent

(* TypeCorrect: in every run of the hook, under every policy and whatever   *)
(* the verifier and the revocation service answer, the ledger, the          *)
(* suspended calls and the evidence keep their types.                       *)
THEOREM TypeCorrect == Spec => []TypeOK
<1>1. Init => TypeOK
  BY TypeInit
<1>2. TypeOK /\ [Next]_hookVars => TypeOK'
  BY TypeNext
<1>3. QED
  BY <1>1, <1>2, PTL DEF Spec
-----------------------------------------------------------------------------
(***************************************************************************)
(* What an allowed spend rests on: its own signed verdict, a band that     *)
(* reaches the grant, and an agent not revoked before the call.  Proved    *)
(* for every pin set, every grant list and every answer of the verifier.   *)
(***************************************************************************)

(* Accepted and not yet refused: waiting for revocation, or allowed         *)
Passed(c) == pc[c] = "revocation" \/ outcome[c] = "allow"

Backed(c) ==
  ScopeBinding = "strict" =>
    /\ evidence[c].verdict \in verdicts
    /\ ScopeBound(evidence[c].verdict, c, op[c].resource, op[c].amount, evidence[c].at)

Banded(c) ==
  \E i \in GrantFor(op[c]) : BandSufficient(evidence[c].band, Grants[i].minBand)

(* An undecided call has no outcome; what passed utaVerify keeps evidence.  *)
EvidenceInv ==
  /\ TypeOK
  /\ \A c \in Calls : pc[c] # "done" => outcome[c] = "none"
  /\ \A c \in Calls : Passed(c) => Backed(c) /\ Banded(c)

LEMMA EvidenceInit == Init => EvidenceInv
BY TypeInit DEF Init, EvidenceInv, Passed

(* The steps of every other call leave c's evidence alone.                  *)
LEMMA EvidenceKept ==
  ASSUME EvidenceInv, NEW c \in Calls, Passed(c), op' = op,
         evidence'[c] = evidence[c], verdicts \subseteq verdicts'
  PROVE  (Backed(c) /\ Banded(c))'
<1>1. Backed(c) /\ Banded(c)
  BY DEF EvidenceInv
<1>2. Backed(c)'
  BY <1>1 DEF Backed
<1>3. Banded(c)'
  BY <1>1 DEF Banded, GrantFor
<1>4. QED
  BY <1>2, <1>3

LEMMA EvidenceNext == EvidenceInv /\ [Next]_hookVars => EvidenceInv'
<1> SUFFICES ASSUME EvidenceInv, [Next]_hookVars PROVE EvidenceInv'
  OBVIOUS
<1>1. TypeOK /\ TypeOK'
  BY TypeNext DEF EvidenceInv
<1>2. op' = op /\ verdicts \subseteq verdicts'
  BY DEF Next, Quiescent, Tick, RegistryRevokes, RegistryAnswers, VerifierSigns,
         RevocationDown, RevocationReply, SkipRevocation, VerifyReply, Authorize,
         hookVars
<1>3. ASSUME NEW c \in Calls, Authorize(c) PROVE EvidenceInv'
  <2>1. /\ pc[c] = "idle" /\ UNCHANGED evidence
        /\ \/ /\ pc' = [pc EXCEPT ![c] = "verify"] /\ outcome' = outcome
           \/ /\ pc' = [pc EXCEPT ![c] = "done"]
              /\ outcome' = [outcome EXCEPT ![c] = Admission(op[c])]
    BY <1>3 DEF Authorize, Deny, Finish
  <2>2. Admission(op[c]) # "allow"
    BY AdmissionType DEF Refusals
  <2>3. \A d \in Calls : pc'[d] # "done" => outcome'[d] = "none"
    BY <1>1, <2>1 DEF EvidenceInv, TypeOK
  <2>4. \A d \in Calls : Passed(d)' => Passed(d)
    BY <1>1, <2>1, <2>2 DEF EvidenceInv, TypeOK, Passed
  <2>5. QED
    BY <1>1, <1>2, <2>1, <2>3, <2>4, EvidenceKept DEF EvidenceInv
<1>4. ASSUME NEW c \in Calls, NEW r \in Replies, VerifyReply(c, r) PROVE EvidenceInv'
  <2>1. pc[c] = "verify"
    BY <1>4 DEF VerifyReply
  <2>2. CASE \E how \in {Threw} \cup Refusals : Finish(c, how)
    <3>1. PICK how \in {Threw} \cup Refusals : Finish(c, how)
      BY <2>2
    <3>2. /\ pc' = [pc EXCEPT ![c] = "done"]
          /\ outcome' = [outcome EXCEPT ![c] = how] /\ how # "allow"
      BY <3>1 DEF Finish, Refusals, Threw
    <3>3. \A d \in Calls : d # c => evidence'[d] = evidence[d]
      BY <1>1, <1>4 DEF VerifyReply, TypeOK
    <3>4. \A d \in Calls : pc'[d] # "done" => outcome'[d] = "none"
      BY <1>1, <3>2 DEF EvidenceInv, TypeOK
    <3>5. \A d \in Calls : Passed(d)' => Passed(d) /\ d # c
      BY <1>1, <3>2 DEF EvidenceInv, TypeOK, Passed
    <3>6. QED
      BY <1>1, <1>2, <3>3, <3>4, <3>5, EvidenceKept DEF EvidenceInv
  <2>3. CASE /\ r.kind = "verified"
             /\ VerdictAccepted(c, r)
             /\ \E i \in GrantFor(op[c]) : BandSufficient(BandOf(r), Grants[i].minBand)
    <3>1. /\ pc' = [pc EXCEPT ![c] = "revocation"] /\ outcome' = outcome
          /\ evidence' = [evidence EXCEPT ![c] =
                            [verdict |-> r.verdict, band |-> BandOf(r), at |-> now]]
          /\ verdicts' = verdicts
      BY <1>4, <2>3 DEF VerifyReply
    <3>2. evidence'[c] = [verdict |-> r.verdict, band |-> BandOf(r), at |-> now]
      BY <1>1, <3>1 DEF TypeOK
    <3>3. Banded(c)'
      <4>1. PICK i \in GrantFor(op[c]) : BandSufficient(BandOf(r), Grants[i].minBand)
        BY <2>3
      <4>2. i \in GrantFor(op[c])'
        BY <1>2, <4>1 DEF GrantFor
      <4>3. evidence'[c].band = BandOf(r)
        BY <3>2
      <4>4. BandSufficient(evidence[c].band, Grants[i].minBand)'
        BY <4>1, <4>3 DEF BandSufficient
      <4>5. QED
        BY <4>2, <4>4 DEF Banded
    <3>4. Backed(c)'
      <4> SUFFICES ASSUME ScopeBinding = "strict"
                   PROVE  /\ r.verdict \in verdicts
                          /\ ScopeBound(r.verdict, c, op[c].resource, op[c].amount, now)
        BY <1>2, <3>1, <3>2 DEF Backed
      <4>1. ScopeBound(r.verdict, c, op[c].resource, op[c].amount, now)
        BY <2>3 DEF VerdictAccepted
      <4>2. r.verdict # NoVerdict
        BY <4>1 DEF ScopeBound
      <4>3. QED
        BY <4>1, <4>2 DEF Replies
    <3>5. \A d \in Calls : pc'[d] # "done" => outcome'[d] = "none"
      BY <1>1, <2>1, <3>1 DEF EvidenceInv, TypeOK
    <3>6. \A d \in Calls : d # c => evidence'[d] = evidence[d] /\ (Passed(d)' => Passed(d))
      BY <1>1, <3>1 DEF TypeOK, Passed
    <3>7. QED
      BY <1>1, <1>2, <3>3, <3>4, <3>5, <3>6, EvidenceKept DEF EvidenceInv
  <2>4. QED
    BY <1>4, <2>2, <2>3 DEF VerifyReply, Deny, Refusals
<1>5. ASSUME NEW c \in Calls,
             SkipRevocation(c) \/ RevocationReply(c) \/ RevocationDown(c)
      PROVE  EvidenceInv'
  <2>1. /\ pc[c] = "revocation" /\ UNCHANGED evidence
        /\ pc' = [pc EXCEPT ![c] = "done"]
        /\ \E how : outcome' = [outcome EXCEPT ![c] = how]
    BY <1>5 DEF SkipRevocation, RevocationReply, RevocationDown, Allow, Deny, Finish
  <2>2. \A d \in Calls : pc'[d] # "done" => outcome'[d] = "none"
    BY <1>1, <2>1 DEF EvidenceInv, TypeOK
  <2>3. \A d \in Calls : Passed(d)' => Passed(d)
    BY <1>1, <2>1 DEF TypeOK, Passed
  <2>4. QED
    BY <1>1, <1>2, <2>1, <2>2, <2>3, EvidenceKept DEF EvidenceInv
<1>6. CASE UNCHANGED <<pc, outcome, evidence>>
  <2>1. \A d \in Calls : Passed(d)' => Passed(d)
    BY <1>6 DEF Passed
  <2>2. QED
    BY <1>1, <1>2, <1>6, <2>1, EvidenceKept DEF EvidenceInv
<1>7. QED
  BY <1>3, <1>4, <1>5, <1>6 DEF Next, Quiescent, Tick, RegistryRevokes,
     RegistryAnswers, VerifierSigns, hookVars

LEMMA EvidenceInductive == Spec => []EvidenceInv
<1>1. Init => EvidenceInv
  BY EvidenceInit
<1>2. EvidenceInv /\ [Next]_hookVars => EvidenceInv'
  BY EvidenceNext
<1>3. QED
  BY <1>1, <1>2, PTL DEF Spec
-----------------------------------------------------------------------------
LEMMA EvidenceBacks == EvidenceInv => BackedByOwnVerdict
<1> SUFFICES ASSUME EvidenceInv, ScopeBinding = "strict", NEW c \in Allowed
             PROVE  LET v == evidence[c].verdict IN
                      /\ v \in verdicts
                      /\ v.challenge = c
                      /\ v.resource = op[c].resource
                      /\ v.amount = op[c].amount
                      /\ \E i \in DOMAIN Pins :
                           /\ Pins[i].key = v.key
                           /\ Pins[i].kid = v.kid \/ (v.kid = "none" /\ Len(Pins) = 1)
  BY DEF BackedByOwnVerdict
<1> DEFINE v == evidence[c].verdict
<1>1. Backed(c)
  BY DEF EvidenceInv, Allowed, Passed
<1>2. v \in verdicts /\ ScopeBound(v, c, op[c].resource, op[c].amount, evidence[c].at)
  BY <1>1 DEF Backed
<1> HIDE DEF v
<1>3. /\ v.challenge = c /\ v.resource = op[c].resource /\ v.amount = op[c].amount
      /\ \E i \in SelectedPin(v) : v.key = Pins[i].key
  BY <1>2 DEF ScopeBound
<1>4. \A i \in SelectedPin(v) :
        i \in DOMAIN Pins /\ (Pins[i].kid = v.kid \/ (v.kid = "none" /\ Len(Pins) = 1))
  BY DEF SelectedPin, First
<1>5. QED
  BY <1>2, <1>3, <1>4 DEF v

LEMMA EvidenceBands == EvidenceInv => BandReachesGrant
<1> SUFFICES ASSUME EvidenceInv, NEW c \in Allowed
             PROVE  \E i \in DOMAIN Grants :
                      /\ Grants[i].agent = op[c].agent
                      /\ Grants[i].resources \cap {"*", op[c].resource} # {}
                      /\ Grants[i].minBand # "none" =>
                           /\ evidence[c].band \in DOMAIN BandRank
                           /\ BandRank[evidence[c].band] >= BandRank[Grants[i].minBand]
  BY DEF BandReachesGrant
<1>1. PICK i \in GrantFor(op[c]) : BandSufficient(evidence[c].band, Grants[i].minBand)
  BY DEF EvidenceInv, Allowed, Passed, Banded
<1>2. /\ i \in DOMAIN Grants /\ Grants[i].agent = op[c].agent
      /\ Grants[i].resources \cap {"*", op[c].resource} # {}
  BY <1>1 DEF GrantFor, GrantsOf, First
<1>3. QED
  BY <1>1, <1>2 DEF BandSufficient

LEMMA BackedOnce == BackedByOwnVerdict => VerdictSpentOnce
BY DEF BackedByOwnVerdict, VerdictSpentOnce

(* BackedByEvidence: under strict scope binding an allowed spend holds a    *)
(* verdict for its own challenge, resource and amount, signed by a pinned   *)
(* key, whatever verdicts were signed, replayed or mixed up; that it had    *)
(* not expired is not said, for a date that does not parse never expires.   *)
THEOREM BackedByEvidence == Spec => []BackedByOwnVerdict
BY EvidenceInductive, EvidenceBacks, PTL

(* NoVerdictReuse: two allowed calls never rest on the same verdict.        *)
THEOREM NoVerdictReuse == Spec => []VerdictSpentOnce
BY BackedByEvidence, BackedOnce, PTL

(* BandReached: the band of the accepted reply, signed or not, reaches the   *)
(* threshold of a grant for the agent and the resource; absent and unknown  *)
(* bands never do.                                                          *)
THEOREM BandReached == Spec => []BandReachesGrant
BY EvidenceInductive, EvidenceBands, PTL

(* RevokedKeyAdmitsNothing: where every pin has a key id of its own, no      *)
(* verdict signed at or after the revocation of the key it names admits a   *)
(* spend unless its issued_at does not parse.  Of two pins of one id the    *)
(* code reads the first alone.                                              *)
THEOREM RevokedKeyAdmitsNothing ==
  (\A i, j \in DOMAIN Pins : Pins[i].kid = Pins[j].kid => i = j)
    => (Spec => []NoVerdictOfRevokedKey)
<1> SUFFICES ASSUME \A i, j \in DOMAIN Pins : Pins[i].kid = Pins[j].kid => i = j
             PROVE  Spec => []NoVerdictOfRevokedKey
  OBVIOUS
<1>1. EvidenceInv => NoVerdictOfRevokedKey
  <2> SUFFICES ASSUME EvidenceInv, ScopeBinding = "strict", NEW c \in Allowed, NEW i \in DOMAIN Pins,
                      Pins[i].kid = evidence[c].verdict.kid, Pins[i].revokedAt # 0,
                      evidence[c].verdict.window # "unparsable"
               PROVE  evidence[c].verdict.issued < Pins[i].revokedAt
    BY DEF NoVerdictOfRevokedKey
  <2> DEFINE v == evidence[c].verdict
  <2>1. Backed(c)
    BY DEF EvidenceInv, Allowed, Passed
  <2>2. v \in verdicts /\ ScopeBound(v, c, op[c].resource, op[c].amount, evidence[c].at)
    BY <2>1 DEF Backed
  <2>3. v.kid = Pins[i].kid /\ v.window = "date" /\ v.issued \in Nat /\ Pins[i].revokedAt \in Nat
    <3>1. v \in Verdict
      BY <2>2 DEF EvidenceInv, TypeOK
    <3>2. Pins[i] \in Pin
      BY BindingAssumption DEF BindingAssumption
    <3>3. v.kid = Pins[i].kid /\ v.window # "unparsable" /\ v.window # "missing"
      BY <2>2 DEF ScopeBound
    <3> HIDE DEF v
    <3>4. v.issued \in Nat /\ v.window = "date"
      BY <3>1, <3>3 DEF Verdict, Windows
    <3>5. Pins[i].revokedAt \in Nat
      BY <3>2 DEF Pin
    <3>6. QED
      BY <3>3, <3>4, <3>5
  <2> HIDE DEF v
  <2>4. PICK j \in SelectedPin(v) : PinCovers(Pins[j], v)
    BY <2>2 DEF ScopeBound
  <2>5. i = j
    BY <2>3, <2>4, BindingAssumption DEF SelectedPin, First, BindingAssumption
  <2>6. ~(v.issued > Pins[i].revokedAt) /\ v.issued # Pins[i].revokedAt
    BY <2>3, <2>4, <2>5 DEF PinCovers, IssuedAfter
  <2>7. v.issued < Pins[i].revokedAt
    BY <2>3, <2>6
  <2>8. QED
    BY <2>7 DEF v
<1>2. QED
  BY <1>1, EvidenceInductive, PTL

(* The verifier signs nothing but what a shape says of the window.          *)
WindowInv ==
  /\ EvidenceInv
  /\ \A v \in verdicts : \E s \in Shapes : v.window = s.window

LEMMA WindowNext == WindowInv /\ [Next]_hookVars => WindowInv'
<1> SUFFICES ASSUME WindowInv, [Next]_hookVars PROVE WindowInv'
  OBVIOUS
<1>1. EvidenceInv'
  BY EvidenceNext DEF WindowInv
<1>2. CASE verdicts' = verdicts
  BY <1>1, <1>2 DEF WindowInv
<1>3. ASSUME NEW c \in Calls, NEW s \in Shapes, NEW o \in Op, NEW b \in VerdictBands,
             VerifierSigns(c, s, o, b)
      PROVE  WindowInv'
  <2>1. \A v \in verdicts' : v \in verdicts \/ v.window = s.window
    BY <1>3 DEF VerifierSigns
  <2>2. QED
    BY <1>1, <2>1 DEF WindowInv
<1>4. QED
  BY <1>2, <1>3 DEF Next, Quiescent, Tick, RegistryRevokes, RegistryAnswers,
     RevocationDown, RevocationReply, SkipRevocation, VerifyReply, Authorize, hookVars

(* WindowWhereDatesParse: with a verifier whose issued_at is a date, where  *)
(* it gives one, the verdict of an allowed spend was accepted inside its    *)
(* window, no longer than MaxExpires and no more than MaxSkew ahead.  A     *)
(* date that does not parse is all that breaks the bound.                   *)
THEOREM WindowWhereDatesParse ==
  (\A s \in Shapes : s.window # "unparsable") => (Spec => []WindowBounded)
<1> SUFFICES ASSUME \A s \in Shapes : s.window # "unparsable" PROVE Spec => []WindowBounded
  OBVIOUS
<1>1. Init => WindowInv
  BY EvidenceInit DEF WindowInv, Init
<1>2. WindowInv => WindowBounded
  <2> SUFFICES ASSUME WindowInv, ScopeBinding = "strict", NEW c \in Allowed
               PROVE  LET v == evidence[c].verdict IN
                        /\ v.issued <= evidence[c].at + MaxSkew
                        /\ evidence[c].at <= v.issued + MaxExpires
                        /\ v.window = "date"
    BY DEF WindowBounded
  <2> DEFINE v  == evidence[c].verdict
             at == evidence[c].at
  <2>1. EvidenceInv /\ TypeOK /\ c \in Calls
    BY DEF WindowInv, EvidenceInv, Allowed
  <2>2. v \in verdicts /\ ScopeBound(v, c, op[c].resource, op[c].amount, at)
    <3>1. Backed(c)
      BY <2>1 DEF EvidenceInv, Allowed, Passed
    <3>2. QED
      BY <3>1 DEF Backed
  <2>3. at \in Nat
    <3>1. at \in 0 .. MaxTime
      BY <2>1 DEF TypeOK
    <3>2. QED
      BY <3>1, HookAssumption DEF HookAssumption
  <2> HIDE DEF v, at
  <2>4. v \in Verdict
    BY <2>1, <2>2 DEF TypeOK
  <2>5. v.issued \in Nat /\ v.expires \in Nat /\ MaxSkew \in Nat /\ MaxExpires \in Nat
    BY <2>4, BindingAssumption DEF Verdict, BindingAssumption
  <2>6. v.window = "date"
    <3>1. v.window \in Windows
      BY <2>4 DEF Verdict
    <3>2. v.window # "unparsable"
      BY <2>2 DEF WindowInv
    <3>3. v.window # "missing"
      BY <2>2 DEF ScopeBound
    <3>4. QED
      BY <3>1, <3>2, <3>3 DEF Windows
  <2>7. ~(v.issued > at + MaxSkew) /\ v.expires <= MaxExpires /\ ~(at > v.issued + v.expires)
    BY <2>2, <2>6 DEF ScopeBound, IssuedAfter, Expired
  <2>8. v.issued <= at + MaxSkew /\ at <= v.issued + MaxExpires
    BY <2>3, <2>5, <2>7
  <2>9. QED
    BY <2>6, <2>8 DEF v, at
<1>3. QED
  BY <1>1, <1>2, WindowNext, PTL DEF Spec
-----------------------------------------------------------------------------
(* Revocation: a late call's agent is revoked, so the service cannot answer *)
(* "clear" to it any more; an answer sent before the call was made is not   *)
(* possible, since nothing is asked for a call that is idle.                *)
RevocationInv ==
  /\ EvidenceInv
  /\ \A c \in Calls : pc[c] = "idle" => lookup[c] = "none"
  /\ \A c \in late : /\ op[c].agent \in revoked
                     /\ lookup[c] # "clear"
                     /\ RevocationUrl /\ FailClosed => outcome[c] # "allow"

LEMMA RevocationInit == Init => RevocationInv
BY EvidenceInit DEF Init, RevocationInv

LEMMA RevocationNext == RevocationInv /\ [Next]_hookVars => RevocationInv'
<1> SUFFICES ASSUME RevocationInv, [Next]_hookVars PROVE RevocationInv'
  OBVIOUS
<1>1. TypeOK /\ EvidenceInv /\ EvidenceInv'
  BY EvidenceNext DEF RevocationInv, EvidenceInv
<1>2. ASSUME NEW c \in Calls, Authorize(c) PROVE RevocationInv'
  <2>1. /\ pc[c] = "idle" /\ outcome[c] = "none" /\ lookup[c] = "none"
        /\ UNCHANGED <<op, revoked, lookup>>
        /\ late' = IF op[c].agent \in revoked THEN late \cup {c} ELSE late
    BY <1>1, <1>2 DEF Authorize, RevocationInv, EvidenceInv
  <2>2. /\ pc' \in {[pc EXCEPT ![c] = "verify"], [pc EXCEPT ![c] = "done"]}
        /\ outcome' \in {outcome, [outcome EXCEPT ![c] = Admission(op[c])]}
    BY <1>2 DEF Authorize, Deny, Finish
  <2>3. Admission(op[c]) # "allow"
    BY AdmissionType DEF Refusals
  <2>4. QED
    BY <1>1, <2>1, <2>2, <2>3 DEF RevocationInv, TypeOK
<1>3. ASSUME NEW c \in Calls, NEW r \in Replies, VerifyReply(c, r) PROVE RevocationInv'
  <2>1. /\ UNCHANGED <<op, revoked, lookup, late>>
        /\ pc[c] = "verify"
        /\ pc' \in {[pc EXCEPT ![c] = "revocation"], [pc EXCEPT ![c] = "done"]}
        /\ \/ outcome' = outcome
           \/ \E how \in {Threw} \cup Refusals : outcome' = [outcome EXCEPT ![c] = how]
    BY <1>3 DEF VerifyReply, Deny, Finish, Refusals
  <2>2. "allow" \notin {Threw} \cup Refusals
    BY DEF Threw, Refusals
  <2>3. QED
    BY <1>1, <2>1, <2>2 DEF RevocationInv, TypeOK
<1>4. ASSUME NEW c \in Calls,
             SkipRevocation(c) \/ RevocationReply(c) \/ RevocationDown(c)
      PROVE  RevocationInv'
  <2>1. /\ UNCHANGED <<op, revoked, lookup, late>>
        /\ pc' = [pc EXCEPT ![c] = "done"]
        /\ \/ Allow(c) /\ ~(RevocationUrl /\ FailClosed /\ lookup[c] # "clear")
           \/ \E how \in {"revoked", "fail_closed"} : outcome' = [outcome EXCEPT ![c] = how]
    BY <1>4 DEF SkipRevocation, RevocationReply, RevocationDown, Deny, Finish, Allow
  <2>2. CASE Allow(c) /\ ~(RevocationUrl /\ FailClosed /\ lookup[c] # "clear")
    <3>1. outcome' = [outcome EXCEPT ![c] = "allow"]
      BY <2>2 DEF Allow
    <3>2. QED
      BY <1>1, <2>1, <2>2, <3>1 DEF RevocationInv, TypeOK
  <2>3. CASE \E how \in {"revoked", "fail_closed"} : outcome' = [outcome EXCEPT ![c] = how]
    BY <1>1, <2>1, <2>3 DEF RevocationInv, TypeOK
  <2>4. QED
    BY <2>1, <2>2, <2>3
<1>5. ASSUME NEW c \in Calls, RegistryAnswers(c) PROVE RevocationInv'
  BY <1>1, <1>5 DEF RegistryAnswers, RevocationInv, TypeOK
<1>6. ASSUME NEW a \in Agents, RegistryRevokes(a) PROVE RevocationInv'
  BY <1>1, <1>6 DEF RegistryRevokes, RevocationInv
<1>7. CASE UNCHANGED <<pc, op, outcome, revoked, lookup, late>>
  BY <1>1, <1>7 DEF RevocationInv
<1>8. QED
  BY <1>2, <1>3, <1>4, <1>5, <1>6, <1>7 DEF Next, Quiescent, Tick, VerifierSigns,
     hookVars

(* RevocationIsImmediate: with revocation configured fail-closed, no call   *)
(* made after its agent was revoked is allowed, whatever answers were under *)
(* way and whenever the service fails.                                      *)
THEOREM RevocationIsImmediate == Spec => []NoAllowAfterRevocation
<1>1. Init => RevocationInv
  BY RevocationInit
<1>2. RevocationInv /\ [Next]_hookVars => RevocationInv'
  BY RevocationNext
<1>3. RevocationInv => NoAllowAfterRevocation
  BY DEF RevocationInv, NoAllowAfterRevocation, Allowed
<1>4. QED
  BY <1>1, <1>2, <1>3, PTL DEF Spec
-----------------------------------------------------------------------------
(* The argument, for the spends F open against one cap: either every open   *)
(* call fits with a full step each, or the last one admitted fits with its  *)
(* own amount and the others with a full step.                              *)

Headroom(spent, F, step, bound) ==
  \/ spent + Cardinality(F) * step <= bound
  \/ \E c \in F : spent + op[c].amount + (Cardinality(F) - 1) * step <= bound

LEMMA OneStepMore ==
  ASSUME NEW k \in Nat, NEW step \in Nat
  PROVE  (k + 1) * step = k * step + step /\ k * step \in Nat
OBVIOUS

LEMMA StepsGrow ==
  ASSUME NEW k \in Nat, NEW m \in Nat, NEW step \in Nat, k <= m
  PROVE  k * step <= m * step
<1>1. PICK e \in Nat : m = k + e
  <2>1. m - k \in Nat /\ m = k + (m - k)
    OBVIOUS
  <2>2. QED
    BY <2>1
<1>2. (k + e) * step = k * step + e * step /\ e * step \in Nat /\ k * step \in Nat
  OBVIOUS
<1>3. QED
  BY <1>1, <1>2

(* Headroom keeps the spent sum within the bound.                           *)
LEMMA HeadroomBounds ==
  ASSUME NEW F, IsFiniteSet(F), \A c \in F : op[c].amount \in Nat,
         NEW spent \in Nat, NEW step \in Nat, NEW bound \in Nat,
         Headroom(spent, F, step, bound)
  PROVE  spent <= bound
<1>1. Cardinality(F) \in Nat
  BY FS_CardinalityType
<1>2. CASE spent + Cardinality(F) * step <= bound
  BY <1>1, <1>2, OneStepMore
<1>3. ASSUME NEW c \in F, spent + op[c].amount + (Cardinality(F) - 1) * step <= bound
      PROVE  spent <= bound
  <2>1. Cardinality(F) - 1 \in Nat
    BY <1>1, FS_EmptySet
  <2>2. (Cardinality(F) - 1) * step \in Nat
    BY <2>1, OneStepMore
  <2>3. QED
    BY <1>3, <2>2
<1>4. QED
  BY <1>2, <1>3 DEF Headroom

(* Admission: the amount fits under the cap and there is an open slot.      *)
LEMMA HeadroomEnter ==
  ASSUME NEW F, IsFiniteSet(F), NEW c, c \notin F, op[c].amount \in Nat,
         NEW spent \in Nat, NEW step \in Nat, NEW cap \in Nat,
         NEW m \in Nat \ {0}, Cardinality(F) < m,
         spent + op[c].amount <= cap
  PROVE  Headroom(spent, F \cup {c}, step, cap + (m - 1) * step)
<1>1. Cardinality(F) \in Nat /\ Cardinality(F \cup {c}) = Cardinality(F) + 1
  BY FS_CardinalityType, FS_AddElement
<1>2. Cardinality(F) <= m - 1 /\ m - 1 \in Nat
  BY <1>1
<1>3. Cardinality(F) * step <= (m - 1) * step
  BY <1>1, <1>2, StepsGrow
<1>4. Cardinality(F) * step \in Nat /\ (m - 1) * step \in Nat
  BY <1>1, <1>2, OneStepMore
<1>5. spent + op[c].amount + Cardinality(F) * step <= cap + (m - 1) * step
  BY <1>3, <1>4
<1>6. Cardinality(F \cup {c}) - 1 = Cardinality(F)
  BY <1>1
<1>7. QED
  BY <1>5, <1>6 DEF Headroom

(* An empty ledger has headroom for as many calls as may be open.           *)
LEMMA HeadroomFresh ==
  ASSUME NEW F, IsFiniteSet(F), NEW step \in Nat, NEW cap \in Nat, step <= cap,
         NEW m \in Nat \ {0}, Cardinality(F) <= m
  PROVE  Headroom(0, F, step, cap + (m - 1) * step)
<1>1. Cardinality(F) \in Nat
  BY FS_CardinalityType
<1>2. Cardinality(F) * step <= m * step
  BY <1>1, StepsGrow
<1>3. m - 1 \in Nat /\ m = (m - 1) + 1
  OBVIOUS
<1>4. m * step = (m - 1) * step + step
  BY <1>3, OneStepMore
<1>5. Cardinality(F) * step \in Nat /\ (m - 1) * step \in Nat
  BY <1>1, <1>3, OneStepMore
<1>6. 0 + Cardinality(F) * step <= cap + (m - 1) * step
  BY <1>2, <1>4, <1>5
<1>7. QED
  BY <1>6 DEF Headroom

(* A call that leaves, charging the ledger or not, keeps the headroom.      *)
LEMMA HeadroomLeave ==
  ASSUME NEW F, IsFiniteSet(F), NEW d \in F,
         NEW spent \in Nat, NEW step \in Nat, NEW bound \in Nat,
         \A c \in F : op[c].amount \in Nat /\ op[c].amount <= step,
         Headroom(spent, F, step, bound),
         NEW charge \in {0, op[d].amount}
  PROVE  Headroom(spent + charge, F \ {d}, step, bound)
<1> DEFINE k == Cardinality(F)
<1>1. k \in Nat /\ k - 1 \in Nat /\ Cardinality(F \ {d}) = k - 1
  BY FS_CardinalityType, FS_RemoveElement, FS_EmptySet
<1>2. charge \in Nat /\ charge <= step /\ charge <= op[d].amount /\ op[d].amount \in Nat
  OBVIOUS
<1>3. k * step = (k - 1) * step + step /\ (k - 1) * step \in Nat
  BY <1>1, OneStepMore
<1>4. CASE spent + k * step <= bound
  <2>1. (spent + charge) + (k - 1) * step <= bound
    BY <1>2, <1>3, <1>4
  <2>2. QED
    BY <1>1, <2>1 DEF Headroom
<1>5. CASE spent + op[d].amount + (k - 1) * step <= bound
  <2>1. (spent + charge) + (k - 1) * step <= bound
    BY <1>2, <1>3, <1>5
  <2>2. QED
    BY <1>1, <2>1 DEF Headroom
<1>6. ASSUME NEW c \in F, c # d, spent + op[c].amount + (k - 1) * step <= bound
      PROVE  Headroom(spent + charge, F \ {d}, step, bound)
  <2>1. k - 1 # 0
    BY <1>1, <1>6, FS_EmptySet, FS_RemoveElement
  <2>2. k - 2 \in Nat /\ k - 1 = (k - 2) + 1 /\ (k - 1) - 1 = k - 2
    BY <1>1, <2>1
  <2>3. (k - 1) * step = (k - 2) * step + step /\ (k - 2) * step \in Nat
    BY <2>2, OneStepMore
  <2>4. op[c].amount \in Nat
    OBVIOUS
  <2>5. (spent + charge) + op[c].amount + (k - 2) * step <= bound
    BY <1>2, <1>6, <2>3, <2>4
  <2>6. QED
    BY <1>1, <1>6, <2>2, <2>5 DEF Headroom
<1>7. QED
  BY <1>4, <1>5, <1>6 DEF Headroom
-----------------------------------------------------------------------------
(* What a step does to the open calls and to the ledger                     *)

Enters(c) ==
  /\ c \notin InFlight
  /\ Cardinality(InFlight) < MaxInFlight
  /\ Admission(op[c]) = "pass"
  /\ InFlight' = InFlight \cup {c}
  /\ UNCHANGED <<now, op, spentAll, spentOn>>

Leaves(c) ==
  /\ c \in InFlight
  /\ InFlight' = InFlight \ {c}
  /\ UNCHANGED <<now, op, spentAll, spentOn>>

Charges(c) ==
  /\ c \in InFlight
  /\ InFlight' = InFlight \ {c}
  /\ spentAll' = spentAll + op[c].amount
  /\ spentOn' = [spentOn EXCEPT ![op[c].agent][Today] = @ + op[c].amount]
  /\ UNCHANGED <<now, op>>

Stays == InFlight' = InFlight /\ UNCHANGED <<now, op, spentAll, spentOn>>

Passes ==
  InFlight' = InFlight /\ now' = now + 1 /\ UNCHANGED <<op, spentAll, spentOn>>

LEMMA FinishLeaves ==
  ASSUME TypeOK, NEW c \in Calls, NEW how, Finish(c, how), UNCHANGED <<now, op>>,
         c \in InFlight
  PROVE  Leaves(c)
BY DEF Finish, Leaves, InFlight, TypeOK

LEMMA AllowCharges ==
  ASSUME TypeOK, NEW c \in Calls, Allow(c), UNCHANGED <<now, op>>, c \in InFlight
  PROVE  Charges(c)
BY DEF Allow, Charges, InFlight, TypeOK

LEMMA StepKinds ==
  ASSUME TypeOK, [Next]_hookVars
  PROVE  \/ \E c \in Calls : Enters(c) \/ Leaves(c) \/ Charges(c)
         \/ Stays
         \/ Passes
<1>1. ASSUME NEW c \in Calls, Authorize(c) PROVE Enters(c) \/ Stays
  <2>1. c \notin InFlight /\ UNCHANGED <<now, op>> /\ Cardinality(InFlight) < MaxInFlight
    BY <1>1 DEF Authorize, InFlight
  <2>2. CASE Admission(op[c]) = "pass"
    <3>1. pc' = [pc EXCEPT ![c] = "verify"] /\ UNCHANGED <<spentAll, spentOn>>
      BY <1>1, <2>2 DEF Authorize
    <3>2. InFlight' = InFlight \cup {c}
      BY <3>1 DEF InFlight, TypeOK
    <3>3. QED
      BY <2>1, <2>2, <3>1, <3>2 DEF Enters
  <2>3. CASE Admission(op[c]) # "pass"
    <3>1. pc' = [pc EXCEPT ![c] = "done"] /\ UNCHANGED <<spentAll, spentOn>>
      BY <1>1, <2>3 DEF Authorize, Deny, Finish
    <3>2. InFlight' = InFlight
      BY <2>1, <3>1 DEF InFlight, TypeOK
    <3>3. QED
      BY <2>1, <3>1, <3>2 DEF Stays
  <2>4. QED
    BY <2>2, <2>3
<1>2. ASSUME NEW c \in Calls, NEW r \in Replies, VerifyReply(c, r)
      PROVE  Leaves(c) \/ Stays
  <2>1. c \in InFlight /\ UNCHANGED <<now, op>> /\ pc[c] = "verify"
    BY <1>2 DEF VerifyReply, InFlight
  <2>2. CASE \E how \in {Threw} \cup Refusals : Finish(c, how)
    BY <2>1, <2>2, FinishLeaves
  <2>3. CASE /\ pc' = [pc EXCEPT ![c] = "revocation"]
             /\ UNCHANGED <<spentAll, spentOn>>
    <3>1. InFlight' = InFlight
      BY <2>1, <2>3 DEF InFlight, TypeOK
    <3>2. QED
      BY <2>1, <2>3, <3>1 DEF Stays
  <2>4. QED
    BY <1>2, <2>2, <2>3 DEF VerifyReply, Deny, Refusals
<1>3. ASSUME NEW c \in Calls,
             SkipRevocation(c) \/ RevocationReply(c) \/ RevocationDown(c)
      PROVE  Leaves(c) \/ Charges(c)
  <2>1. c \in InFlight /\ UNCHANGED <<now, op>>
    BY <1>3 DEF SkipRevocation, RevocationReply, RevocationDown, InFlight
  <2>2. Allow(c) \/ \E how \in {"revoked", "fail_closed"} : Finish(c, how)
    BY <1>3 DEF SkipRevocation, RevocationReply, RevocationDown, Deny
  <2>3. QED
    BY <2>1, <2>2, FinishLeaves, AllowCharges
<1>4. ASSUME NEW c \in Calls, NEW s \in Shapes, NEW o \in Op,
             NEW b \in VerdictBands, VerifierSigns(c, s, o, b)
      PROVE  Stays
  BY <1>4 DEF VerifierSigns, Stays, InFlight
<1>5. ASSUME NEW c \in Calls, RegistryAnswers(c) PROVE Stays
  BY <1>5 DEF RegistryAnswers, Stays, InFlight
<1>6. ASSUME NEW a \in Agents, RegistryRevokes(a) PROVE Stays
  BY <1>6 DEF RegistryRevokes, Stays, InFlight
<1>7. CASE Tick
  BY <1>7 DEF Tick, Passes, InFlight
<1>8. CASE UNCHANGED hookVars
  BY <1>8 DEF hookVars, Stays, InFlight
<1>9. QED
  BY <1>1, <1>2, <1>3, <1>4, <1>5, <1>6, <1>7, <1>8 DEF Next, Quiescent
-----------------------------------------------------------------------------
(* The inductive invariant                                                  *)

OpenOf(a)  == {c \in InFlight : op[c].agent = a}
Bound(cap) == cap + (MaxInFlight - 1) * StepOf(cap)

SlotInv == Cardinality(InFlight) <= MaxInFlight

TotalInv ==
  TotalMax > 0 =>
    /\ \A c \in InFlight : op[c].amount <= StepOf(TotalMax)
    /\ Headroom(spentAll, InFlight, StepOf(TotalMax), Bound(TotalMax))

DayInv(a, cap) ==
  /\ \A c \in OpenOf(a) : op[c].amount <= StepOf(cap)
  /\ Headroom(spentOn[a][Today], OpenOf(a), StepOf(cap), Bound(cap))
  /\ \A d \in Days : d > Today => spentOn[a][d] = 0
  /\ \A d \in Days : d < Today => spentOn[a][d] <= Bound(cap)

Capped(a) == {i \in First(GrantsOf(a)) : Grants[i].dayCap > 0}

DailyInv == \A a \in Agents : \A i \in Capped(a) : DayInv(a, Grants[i].dayCap)

BudgetInv == TypeOK /\ SlotInv /\ TotalInv /\ DailyInv

LEMMA CapFacts ==
  ASSUME NEW cap \in Nat
  PROVE  /\ StepOf(cap) \in Nat /\ StepOf(cap) <= cap
         /\ Bound(cap) \in Nat
         /\ Bound(cap) = cap + (MaxInFlight - 1) * StepOf(cap)
         /\ cap <= Bound(cap)
<1>1. StepOf(cap) \in Nat /\ StepOf(cap) <= cap /\ MaxInFlight - 1 \in Nat
  BY HookAssumption DEF HookAssumption, StepOf
<1>2. (MaxInFlight - 1) * StepOf(cap) \in Nat
  BY <1>1, OneStepMore
<1>3. QED
  BY <1>1, <1>2 DEF Bound

LEMMA OpenCalls ==
  ASSUME TypeOK
  PROVE  /\ IsFiniteSet(InFlight)
         /\ \A c \in InFlight : op[c].amount \in Nat
         /\ \A a : IsFiniteSet(OpenOf(a)) /\ OpenOf(a) \subseteq InFlight
         /\ \A a : Cardinality(OpenOf(a)) <= Cardinality(InFlight)
<1>1. InFlight \subseteq Calls /\ IsFiniteSet(Calls)
  BY HookAssumption DEF HookAssumption, InFlight
<1>2. IsFiniteSet(InFlight)
  BY <1>1, FS_Subset
<1>3. \A a : OpenOf(a) \subseteq InFlight
  BY DEF OpenOf
<1>4. \A c \in Calls : op[c].amount \in Nat
  BY HookAssumption DEF HookAssumption, TypeOK, Op
<1>5. QED
  BY <1>1, <1>2, <1>3, <1>4, FS_Subset, FS_CardinalityType

LEMMA CappedGrant ==
  ASSUME NEW a, NEW i \in Capped(a)
  PROVE  Grants[i].dayCap \in Nat /\ Grants[i].dayCap > 0
<1>1. i \in DOMAIN Grants /\ Grants[i].dayCap > 0
  BY DEF Capped, First, GrantsOf
<1>2. Grants \in Seq(Grant)
  BY HookAssumption DEF HookAssumption
<1>3. Grants[i] \in Grant
  BY <1>1, <1>2
<1>4. QED
  BY <1>1, <1>3 DEF Grant

(* An admitted call fits under the total and under its agent's daily cap.   *)
LEMMA AdmittedFits ==
  ASSUME TypeOK, NEW c \in Calls, Admission(op[c]) = "pass"
  PROVE  /\ TotalMax > 0 => /\ spentAll + op[c].amount <= TotalMax
                            /\ op[c].amount <= StepOf(TotalMax)
         /\ \A i \in Capped(op[c].agent) :
              /\ spentOn[op[c].agent][Today] + op[c].amount <= Grants[i].dayCap
              /\ op[c].amount <= StepOf(Grants[i].dayCap)
<1>1. ~OverPerSpend(op[c]) /\ ~OverDaily(op[c]) /\ ~OverTotal(op[c])
  BY DEF Admission
<1>2. op[c].amount \in Nat /\ op[c].agent \in Agents
  BY HookAssumption DEF HookAssumption, TypeOK, Op
<1>3. PerSpendMax > 0 => op[c].amount <= PerSpendMax
  BY <1>1, <1>2, HookAssumption DEF HookAssumption, OverPerSpend
<1>4. ASSUME TotalMax > 0
      PROVE  /\ spentAll + op[c].amount <= TotalMax
             /\ op[c].amount <= StepOf(TotalMax)
  <2>1. spentAll \in Nat /\ TotalMax \in Nat /\ PerSpendMax \in Nat
    BY HookAssumption DEF HookAssumption, TypeOK
  <2>2. spentAll + op[c].amount <= TotalMax
    BY <1>1, <1>2, <1>4, <2>1 DEF OverTotal
  <2>3. QED
    BY <1>2, <1>3, <2>1, <2>2 DEF StepOf
<1>5. ASSUME NEW i \in Capped(op[c].agent)
      PROVE  /\ spentOn[op[c].agent][Today] + op[c].amount <= Grants[i].dayCap
             /\ op[c].amount <= StepOf(Grants[i].dayCap)
  <2> DEFINE a == op[c].agent
             cap == Grants[i].dayCap
  <2>1. cap \in Nat /\ PerSpendMax \in Nat /\ cap > 0
    BY <1>5, CappedGrant, HookAssumption DEF HookAssumption
  <2>2. spentOn[a][Today] \in Nat
    BY <1>2, TodayIsADay DEF TypeOK
  <2>3. ~(spentOn[a][Today] + op[c].amount > cap)
    BY <1>1, <1>5 DEF OverDaily, Capped
  <2>4. spentOn[a][Today] + op[c].amount <= cap
    BY <1>2, <2>1, <2>2, <2>3
  <2>5. op[c].amount <= StepOf(cap)
    BY <1>2, <1>3, <2>1, <2>2, <2>4 DEF StepOf
  <2>6. QED
    BY <2>4, <2>5
<1>6. QED
  BY <1>4, <1>5

(* No invocation is open and nothing is recorded: a process that starts     *)
FreshRuntime ==
  /\ InFlight = {}
  /\ spentAll = 0
  /\ spentOn = [a \in Agents |-> [d \in Days |-> 0]]

LEMMA BudgetFresh == TypeOK /\ FreshRuntime => BudgetInv
<1> SUFFICES ASSUME TypeOK, FreshRuntime PROVE BudgetInv
  OBVIOUS
<1>1. TypeOK
  OBVIOUS
<1>2. InFlight = {} /\ Cardinality(InFlight) = 0
  BY FS_EmptySet DEF FreshRuntime
<1>3. MaxInFlight \in Nat \ {0} /\ TotalMax \in Nat
  BY HookAssumption DEF HookAssumption
<1>4. SlotInv
  BY <1>2, <1>3 DEF SlotInv
<1>5. TotalInv
  <2>1. Headroom(0, InFlight, StepOf(TotalMax), Bound(TotalMax))
    <3>1. /\ StepOf(TotalMax) \in Nat /\ StepOf(TotalMax) <= TotalMax
          /\ Bound(TotalMax) = TotalMax + (MaxInFlight - 1) * StepOf(TotalMax)
      BY <1>3, CapFacts
    <3>2. IsFiniteSet(InFlight) /\ Cardinality(InFlight) <= MaxInFlight
      BY <1>2, <1>3, FS_EmptySet
    <3>3. Headroom(0, InFlight, StepOf(TotalMax),
                   TotalMax + (MaxInFlight - 1) * StepOf(TotalMax))
      BY <1>3, <3>1, <3>2, HeadroomFresh
    <3>4. QED
      BY <3>1, <3>3
  <2>2. QED
    BY <1>2, <2>1 DEF TotalInv, FreshRuntime
<1>6. DailyInv
  <2> SUFFICES ASSUME NEW a \in Agents, NEW i \in Capped(a)
               PROVE  DayInv(a, Grants[i].dayCap)
    BY DEF DailyInv
  <2> DEFINE cap == Grants[i].dayCap
  <2>1. cap \in Nat
    BY CappedGrant
  <2>2. OpenOf(a) = {} /\ Cardinality(OpenOf(a)) = 0
    BY <1>2, FS_EmptySet DEF OpenOf
  <2> HIDE DEF cap
  <2>3. Headroom(0, OpenOf(a), StepOf(cap), Bound(cap))
    <3>1. /\ StepOf(cap) \in Nat /\ StepOf(cap) <= cap
          /\ Bound(cap) = cap + (MaxInFlight - 1) * StepOf(cap)
      BY <2>1, CapFacts
    <3>2. IsFiniteSet(OpenOf(a)) /\ Cardinality(OpenOf(a)) <= MaxInFlight
      BY <1>3, <2>2, FS_EmptySet
    <3>3. Headroom(0, OpenOf(a), StepOf(cap), cap + (MaxInFlight - 1) * StepOf(cap))
      BY <1>3, <2>1, <3>1, <3>2, HeadroomFresh
    <3>4. QED
      BY <3>1, <3>3
  <2>4. \A d \in Days : spentOn[a][d] = 0
    BY DEF FreshRuntime
  <2>5. Today \in Days
    BY <1>1, TodayIsADay
  <2>6. \A d \in Days : spentOn[a][d] <= Bound(cap)
    BY <2>1, <2>4, CapFacts
  <2>7. QED
    BY <2>2, <2>3, <2>4, <2>5, <2>6 DEF DayInv, cap
<1>7. QED
  BY <1>1, <1>4, <1>5, <1>6 DEF BudgetInv

LEMMA BudgetInit == Init => BudgetInv
<1>1. Init => TypeOK /\ FreshRuntime
  BY TypeInit DEF Init, FreshRuntime, InFlight
<1>2. QED
  BY <1>1, BudgetFresh

LEMMA SlotStep ==
  ASSUME TypeOK, SlotInv, [Next]_hookVars
  PROVE  SlotInv'
<1>1. MaxInFlight \in Nat \ {0} /\ IsFiniteSet(InFlight) /\ Cardinality(InFlight) \in Nat
  BY HookAssumption, OpenCalls, FS_CardinalityType DEF HookAssumption
<1>2. ASSUME NEW c \in Calls, Enters(c) PROVE SlotInv'
  <2>1. Cardinality(InFlight') = Cardinality(InFlight) + 1
    BY <1>1, <1>2, FS_AddElement DEF Enters
  <2>2. QED
    BY <1>1, <1>2, <2>1 DEF Enters, SlotInv
<1>3. ASSUME NEW c \in Calls, Leaves(c) \/ Charges(c) PROVE SlotInv'
  <2>1. Cardinality(InFlight') = Cardinality(InFlight) - 1
    BY <1>1, <1>3, FS_RemoveElement DEF Leaves, Charges
  <2>2. QED
    BY <1>1, <2>1 DEF SlotInv
<1>4. CASE Stays \/ Passes
  BY <1>4 DEF Stays, Passes, SlotInv
<1>5. QED
  BY <1>2, <1>3, <1>4, StepKinds

LEMMA TotalStep ==
  ASSUME TypeOK, SlotInv, TotalInv, [Next]_hookVars
  PROVE  TotalInv'
<1> SUFFICES ASSUME TotalMax > 0
             PROVE  /\ \A c \in InFlight' : op'[c].amount <= StepOf(TotalMax)
                    /\ Headroom(spentAll, InFlight, StepOf(TotalMax), Bound(TotalMax))'
  BY DEF TotalInv, StepOf, Bound
<1> DEFINE step == StepOf(TotalMax)
           bound == Bound(TotalMax)
<1>1. /\ TotalMax \in Nat /\ MaxInFlight \in Nat \ {0} /\ spentAll \in Nat
      /\ step \in Nat /\ bound \in Nat /\ bound = TotalMax + (MaxInFlight - 1) * step
  BY HookAssumption, CapFacts DEF HookAssumption, TypeOK
<1>2. /\ IsFiniteSet(InFlight)
      /\ \A c \in InFlight : op[c].amount \in Nat /\ op[c].amount <= step
      /\ Headroom(spentAll, InFlight, step, bound)
  BY OpenCalls DEF TotalInv
<1> SUFFICES ASSUME op' = op
             PROVE  /\ \A c \in InFlight' : op[c].amount <= step
                    /\ Headroom(spentAll', InFlight', step, bound)
  <2>1. op' = op
    BY StepKinds DEF Enters, Leaves, Charges, Stays, Passes
  <2>2. QED
    BY <2>1 DEF Headroom, StepOf, Bound
<1> HIDE DEF step, bound
<1>3. ASSUME NEW c \in Calls, Enters(c)
      PROVE  /\ \A d \in InFlight' : op[d].amount <= step
             /\ Headroom(spentAll', InFlight', step, bound)
  <2>1. spentAll + op[c].amount <= TotalMax /\ op[c].amount <= step
    BY <1>3, AdmittedFits DEF Enters, step
  <2>2. op[c].amount \in Nat
    BY HookAssumption DEF HookAssumption, TypeOK, Op
  <2>3. Headroom(spentAll, InFlight \cup {c}, step, bound)
    BY <1>1, <1>2, <1>3, <2>1, <2>2, HeadroomEnter DEF Enters
  <2>4. QED
    BY <1>2, <1>3, <2>1, <2>3 DEF Enters
<1>4. ASSUME NEW c \in Calls, Leaves(c)
      PROVE  /\ \A d \in InFlight' : op[d].amount <= step
             /\ Headroom(spentAll', InFlight', step, bound)
  <2>1. Headroom(spentAll + 0, InFlight \ {c}, step, bound)
    BY <1>1, <1>2, <1>4, HeadroomLeave DEF Leaves
  <2>2. QED
    BY <1>1, <1>2, <1>4, <2>1 DEF Leaves
<1>5. ASSUME NEW c \in Calls, Charges(c)
      PROVE  /\ \A d \in InFlight' : op[d].amount <= step
             /\ Headroom(spentAll', InFlight', step, bound)
  <2>1. Headroom(spentAll + op[c].amount, InFlight \ {c}, step, bound)
    BY <1>1, <1>2, <1>5, HeadroomLeave DEF Charges
  <2>2. QED
    BY <1>2, <1>5, <2>1 DEF Charges
<1>6. CASE Stays \/ Passes
  BY <1>2, <1>6 DEF Stays, Passes
<1>7. QED
  BY <1>3, <1>4, <1>5, <1>6, StepKinds

(* Time moves forward, and so do its days.                                  *)
LEMMA DayMonotone ==
  ASSUME NEW n \in Nat, NEW d \in Nat \ {0}
  PROVE  n \div d <= (n + 1) \div d
<1> DEFINE q == n \div d
           r == (n + 1) \div d
<1>1. q \in Nat /\ r \in Nat /\ d * q <= n /\ n + 1 < d * (r + 1)
  OBVIOUS
<1>2. d * q < d * (r + 1)
  BY <1>1
<1> HIDE DEF q, r
<1>3. ~(r + 1 <= q)
  <2> SUFFICES ASSUME r + 1 <= q PROVE FALSE
    OBVIOUS
  <2>1. (r + 1) * d <= q * d
    BY <1>1, StepsGrow
  <2>2. (r + 1) * d = d * (r + 1) /\ q * d = d * q
    BY <1>1
  <2>3. QED
    BY <1>1, <1>2, <2>1, <2>2
<1>4. q <= r
  BY <1>1, <1>3
<1>5. QED
  BY <1>4 DEF q, r

(* What the daily invariant says of the next state, spelled out.            *)
LEMMA DayInvNext ==
  ASSUME NEW a, NEW cap, NEW F, NEW row, NEW today, OpenOf(a)' = F, op' = op,
         spentOn'[a] = row, Today' = today,
         \A c \in F : op[c].amount <= StepOf(cap),
         Headroom(row[today], F, StepOf(cap), Bound(cap)),
         \A d \in Days : d > today => row[d] = 0,
         \A d \in Days : d < today => row[d] <= Bound(cap)
  PROVE  DayInv(a, cap)'
<1>1. Headroom(spentOn[a][Today], OpenOf(a), StepOf(cap), Bound(cap))'
  BY DEF Headroom, StepOf, Bound
<1>2. QED
  BY <1>1 DEF DayInv, StepOf, Bound, Days

LEMMA DailyStep ==
  ASSUME TypeOK, SlotInv, DailyInv, [Next]_hookVars
  PROVE  DailyInv'
<1> SUFFICES ASSUME NEW a \in Agents, NEW i \in Capped(a)
             PROVE  DayInv(a, Grants[i].dayCap)'
  BY DEF DailyInv, Capped, First, GrantsOf
<1> DEFINE cap == Grants[i].dayCap
<1>1. /\ cap \in Nat
      /\ DayInv(a, cap)
  BY CappedGrant DEF DailyInv
<1> HIDE DEF cap
<1>2. /\ StepOf(cap) \in Nat /\ StepOf(cap) <= cap /\ Bound(cap) \in Nat
      /\ Bound(cap) = cap + (MaxInFlight - 1) * StepOf(cap)
      /\ MaxInFlight \in Nat \ {0} /\ Cardinality(InFlight) <= MaxInFlight
  BY <1>1, CapFacts, HookAssumption DEF HookAssumption, SlotInv
<1>3. /\ IsFiniteSet(OpenOf(a))
      /\ \A c \in OpenOf(a) : op[c].amount \in Nat /\ op[c].amount <= StepOf(cap)
      /\ Cardinality(OpenOf(a)) <= Cardinality(InFlight)
      /\ Cardinality(OpenOf(a)) \in Nat /\ Cardinality(InFlight) \in Nat
  BY <1>1, OpenCalls, FS_CardinalityType DEF DayInv
<1>4. /\ Today \in Days
      /\ spentOn[a] \in [Days -> Nat]
      /\ spentOn[a][Today] \in Nat
  BY TodayIsADay DEF TypeOK
<1>5. /\ Headroom(spentOn[a][Today], OpenOf(a), StepOf(cap), Bound(cap))
      /\ \A d \in Days : d > Today => spentOn[a][d] = 0
      /\ \A d \in Days : d < Today => spentOn[a][d] <= Bound(cap)
  BY <1>1 DEF DayInv
<1>6. ASSUME NEW c \in Calls, Enters(c) PROVE DayInv(a, cap)'
  <2>1. CASE op[c].agent = a
    <3>1. spentOn[a][Today] + op[c].amount <= cap /\ op[c].amount <= StepOf(cap)
      BY <1>6, <2>1, AdmittedFits DEF Enters, cap
    <3>2. op[c].amount \in Nat /\ c \notin OpenOf(a)
      BY <1>6, HookAssumption DEF HookAssumption, TypeOK, Op, Enters, OpenOf
    <3>3. Cardinality(OpenOf(a)) < MaxInFlight
      BY <1>2, <1>3, <1>6 DEF Enters
    <3> DEFINE spent == spentOn[a][Today]
               step  == StepOf(cap)
    <3> HIDE DEF spent, step
    <3>4. Headroom(spent, OpenOf(a) \cup {c}, step, cap + (MaxInFlight - 1) * step)
      <4>1. spent \in Nat /\ step \in Nat /\ spent + op[c].amount <= cap
        BY <1>2, <1>4, <3>1 DEF spent, step
      <4>2. QED
        BY <1>1, <1>2, <1>3, <3>2, <3>3, <4>1, HeadroomEnter
    <3>5. OpenOf(a)' = OpenOf(a) \cup {c}
      BY <1>6, <2>1 DEF Enters, OpenOf
    <3>6. Headroom(spentOn[a][Today], OpenOf(a) \cup {c}, StepOf(cap), Bound(cap))
      BY <1>2, <3>4 DEF spent, step
    <3>7. \A d \in OpenOf(a) \cup {c} : op[d].amount <= StepOf(cap)
      BY <1>3, <3>1
    <3>8. Today' = Today /\ op' = op /\ spentOn'[a] = spentOn[a]
      BY <1>6 DEF Enters, Today
    <3>9. QED
      BY <1>5, <3>5, <3>6, <3>7, <3>8, DayInvNext
  <2>2. CASE op[c].agent # a
    <3>1. OpenOf(a)' = OpenOf(a)
      BY <1>6, <2>2 DEF Enters, OpenOf
    <3>2. QED
      BY <1>3, <1>5, <1>6, <3>1, DayInvNext DEF Enters, Today
  <2>3. QED
    BY <2>1, <2>2
<1>7. ASSUME NEW c \in Calls, Leaves(c) PROVE DayInv(a, cap)'
  <2>1. CASE c \in OpenOf(a)
    <3>1. Headroom(spentOn[a][Today] + 0, OpenOf(a) \ {c}, StepOf(cap), Bound(cap))
      BY <1>2, <1>3, <1>4, <1>5, <2>1, HeadroomLeave
    <3>2. OpenOf(a)' = OpenOf(a) \ {c} /\ spentOn[a][Today] + 0 = spentOn[a][Today]
      BY <1>4, <1>7 DEF Leaves, OpenOf
    <3>3. QED
      BY <1>3, <1>5, <1>7, <3>1, <3>2, DayInvNext DEF Leaves, Today
  <2>2. CASE c \notin OpenOf(a)
    <3>1. OpenOf(a)' = OpenOf(a)
      BY <1>7, <2>2 DEF Leaves, OpenOf
    <3>2. QED
      BY <1>3, <1>5, <1>7, <3>1, DayInvNext DEF Leaves, Today
  <2>3. QED
    BY <2>1, <2>2
<1>8. ASSUME NEW c \in Calls, Charges(c) PROVE DayInv(a, cap)'
  <2>1. Today' = Today /\ op' = op
    BY <1>8 DEF Charges, Today
  <2>2. CASE c \in OpenOf(a)
    <3>1. Headroom(spentOn[a][Today] + op[c].amount, OpenOf(a) \ {c}, StepOf(cap), Bound(cap))
      BY <1>2, <1>3, <1>4, <1>5, <2>2, HeadroomLeave
    <3>2. OpenOf(a)' = OpenOf(a) \ {c}
      BY <1>8 DEF Charges, OpenOf
    <3> DEFINE row == [spentOn[a] EXCEPT ![Today] = @ + op[c].amount]
    <3>3. spentOn'[a] = row
      BY <1>8, <2>2 DEF Charges, OpenOf, TypeOK
    <3>4. /\ row[Today] = spentOn[a][Today] + op[c].amount
          /\ \A d \in Days : d # Today => row[d] = spentOn[a][d]
      BY <1>4
    <3>5. /\ \A d \in Days : d > Today => row[d] = 0
          /\ \A d \in Days : d < Today => row[d] <= Bound(cap)
      BY <1>4, <1>5, <3>4 DEF Days
    <3> HIDE DEF row
    <3>6. Headroom(row[Today], OpenOf(a) \ {c}, StepOf(cap), Bound(cap))
      BY <3>1, <3>4
    <3>7. \A d \in OpenOf(a) \ {c} : op[d].amount <= StepOf(cap)
      BY <1>3
    <3>8. QED
      BY <2>1, <3>2, <3>3, <3>5, <3>6, <3>7, DayInvNext
  <2>3. CASE c \notin OpenOf(a)
    <3>1. OpenOf(a)' = OpenOf(a)
      BY <1>8, <2>3 DEF Charges, OpenOf
    <3>2. spentOn'[a] = spentOn[a]
      BY <1>8, <2>3 DEF Charges, OpenOf, TypeOK
    <3>3. QED
      BY <1>3, <1>5, <2>1, <3>1, <3>2, DayInvNext
  <2>4. QED
    BY <2>2, <2>3
<1>9. ASSUME Stays PROVE DayInv(a, cap)'
  <2>1. OpenOf(a)' = OpenOf(a) /\ Today' = Today
    BY <1>9 DEF Stays, OpenOf, Today
  <2>2. QED
    BY <1>3, <1>5, <1>9, <2>1, DayInvNext DEF Stays
<1>10. ASSUME Passes PROVE DayInv(a, cap)'
  <2>1. OpenOf(a)' = OpenOf(a) /\ op' = op /\ spentOn'[a] = spentOn[a]
    BY <1>10 DEF Passes, OpenOf
  <2>2. Today <= Today' /\ Today' \in Days
    <3>1. now \in Nat /\ DayLength \in Nat \ {0} /\ now' = now + 1
      BY <1>10, HookAssumption DEF HookAssumption, TypeOK, Passes
    <3>2. Today <= Today'
      BY <3>1, DayMonotone DEF Today
    <3>3. now' <= MaxTime /\ MaxTime \in Nat
      BY <3>1, TypeNext, HookAssumption DEF HookAssumption, TypeOK
    <3>4. now' \div DayLength \in 0 .. now'
      BY <3>1, DayBounded
    <3>5. QED
      BY <3>1, <3>2, <3>3, <3>4 DEF Today, Days
  <2>3. spentOn[a][Today] <= Bound(cap)
    BY <1>2, <1>3, <1>4, <1>5, HeadroomBounds
  <2> DEFINE t == Today'
  <2>4. Headroom(spentOn[a][t], OpenOf(a), StepOf(cap), Bound(cap))
    <3>1. CASE t = Today
      BY <1>5, <3>1
    <3>2. CASE t # Today
      <4>1. spentOn[a][t] = 0
        BY <1>4, <1>5, <2>2, <3>2 DEF Days
      <4>2. Headroom(0, OpenOf(a), StepOf(cap), Bound(cap))
        BY <1>1, <1>2, <1>3, HeadroomFresh
      <4>3. QED
        BY <4>1, <4>2
    <3>3. QED
      BY <3>1, <3>2
  <2>5. /\ \A d \in Days : d > t => spentOn[a][d] = 0
        /\ \A d \in Days : d < t => spentOn[a][d] <= Bound(cap)
    <3>1. /\ t \in Int /\ Today \in Int /\ Today <= t /\ \A d \in Days : d \in Int
          /\ Bound(cap) >= 0
      BY <1>2, <1>4, <2>2, HookAssumption DEF Days, HookAssumption
    <3> HIDE DEF t
    <3>2. \A d \in Days : d > t => d > Today
      BY <3>1
    <3>3. \A d \in Days : d > Today \/ d = Today \/ d < Today
      BY <3>1
    <3>4. QED
      BY <1>5, <2>3, <3>1, <3>2, <3>3
  <2> HIDE DEF t
  <2>6. \A c \in OpenOf(a) : op[c].amount <= StepOf(cap)
    BY <1>3
  <2>7. Today' = t
    BY DEF t
  <2>8. QED
    BY <2>1, <2>4, <2>5, <2>6, <2>7, DayInvNext
<1>11. DayInv(a, cap)'
  BY <1>6, <1>7, <1>8, <1>9, <1>10, StepKinds
<1>12. QED
  BY <1>11 DEF cap

LEMMA BudgetNext == BudgetInv /\ [Next]_hookVars => BudgetInv'
BY TypeNext, SlotStep, TotalStep, DailyStep DEF BudgetInv

LEMMA BudgetInductive == Spec => []BudgetInv
<1>1. Init => BudgetInv
  BY BudgetInit
<1>2. BudgetInv /\ [Next]_hookVars => BudgetInv'
  BY BudgetNext
<1>3. QED
  BY <1>1, <1>2, PTL DEF Spec
-----------------------------------------------------------------------------
LEMMA TotalFromInv == BudgetInv => TotalOvershootBounded
<1> SUFFICES ASSUME BudgetInv, TotalMax > 0
             PROVE  spentAll <= TotalMax + (MaxInFlight - 1) * StepOf(TotalMax)
  BY DEF TotalOvershootBounded
<1>1. TypeOK /\ Headroom(spentAll, InFlight, StepOf(TotalMax), Bound(TotalMax))
  BY DEF BudgetInv, TotalInv
<1>2. /\ TotalMax \in Nat /\ spentAll \in Nat
      /\ StepOf(TotalMax) \in Nat /\ Bound(TotalMax) \in Nat
  BY <1>1, HookAssumption, CapFacts DEF HookAssumption, TypeOK
<1>3. spentAll <= Bound(TotalMax)
  BY <1>1, <1>2, OpenCalls, HeadroomBounds
<1>4. QED
  BY <1>3 DEF Bound

LEMMA DailyFromInv == BudgetInv => DailyOvershootBounded
<1> SUFFICES ASSUME BudgetInv, NEW a \in Agents, NEW i \in First(GrantsOf(a)),
                    NEW d \in Days, Grants[i].dayCap > 0
             PROVE  spentOn[a][d] <= Bound(Grants[i].dayCap)
  BY DEF DailyOvershootBounded, Bound
<1> DEFINE cap == Grants[i].dayCap
<1>1. i \in Capped(a)
  BY DEF Capped
<1>2. TypeOK /\ DayInv(a, cap) /\ cap \in Nat
  BY <1>1, CappedGrant DEF BudgetInv, DailyInv
<1> HIDE DEF cap
<1>3. StepOf(cap) \in Nat /\ Bound(cap) \in Nat
  BY <1>2, CapFacts
<1>4. Today \in Days /\ spentOn[a][Today] \in Nat
  BY <1>2, TodayIsADay DEF TypeOK
<1>5. spentOn[a][Today] <= Bound(cap)
  BY <1>2, <1>3, <1>4, OpenCalls, HeadroomBounds DEF DayInv, OpenOf
<1>6. d < Today \/ d = Today \/ d > Today
  BY <1>4 DEF Days
<1>7. spentOn[a][d] <= Bound(cap)
  BY <1>2, <1>3, <1>5, <1>6 DEF DayInv
<1>8. QED
  BY <1>7 DEF cap

(* TotalOvershoot: however many agents, amounts and answers there are, the  *)
(* recorded total passes TotalMax by at most MaxInFlight - 1 amounts, each  *)
(* as large as one call may carry against it.                               *)
THEOREM TotalOvershoot == Spec => []TotalOvershootBounded
BY BudgetInductive, TotalFromInv, PTL

(* DailyOvershoot: the same for every agent's daily cap, on every day, also *)
(* when calls are admitted on one day and recorded on a later one.          *)
THEOREM DailyOvershoot == Spec => []DailyOvershootBounded
BY BudgetInductive, DailyFromInv, PTL

(* SerialBudget: a host that keeps one call open at a time never spends     *)
(* more than the total budget; this is what the budget check promises.      *)
THEOREM SerialBudget == MaxInFlight = 1 => (Spec => []TotalBudgetKept)
<1> SUFFICES ASSUME MaxInFlight = 1 PROVE Spec => []TotalBudgetKept
  OBVIOUS
<1>1. StepOf(TotalMax) \in Nat /\ TotalMax \in Nat
  BY HookAssumption, CapFacts DEF HookAssumption
<1>2. (MaxInFlight - 1) * StepOf(TotalMax) = 0
  BY <1>1
<1>3. TotalOvershootBounded => TotalBudgetKept
  BY <1>1, <1>2 DEF TotalOvershootBounded, TotalBudgetKept
<1>4. QED
  BY <1>3, TotalOvershoot, PTL
-----------------------------------------------------------------------------
(* Sums over a set of calls.  SumOf folds a set by choosing an element of   *)
(* it again and again; that the order does not matter is shown by least     *)
(* counterexamples, over the sizes of sets and over the sets themselves.    *)

(* A set of naturals has a least member.                                    *)
LEMMA HasLeast ==
  ASSUME NEW S \in SUBSET Nat, S # {}
  PROVE  \E m \in S : \A n \in S : m <= n
<1> DEFINE R == {p \in Nat \X Nat : p[1] < p[2]}
<1>1. IsWellFoundedOn(R, Nat)
  BY NatLessThanWellFounded DEF OpToRel
<1>2. S \subseteq Nat /\ S # {}
  OBVIOUS
<1>3. \E m \in S : \A n \in S : ~(<<n, m>> \in R)
  <2> HIDE DEF R
  <2>1. QED
    BY <1>1, <1>2, WFMin, Zenon
<1>4. \E m \in S : \A n \in S : ~(n < m)
  BY <1>3
<1>5. QED
  BY <1>4

(* The sum takes an element of the set, adds its value and goes on with the *)
(* others.                                                                  *)
OneOf(s) == CHOOSE x \in s : TRUE
Summand(f, g, s) == IF s = {} THEN 0 ELSE f[OneOf(s)] + g[s \ {OneOf(s)}]
Sums(f, D, g) == g = [s \in D |-> Summand(f, g, s)]
Small(S, n) == {s \in SUBSET S : Cardinality(s) <= n}

AllSums(f, S, g) == Sums(f, SUBSET S, g)

LEMMA SumIsFold == \A f, S : SumOf(f, S) = (CHOOSE g : AllSums(f, S, g))[S]
BY DEF AllSums, SumOf, MapThenSumSet, MapThenFoldSet, Sums, Summand, OneOf

LEMMA OneLess ==
  ASSUME NEW s, IsFiniteSet(s), s # {}
  PROVE  /\ OneOf(s) \in s /\ IsFiniteSet(s \ {OneOf(s)})
         /\ Cardinality(s \ {OneOf(s)}) \in Nat /\ Cardinality(s) \in Nat
         /\ Cardinality(s \ {OneOf(s)}) = Cardinality(s) - 1
<1>1. OneOf(s) \in s
  BY DEF OneOf
<1>2. QED
  BY <1>1, FS_RemoveElement, FS_CardinalityType

(* Among some subsets of a finite set there is one that none of the others  *)
(* is a part of.                                                            *)
LEMMA Minimal ==
  ASSUME NEW S, IsFiniteSet(S), NEW B \in SUBSET (SUBSET S), B # {}
  PROVE  \E s \in B : \A t \in SUBSET s : t # s => t \notin B
<1> DEFINE Sizes == {n \in Nat : \E s \in B : Cardinality(s) = n}
<1>1. \A s \in B : IsFiniteSet(s) /\ Cardinality(s) \in Nat
  BY FS_Subset, FS_CardinalityType
<1>2. PICK m \in Sizes : \A n \in Sizes : m <= n
  <2>1. Sizes \in SUBSET Nat /\ Sizes # {}
    BY <1>1
  <2> HIDE DEF Sizes
  <2>2. QED
    BY <2>1, HasLeast
<1>3. PICK s \in B : Cardinality(s) = m
  BY <1>2
<1>4. ASSUME NEW t \in SUBSET s, t # s PROVE t \notin B
  <2>1. IsFiniteSet(s) /\ Cardinality(s) \in Nat
    BY <1>1
  <2>2. Cardinality(t) \in Nat /\ Cardinality(t) < Cardinality(s)
    BY <1>4, <2>1, FS_Subset, FS_CardinalityType
  <2>3. QED
    BY <1>2, <1>3, <2>2
<1>5. QED
  BY <1>3, <1>4

(* The fold is defined on the sets of any size.                             *)
LEMMA SumsSmall ==
  ASSUME NEW f, NEW S, IsFiniteSet(S)
  PROVE  \A n \in Nat : \E g : Sums(f, Small(S, n), g)
<1> DEFINE Bad == {n \in Nat : ~ \E g : Sums(f, Small(S, n), g)}
<1>1. SUFFICES ASSUME Bad # {} PROVE FALSE
  OBVIOUS
<1>2. PICK m \in Bad : \A n \in Bad : m <= n
  <2>1. Bad \in SUBSET Nat
    OBVIOUS
  <2> HIDE DEF Bad
  <2>2. QED
    BY <1>1, <2>1, HasLeast
<1>3. \A s \in SUBSET S : IsFiniteSet(s) /\ Cardinality(s) \in Nat
  BY FS_Subset, FS_CardinalityType
<1>4. CASE m = 0
  <2> DEFINE g == [s \in Small(S, 0) |-> 0]
  <2>1. \A s \in Small(S, 0) : s = {}
    BY <1>3, FS_EmptySet DEF Small
  <2>2. g = [s \in Small(S, 0) |-> Summand(f, g, s)]
    BY <2>1 DEF Summand
  <2>3. QED
    BY <1>2, <1>4, <2>2 DEF Sums
<1>5. CASE m # 0
  <2>1. m - 1 \in Nat /\ m - 1 \notin Bad /\ m \in Nat
    BY <1>2, <1>5
  <2>2. PICK g : Sums(f, Small(S, m - 1), g)
    BY <2>1
  <2> DEFINE h == [s \in Small(S, m) |-> Summand(f, g, s)]
  <2>3. \A s \in Small(S, m - 1) : s \in Small(S, m) /\ h[s] = g[s]
    BY <1>3, <2>1, <2>2 DEF Sums, Small
  <2>4. \A s \in Small(S, m) : s # {} => s \ {OneOf(s)} \in Small(S, m - 1)
    BY <1>3, <2>1, OneLess DEF Small
  <2>5. \A s \in Small(S, m) : Summand(f, g, s) = Summand(f, h, s)
    <3> HIDE DEF h
    <3>1. QED
      BY <2>3, <2>4 DEF Summand
  <2>6. Sums(f, Small(S, m), h)
    BY <2>5 DEF Sums
  <2>7. QED
    BY <1>2, <2>6
<1>6. QED
  BY <1>4, <1>5

LEMMA SumsAll ==
  ASSUME NEW f, NEW S, IsFiniteSet(S)
  PROVE  \E g : AllSums(f, S, g) /\ SumOf(f, S) = g[S]
<1>1. Cardinality(S) \in Nat /\ SUBSET S = Small(S, Cardinality(S))
  BY FS_CardinalityType, FS_Subset DEF Small
<1>2. \E g : Sums(f, Small(S, Cardinality(S)), g)
  BY <1>1, SumsSmall
<1>3. \E g : AllSums(f, S, g)
  BY <1>1, <1>2 DEF AllSums
<1>4. AllSums(f, S, CHOOSE g : AllSums(f, S, g))
  BY <1>3, Zenon
<1>5. QED
  BY <1>4, SumIsFold

(* Two such folds agree wherever both are defined.                          *)
LEMMA SumsAgree ==
  ASSUME NEW f, NEW S, NEW T \in SUBSET S, IsFiniteSet(S), NEW g, NEW h,
         AllSums(f, S, g), AllSums(f, T, h)
  PROVE  \A s \in SUBSET T : h[s] = g[s]
<1> DEFINE Bad == {s \in SUBSET T : h[s] # g[s]}
<1>1. SUFFICES ASSUME Bad # {} PROVE FALSE
  OBVIOUS
<1>2. PICK s \in Bad : \A t \in SUBSET s : t # s => t \notin Bad
  <2>1. IsFiniteSet(T) /\ Bad \in SUBSET (SUBSET T)
    BY FS_Subset
  <2> HIDE DEF Bad
  <2>2. QED
    BY <1>1, <2>1, Minimal
<1>3. s \in SUBSET T /\ s \in SUBSET S /\ h[s] # g[s]
  BY <1>2
<1>4. h[s] = Summand(f, h, s) /\ g[s] = Summand(f, g, s)
  BY <1>3 DEF AllSums, Sums
<1>5. s # {} /\ h[s \ {OneOf(s)}] # g[s \ {OneOf(s)}]
  BY <1>3, <1>4 DEF Summand
<1>6. s \ {OneOf(s)} \in SUBSET s /\ s \ {OneOf(s)} # s
  BY <1>5 DEF OneOf
<1>7. QED
  BY <1>2, <1>3, <1>5, <1>6

LEMMA SumEmpty == \A f : SumOf(f, {}) = 0
<1> SUFFICES ASSUME NEW f PROVE SumOf(f, {}) = 0
  OBVIOUS
<1>1. PICK g : AllSums(f, {}, g) /\ SumOf(f, {}) = g[{}]
  BY SumsAll, FS_EmptySet
<1>2. QED
  BY <1>1 DEF AllSums, Sums, Summand

(* The element CHOOSE takes is a summand beside the sum of the others.      *)
LEMMA SumFirst ==
  ASSUME NEW f, NEW S, IsFiniteSet(S), S # {}
  PROVE  SumOf(f, S) = f[OneOf(S)] + SumOf(f, S \ {OneOf(S)})
<1> DEFINE T == S \ {OneOf(S)}
<1>1. T \in SUBSET S /\ IsFiniteSet(T)
  BY OneLess
<1>2. PICK g : AllSums(f, S, g) /\ SumOf(f, S) = g[S]
  BY SumsAll
<1>3. PICK h : AllSums(f, T, h) /\ SumOf(f, T) = h[T]
  BY <1>1, SumsAll
<1>4. h[T] = g[T]
  <2> HIDE DEF T
  <2>1. QED
    BY <1>1, <1>2, <1>3, SumsAgree
<1>5. g[S] = f[OneOf(S)] + g[T]
  BY <1>2 DEF AllSums, Sums, Summand
<1>6. QED
  BY <1>2, <1>3, <1>4, <1>5

(* A sum of naturals is one; of zeros, zero; and equal summands, equal sums.*)
LEMMA SumType ==
  ASSUME NEW f, NEW S, IsFiniteSet(S), \A x \in S : f[x] \in Nat
  PROVE  SumOf(f, S) \in Nat
<1> DEFINE Bad == {s \in SUBSET S : SumOf(f, s) \notin Nat}
<1>1. SUFFICES ASSUME Bad # {} PROVE FALSE
  OBVIOUS
<1>2. PICK s \in Bad : \A t \in SUBSET s : t # s => t \notin Bad
  <2>1. Bad \in SUBSET (SUBSET S)
    OBVIOUS
  <2> HIDE DEF Bad
  <2>2. QED
    BY <1>1, <2>1, Minimal
<1>3. s # {} /\ s \in SUBSET S
  <2>1. SumOf(f, {}) \in Nat
    BY SumEmpty
  <2>2. QED
    BY <1>2, <2>1
<1>4. IsFiniteSet(s)
  BY <1>3, FS_Subset
<1> DEFINE p == OneOf(s)
<1>5. p \in s /\ s \ {p} \in SUBSET s /\ s \ {p} # s
  BY <1>3 DEF OneOf
<1>6. SumOf(f, s) = f[p] + SumOf(f, s \ {p})
  BY <1>3, <1>4, SumFirst
<1> HIDE DEF p
<1>7. SumOf(f, s \ {p}) \in Nat
  BY <1>2, <1>3, <1>5
<1>8. QED
  BY <1>2, <1>3, <1>5, <1>6, <1>7

LEMMA SumZero ==
  ASSUME NEW f, NEW S, IsFiniteSet(S), \A x \in S : f[x] = 0
  PROVE  SumOf(f, S) = 0
<1> DEFINE Bad == {s \in SUBSET S : SumOf(f, s) # 0}
<1>1. SUFFICES ASSUME Bad # {} PROVE FALSE
  OBVIOUS
<1>2. PICK s \in Bad : \A t \in SUBSET s : t # s => t \notin Bad
  <2>1. Bad \in SUBSET (SUBSET S)
    OBVIOUS
  <2> HIDE DEF Bad
  <2>2. QED
    BY <1>1, <2>1, Minimal
<1>3. s # {} /\ s \in SUBSET S
  BY <1>2, SumEmpty
<1>4. IsFiniteSet(s)
  BY <1>3, FS_Subset
<1> DEFINE p == OneOf(s)
<1>5. p \in s /\ s \ {p} \in SUBSET s /\ s \ {p} # s
  BY <1>3 DEF OneOf
<1>6. SumOf(f, s) = f[p] + SumOf(f, s \ {p})
  BY <1>3, <1>4, SumFirst
<1> HIDE DEF p
<1>7. SumOf(f, s \ {p}) = 0
  BY <1>2, <1>3, <1>5
<1>8. QED
  BY <1>2, <1>3, <1>5, <1>6, <1>7

LEMMA SumSame ==
  ASSUME NEW f, NEW g, NEW S, IsFiniteSet(S), \A x \in S : f[x] = g[x]
  PROVE  SumOf(f, S) = SumOf(g, S)
<1> DEFINE Bad == {s \in SUBSET S : SumOf(f, s) # SumOf(g, s)}
<1>1. SUFFICES ASSUME Bad # {} PROVE FALSE
  OBVIOUS
<1>2. PICK s \in Bad : \A t \in SUBSET s : t # s => t \notin Bad
  <2>1. Bad \in SUBSET (SUBSET S)
    OBVIOUS
  <2> HIDE DEF Bad
  <2>2. QED
    BY <1>1, <2>1, Minimal
<1>3. s # {} /\ s \in SUBSET S
  BY <1>2, SumEmpty
<1>4. IsFiniteSet(s)
  BY <1>3, FS_Subset
<1> DEFINE p == OneOf(s)
<1>5. p \in s /\ s \ {p} \in SUBSET s /\ s \ {p} # s
  BY <1>3 DEF OneOf
<1>6. SumOf(f, s) = f[p] + SumOf(f, s \ {p}) /\ SumOf(g, s) = g[p] + SumOf(g, s \ {p})
  BY <1>3, <1>4, SumFirst
<1> HIDE DEF p
<1>7. SumOf(f, s \ {p}) = SumOf(g, s \ {p})
  BY <1>2, <1>3, <1>5
<1>8. QED
  BY <1>2, <1>3, <1>5, <1>6, <1>7

(* Any element may be taken first.                                          *)
LEMMA SumRemove ==
  ASSUME NEW f, NEW S, IsFiniteSet(S), \A x \in S : f[x] \in Nat, NEW x \in S
  PROVE  SumOf(f, S) = f[x] + SumOf(f, S \ {x})
<1> DEFINE Bad == {s \in SUBSET S : \E y \in s : SumOf(f, s) # f[y] + SumOf(f, s \ {y})}
<1>1. SUFFICES ASSUME Bad # {} PROVE FALSE
  OBVIOUS
<1>2. PICK s \in Bad : \A t \in SUBSET s : t # s => t \notin Bad
  <2>1. Bad \in SUBSET (SUBSET S)
    OBVIOUS
  <2> HIDE DEF Bad
  <2>2. QED
    BY <1>1, <2>1, Minimal
<1>3. PICK y \in s : SumOf(f, s) # f[y] + SumOf(f, s \ {y})
  BY <1>2
<1> DEFINE p == OneOf(s)
<1>4. s # {} /\ s \in SUBSET S /\ IsFiniteSet(s) /\ p \in s
  BY <1>2, <1>3, FS_Subset DEF OneOf
<1>5. SumOf(f, s) = f[p] + SumOf(f, s \ {p})
  BY <1>4, SumFirst
<1> HIDE DEF p
<1>6. p # y
  BY <1>3, <1>5
<1>7. /\ s \ {p} \in SUBSET s /\ s \ {p} # s /\ y \in s \ {p}
      /\ s \ {y} \in SUBSET s /\ s \ {y} # s /\ p \in s \ {y}
  BY <1>3, <1>4, <1>6
<1> DEFINE r == (s \ {p}) \ {y}
<1>8. r = (s \ {y}) \ {p} /\ r \in SUBSET S
  BY <1>4
<1> HIDE DEF r
<1>9. /\ s \ {p} \in SUBSET S /\ s \ {p} \notin Bad
      /\ s \ {y} \in SUBSET S /\ s \ {y} \notin Bad
  BY <1>2, <1>4, <1>7
<1>10. SumOf(f, s \ {p}) = f[y] + SumOf(f, r)
  BY <1>7, <1>9 DEF r
<1>11. SumOf(f, s \ {y}) = f[p] + SumOf(f, r)
  BY <1>7, <1>8, <1>9
<1>12. f[p] \in Nat /\ f[y] \in Nat
  BY <1>3, <1>4
<1>13. SumOf(f, r) \in Nat
  <2>1. IsFiniteSet(r) /\ \A z \in r : f[z] \in Nat
    BY <1>8, FS_Subset
  <2>2. QED
    BY <2>1, SumType
<1>14. QED
  BY <1>3, <1>5, <1>10, <1>11, <1>12, <1>13

-----------------------------------------------------------------------------
(* The ledger: a step either books the amount of one more allowed call on   *)
(* the total and on its agent's day, or touches neither the books nor the   *)
(* decisions to allow.                                                      *)

AmountOf == [c \in Calls |-> op[c].amount]
AllowedTo(a) == {c \in Allowed : op[c].agent = a}

AllowIsFinal == \A c \in Calls : outcome[c] = "allow" => pc[c] = "done"

LedgerInv == TypeOK /\ AllowIsFinal /\ BooksBalance

Books(c) ==
  /\ c \notin Allowed /\ Allowed' = Allowed \cup {c} /\ op' = op
  /\ spentAll' = spentAll + op[c].amount
  /\ spentOn' = [spentOn EXCEPT ![op[c].agent][Today] = @ + op[c].amount]

LeavesBooks == Allowed' = Allowed /\ UNCHANGED <<op, spentAll, spentOn>>

LEMMA RefusalKeepsBooks ==
  ASSUME TypeOK, AllowIsFinal, NEW c \in Calls, pc[c] # "done", op' = op,
         NEW how, how # "allow", Finish(c, how)
  PROVE  AllowIsFinal' /\ LeavesBooks
<1>1. outcome[c] # "allow"
  BY DEF AllowIsFinal
<1>2. /\ pc' = [pc EXCEPT ![c] = "done"] /\ outcome' = [outcome EXCEPT ![c] = how]
      /\ UNCHANGED <<spentAll, spentOn>>
  BY DEF Finish
<1>3. \A d \in Calls : outcome'[d] = "allow" <=> outcome[d] = "allow"
  BY <1>1, <1>2 DEF TypeOK
<1>4. Allowed' = Allowed
  BY <1>3 DEF Allowed
<1>5. AllowIsFinal'
  BY <1>2, <1>3 DEF AllowIsFinal, TypeOK
<1>6. QED
  BY <1>2, <1>4, <1>5 DEF LeavesBooks

LEMMA AllowBooks ==
  ASSUME TypeOK, AllowIsFinal, NEW c \in Calls, pc[c] # "done", op' = op, Allow(c)
  PROVE  AllowIsFinal' /\ Books(c)
<1>1. c \notin Allowed
  BY DEF AllowIsFinal, Allowed
<1>2. /\ pc' = [pc EXCEPT ![c] = "done"] /\ outcome' = [outcome EXCEPT ![c] = "allow"]
      /\ spentAll' = spentAll + op[c].amount
      /\ spentOn' = [spentOn EXCEPT ![op[c].agent][Today] = @ + op[c].amount]
  BY DEF Allow
<1>3. \A d \in Calls : outcome'[d] = "allow" <=> outcome[d] = "allow" \/ d = c
  BY <1>2 DEF TypeOK
<1>4. Allowed' = Allowed \cup {c}
  BY <1>3 DEF Allowed
<1>5. AllowIsFinal'
  BY <1>2, <1>3 DEF AllowIsFinal, TypeOK
<1>6. QED
  BY <1>1, <1>2, <1>4, <1>5 DEF Books

LEMMA LedgerMoves ==
  ASSUME TypeOK, AllowIsFinal, [Next]_hookVars
  PROVE  AllowIsFinal' /\ (LeavesBooks \/ \E c \in Calls : Books(c))
<1>1. ASSUME NEW c \in Calls, Authorize(c) PROVE AllowIsFinal' /\ LeavesBooks
  <2>1. pc[c] = "idle" /\ op' = op
    BY <1>1 DEF Authorize
  <2>2. CASE Admission(op[c]) = "pass"
    <3>1. /\ pc' = [pc EXCEPT ![c] = "verify"]
          /\ UNCHANGED <<outcome, spentAll, spentOn>>
      BY <1>1, <2>2 DEF Authorize
    <3>2. QED
      BY <2>1, <3>1 DEF AllowIsFinal, LeavesBooks, Allowed, TypeOK
  <2>3. CASE Admission(op[c]) # "pass"
    <3>1. Finish(c, Admission(op[c])) /\ Admission(op[c]) # "allow"
      BY <1>1, <2>3, AdmissionType DEF Authorize, Deny, Refusals
    <3>2. QED
      BY <2>1, <3>1, RefusalKeepsBooks
  <2>4. QED
    BY <2>2, <2>3
<1>2. ASSUME NEW c \in Calls, NEW r \in Replies, VerifyReply(c, r)
      PROVE  AllowIsFinal' /\ LeavesBooks
  <2>1. pc[c] = "verify" /\ op' = op
    BY <1>2 DEF VerifyReply
  <2>2. CASE \E how \in {Threw} \cup Refusals : Finish(c, how)
    <3>1. PICK how \in {Threw} \cup Refusals : Finish(c, how)
      BY <2>2
    <3>2. how # "allow"
      BY <3>1 DEF Threw, Refusals
    <3>3. QED
      BY <2>1, <3>1, <3>2, RefusalKeepsBooks
  <2>3. CASE /\ pc' = [pc EXCEPT ![c] = "revocation"]
             /\ UNCHANGED <<outcome, spentAll, spentOn>>
    BY <2>1, <2>3 DEF AllowIsFinal, LeavesBooks, Allowed, TypeOK
  <2>4. QED
    BY <1>2, <2>2, <2>3 DEF VerifyReply, Deny, Refusals
<1>3. ASSUME NEW c \in Calls,
             SkipRevocation(c) \/ RevocationReply(c) \/ RevocationDown(c)
      PROVE  AllowIsFinal' /\ (LeavesBooks \/ Books(c))
  <2>1. pc[c] = "revocation" /\ op' = op
    BY <1>3 DEF SkipRevocation, RevocationReply, RevocationDown
  <2>2. Allow(c) \/ Finish(c, "revoked") \/ Finish(c, "fail_closed")
    BY <1>3 DEF SkipRevocation, RevocationReply, RevocationDown, Deny
  <2>3. QED
    BY <2>1, <2>2, RefusalKeepsBooks, AllowBooks
<1>4. CASE UNCHANGED <<pc, op, outcome, spentAll, spentOn>>
  BY <1>4 DEF AllowIsFinal, LeavesBooks, Allowed
<1>5. ASSUME NEW c \in Calls, NEW s \in Shapes, NEW o \in Op,
             NEW b \in VerdictBands, VerifierSigns(c, s, o, b)
      PROVE  UNCHANGED <<pc, op, outcome, spentAll, spentOn>>
  BY <1>5 DEF VerifierSigns
<1>6. ASSUME NEW c \in Calls, RegistryAnswers(c)
      PROVE  UNCHANGED <<pc, op, outcome, spentAll, spentOn>>
  BY <1>6 DEF RegistryAnswers
<1>7. ASSUME NEW a \in Agents, RegistryRevokes(a)
      PROVE  UNCHANGED <<pc, op, outcome, spentAll, spentOn>>
  BY <1>7 DEF RegistryRevokes
<1>8. CASE Tick
  BY <1>4, <1>8 DEF Tick
<1>9. CASE UNCHANGED hookVars
  BY <1>4, <1>9 DEF hookVars
<1>10. QED
  BY <1>1, <1>2, <1>3, <1>4, <1>5, <1>6, <1>7, <1>8, <1>9 DEF Next, Quiescent

LEMMA AmountsAreNat ==
  ASSUME TypeOK
  PROVE  /\ \A c \in Calls : AmountOf[c] = op[c].amount /\ op[c].amount \in Nat
         /\ \A c \in Calls : op[c].agent \in Agents
         /\ IsFiniteSet(Allowed) /\ Allowed \subseteq Calls
         /\ \A a \in Agents : IsFiniteSet(AllowedTo(a)) /\ AllowedTo(a) \subseteq Calls
<1>1. IsFiniteSet(Calls) /\ Amounts \subseteq Nat
  BY HookAssumption DEF HookAssumption
<1>2. \A c \in Calls : op[c].amount \in Nat /\ op[c].agent \in Agents
  BY <1>1 DEF TypeOK, Op
<1>3. Allowed \subseteq Calls /\ \A a \in Agents : AllowedTo(a) \subseteq Calls
  BY DEF Allowed, AllowedTo
<1>4. \A S \in SUBSET Calls : IsFiniteSet(S)
  BY <1>1, FS_Subset
<1>5. QED
  BY <1>2, <1>3, <1>4 DEF AmountOf

(* A member more adds its amount to the sum.                                *)
LEMMA SumAdd ==
  ASSUME NEW f, NEW S, IsFiniteSet(S), NEW x, x \notin S,
         \A y \in S \cup {x} : f[y] \in Nat
  PROVE  SumOf(f, S \cup {x}) = SumOf(f, S) + f[x]
<1> DEFINE T == S \cup {x}
<1>1. IsFiniteSet(T) /\ x \in T /\ T \ {x} = S
  BY FS_AddElement
<1>2. SumOf(f, S) \in Nat /\ f[x] \in Nat
  BY SumType
<1>3. SumOf(f, T) = f[x] + SumOf(f, T \ {x})
  <2> HIDE DEF T
  <2>1. \A y \in T : f[y] \in Nat
    BY DEF T
  <2>2. QED
    BY <1>1, <2>1, SumRemove
<1>4. QED
  BY <1>1, <1>2, <1>3

(* A summand grown by an amount grows the sum by it.                        *)
LEMMA SumGrows ==
  ASSUME NEW S, IsFiniteSet(S), NEW f \in [S -> Nat], NEW x \in S, NEW k \in Nat
  PROVE  SumOf([f EXCEPT ![x] = @ + k], S) = SumOf(f, S) + k
<1> DEFINE g == [f EXCEPT ![x] = @ + k]
           T == S \ {x}
<1>1. g[x] = f[x] + k /\ f[x] \in Nat /\ \A y \in S : g[y] \in Nat /\ f[y] \in Nat
  OBVIOUS
<1>2. IsFiniteSet(T) /\ \A y \in T : g[y] = f[y] /\ f[y] \in Nat
  BY FS_RemoveElement
<1> HIDE DEF g
<1>3. SumOf(g, S) = g[x] + SumOf(g, T) /\ SumOf(f, S) = f[x] + SumOf(f, T)
  BY <1>1, SumRemove
<1> HIDE DEF T
<1>4. SumOf(g, T) = SumOf(f, T)
  BY <1>2, SumSame
<1>5. SumOf(f, T) \in Nat
  BY <1>2, SumType
<1>6. SumOf(g, S) = SumOf(f, S) + k
  BY <1>1, <1>3, <1>4, <1>5
<1>7. QED
  BY <1>6 DEF g

LEMMA LedgerInit == Init => LedgerInv
<1> SUFFICES ASSUME Init PROVE LedgerInv
  OBVIOUS
<1>1. TypeOK
  BY TypeInit
<1>2. AllowIsFinal /\ Allowed = {} /\ \A a \in Agents : AllowedTo(a) = {}
  BY DEF Init, AllowIsFinal, Allowed, AllowedTo
<1>3. spentAll = SumOf(AmountOf, Allowed)
  BY <1>2, SumEmpty DEF Init
<1>4. ASSUME NEW a \in Agents PROVE SumOf(spentOn[a], Days) = SumOf(AmountOf, AllowedTo(a))
  <2>1. IsFiniteSet(Days) /\ \A d \in Days : spentOn[a][d] = 0
    BY FS_Interval, HookAssumption DEF Init, Days, HookAssumption
  <2>2. SumOf(spentOn[a], Days) = 0
    BY <2>1, SumZero
  <2>3. QED
    BY <1>2, <2>2, SumEmpty
<1>5. QED
  BY <1>1, <1>2, <1>3, <1>4 DEF LedgerInv, BooksBalance, AmountOf, AllowedTo

LEMMA LedgerNext == LedgerInv /\ [Next]_hookVars => LedgerInv'
<1> SUFFICES ASSUME LedgerInv, [Next]_hookVars PROVE LedgerInv'
  OBVIOUS
<1>1. TypeOK /\ TypeOK' /\ AllowIsFinal
  BY TypeNext DEF LedgerInv
<1>2. /\ spentAll = SumOf(AmountOf, Allowed)
      /\ \A a \in Agents : SumOf(spentOn[a], Days) = SumOf(AmountOf, AllowedTo(a))
  BY DEF LedgerInv, BooksBalance, AmountOf, AllowedTo
<1>3. AllowIsFinal' /\ (LeavesBooks \/ \E c \in Calls : Books(c))
  BY <1>1, LedgerMoves
<1>4. CASE LeavesBooks
  <2>1. /\ spentAll' = SumOf(AmountOf', Allowed')
        /\ \A a \in Agents : SumOf(spentOn'[a], Days) = SumOf(AmountOf', AllowedTo(a)')
    BY <1>2, <1>4 DEF LeavesBooks, AmountOf, AllowedTo
  <2>2. QED
    BY <1>1, <1>3, <2>1 DEF LedgerInv, BooksBalance, AmountOf, AllowedTo
<1>5. ASSUME NEW c \in Calls, Books(c) PROVE LedgerInv'
  <2>1. AmountOf' = AmountOf /\ Allowed' = Allowed \cup {c} /\ c \notin Allowed
    BY <1>5 DEF Books, AmountOf
  <2>2. spentAll' = SumOf(AmountOf, Allowed \cup {c})
    <3>1. spentAll' = spentAll + AmountOf[c]
      BY <1>1, <1>5, AmountsAreNat DEF Books
    <3>2. SumOf(AmountOf, Allowed \cup {c}) = SumOf(AmountOf, Allowed) + AmountOf[c]
      <4>1. \A y \in Allowed \cup {c} : AmountOf[y] \in Nat
        BY <1>1, AmountsAreNat
      <4>2. IsFiniteSet(Allowed)
        BY <1>1, AmountsAreNat
      <4>3. QED
        BY <2>1, <4>1, <4>2, SumAdd
    <3>3. QED
      BY <1>2, <3>1, <3>2
  <2>3. ASSUME NEW a \in Agents, a # op[c].agent
        PROVE  SumOf(spentOn'[a], Days) = SumOf(AmountOf, AllowedTo(a)')
    <3>1. spentOn'[a] = spentOn[a]
      BY <1>1, <1>5, <2>3 DEF Books, TypeOK
    <3>2. AllowedTo(a)' = AllowedTo(a)
      BY <1>5, <2>3 DEF Books, AllowedTo
    <3>3. QED
      BY <1>2, <3>1, <3>2
  <2>4. ASSUME NEW a \in Agents, a = op[c].agent
        PROVE  SumOf(spentOn'[a], Days) = SumOf(AmountOf, AllowedTo(a)')
    <3>1. a \in Agents /\ op[c].amount \in Nat /\ AmountOf[c] = op[c].amount
      BY <1>1, AmountsAreNat
    <3>2. spentOn'[a] = [spentOn[a] EXCEPT ![Today] = @ + op[c].amount]
      BY <1>1, <1>5, <2>4 DEF Books, TypeOK
    <3>3. spentOn[a] \in [Days -> Nat] /\ IsFiniteSet(Days) /\ Today \in Days
      <4>1. IsFiniteSet(Days)
        BY FS_Interval, HookAssumption DEF Days, HookAssumption
      <4>2. QED
        BY <1>1, <3>1, <4>1, TodayIsADay DEF TypeOK
    <3>4. AllowedTo(a)' = AllowedTo(a) \cup {c} /\ c \notin AllowedTo(a)
      BY <1>5, <2>4 DEF Books, AllowedTo
    <3>5. SumOf(spentOn'[a], Days) = SumOf(spentOn[a], Days) + op[c].amount
      BY <3>1, <3>2, <3>3, SumGrows
    <3>6. SumOf(AmountOf, AllowedTo(a) \cup {c}) = SumOf(AmountOf, AllowedTo(a)) + AmountOf[c]
      <4>1. IsFiniteSet(AllowedTo(a)) /\ \A y \in AllowedTo(a) \cup {c} : AmountOf[y] \in Nat
        BY <1>1, <3>1, AmountsAreNat
      <4>2. QED
        BY <3>4, <4>1, SumAdd
    <3>7. QED
      BY <1>2, <3>1, <3>4, <3>5, <3>6
  <2>5. /\ spentAll' = SumOf(AmountOf', Allowed')
        /\ \A a \in Agents : SumOf(spentOn'[a], Days) = SumOf(AmountOf', AllowedTo(a)')
    BY <2>1, <2>2, <2>3, <2>4
  <2>6. QED
    BY <1>1, <1>3, <2>5 DEF LedgerInv, BooksBalance, AmountOf, AllowedTo
<1>6. QED
  BY <1>3, <1>4, <1>5

(* LedgerAgrees: whatever is open at once and whenever it ends, the total   *)
(* is the sum of the amounts allowed, so is each agent's over its days, and *)
(* an amount is booked on the day of the step that allows it.               *)
THEOREM LedgerBalances == Spec => LedgerAgrees
<1>1. Init => LedgerInv
  BY LedgerInit
<1>2. LedgerInv /\ [Next]_hookVars => LedgerInv'
  BY LedgerNext
<1>3. LedgerInv => BooksBalance
  BY DEF LedgerInv
<1>4. LedgerInv /\ [Next]_hookVars => [BooksDated]_hookVars
  <2> SUFFICES ASSUME LedgerInv, [Next]_hookVars, NEW a \in Agents, NEW d \in Days,
                      spentOn'[a][d] # spentOn[a][d]
               PROVE  /\ d = Today
                      /\ \E c \in Allowed' \ Allowed :
                           op[c].agent = a /\ spentOn'[a][d] = spentOn[a][d] + op[c].amount
    BY DEF BooksDated
  <2>1. TypeOK /\ AllowIsFinal
    BY DEF LedgerInv
  <2>2. PICK c \in Calls : Books(c)
    BY <2>1, LedgerMoves DEF LeavesBooks
  <2>3. c \in Allowed' \ Allowed
    BY <2>2 DEF Books
  <2>4. spentOn' = [spentOn EXCEPT ![op[c].agent][Today] = @ + op[c].amount]
    BY <2>2 DEF Books
  <2>5. spentOn \in [Agents -> [Days -> Nat]]
    BY <2>1 DEF TypeOK
  <2>6. op[c].agent = a /\ d = Today /\ spentOn'[a][d] = spentOn[a][d] + op[c].amount
    BY <2>4, <2>5
  <2>7. QED
    BY <2>3, <2>6
<1>5. QED
  BY <1>1, <1>2, <1>3, <1>4, PTL DEF Spec, LedgerAgrees
=============================================================================
