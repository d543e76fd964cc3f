---------------------------- MODULE LibraryProofs ----------------------------
(***************************************************************************)
(* The components that share no state with another, proved each for every  *)
(* period, lifetime, limit and number of clients.                          *)
(***************************************************************************)
EXTENDS KeyRotation, Approvals, RevocationGate, Tenants, TokenBucket,
        ThresholdSignatures, SupabaseNonceStore, OrgPolicy, FiniteSetTheorems,
        WellFoundedInduction, TLAPS

-----------------------------------------------------------------------------
(* Key rotation: a legacy key is revoked when it was pulled or its overlap   *)
(* is over and the timer saw it, and onExpire was called for it exactly     *)
(* when it was revoked.                                                     *)

LegacyKey == [rotated : Nat, expires : Nat, revoked : BOOLEAN]

LegacyOk(L, told) ==
  /\ L \in Seq(LegacyKey)
  /\ told \in [Keys -> Nat]
  /\ \A k \in Keys : k < Len(L) =>
       /\ L[k + 1].expires = L[k + 1].rotated + Overlap
       /\ told[k] = IF L[k + 1].revoked THEN 1 ELSE 0
       /\ L[k + 1].revoked => L[k + 1].expires <= clock \/ k \in rotPulled
       /\ k \in rotPulled => L[k + 1].revoked
  /\ \A k \in Keys : k >= Len(L) => told[k] = 0 /\ k \notin rotPulled

(* A sequence in which one element is replaced                              *)
LEMMA Replaced ==
  ASSUME NEW S, NEW s \in Seq(S), NEW i \in 1 .. Len(s), NEW e \in S
  PROVE  /\ [s EXCEPT ![i] = e] \in Seq(S) /\ Len([s EXCEPT ![i] = e]) = Len(s)
         /\ [s EXCEPT ![i] = e][i] = e
         /\ \A n \in 1 .. Len(s) : n # i => [s EXCEPT ![i] = e][n] = s[n]
OBVIOUS

RotInv == clock \in Nat /\ LegacyOk(rotLegacy, rotTold)

LEMMA RetiredOk ==
  ASSUME RotInv
  PROVE  LegacyOk(Append(rotLegacy, Retired), rotTold)
<1> DEFINE L == Append(rotLegacy, Retired)
<1>1. clock \in Nat /\ Overlap \in Nat /\ LegacyOk(rotLegacy, rotTold)
  BY RotationAssumption DEF RotInv, RotationAssumption
<1>2. Retired \in LegacyKey /\ Retired.expires = Retired.rotated + Overlap /\ ~Retired.revoked
  BY <1>1 DEF Retired, LegacyKey
<1>3. rotLegacy \in Seq(LegacyKey)
  BY <1>1 DEF LegacyOk
<1>4. /\ L \in Seq(LegacyKey) /\ Len(L) = Len(rotLegacy) + 1 /\ L[Len(rotLegacy) + 1] = Retired
      /\ \A i \in 1 .. Len(rotLegacy) : L[i] = rotLegacy[i]
  BY <1>2, <1>3
<1> HIDE DEF L
<1>5. Len(rotLegacy) \in Nat
  BY <1>3
<1>6. ASSUME NEW k \in Keys, k < Len(L)
      PROVE  /\ L[k + 1].expires = L[k + 1].rotated + Overlap
             /\ rotTold[k] = IF L[k + 1].revoked THEN 1 ELSE 0
             /\ L[k + 1].revoked => L[k + 1].expires <= clock \/ k \in rotPulled
             /\ k \in rotPulled => L[k + 1].revoked
  <2>1. k \in Nat
    BY DEF Keys
  <2>2. CASE k < Len(rotLegacy)
    <3>1. L[k + 1] = rotLegacy[k + 1]
      BY <1>4, <1>5, <2>1, <2>2
    <3>2. QED
      BY <1>1, <2>2, <3>1 DEF LegacyOk
  <2>3. CASE k = Len(rotLegacy)
    <3>1. L[k + 1] = Retired
      BY <1>4, <2>3
    <3>2. rotTold[k] = 0 /\ k \notin rotPulled
      BY <1>1, <1>5, <2>3 DEF LegacyOk
    <3>3. QED
      BY <1>2, <3>1, <3>2
  <2>4. QED
    BY <1>4, <1>5, <1>6, <2>1, <2>2, <2>3
<1>7. \A k \in Keys : k >= Len(L) => rotTold[k] = 0 /\ k \notin rotPulled
  <2>1. \A k \in Keys : k \in Nat
    BY DEF Keys
  <2>2. \A k \in Keys : k >= Len(L) => k >= Len(rotLegacy)
    BY <1>4, <1>5, <2>1
  <2>3. QED
    BY <1>1, <2>2 DEF LegacyOk
<1>8. rotTold \in [Keys -> Nat]
  BY <1>1 DEF LegacyOk
<1>9. LegacyOk(L, rotTold)
  BY <1>4, <1>6, <1>7, <1>8 DEF LegacyOk
<1>10. QED
  BY <1>9 DEF L

LEMMA ExpireOk ==
  ASSUME NEW L, clock \in Nat, LegacyOk(L, rotTold), Expire(L), UNCHANGED <<clock, rotPulled>>
  PROVE  RotInv'
<1>1. L \in Seq(LegacyKey) /\ rotTold \in [Keys -> Nat] /\ Len(L) \in Nat
  BY DEF LegacyOk
<1>2. \A i \in 1 .. Len(L) : L[i] \in LegacyKey
  BY <1>1
<1>3. /\ rotLegacy' \in Seq(LegacyKey) /\ Len(rotLegacy') = Len(L)
      /\ \A i \in 1 .. Len(L) : rotLegacy'[i] =
           IF Lapsed(L[i]) THEN [L[i] EXCEPT !.revoked = TRUE] ELSE L[i]
  <2>1. \A i \in 1 .. Len(L) :
          (IF Lapsed(L[i]) THEN [L[i] EXCEPT !.revoked = TRUE] ELSE L[i]) \in LegacyKey
    BY <1>2 DEF LegacyKey
  <2>2. QED
    BY <1>1, <2>1 DEF Expire
<1>4. /\ rotTold' \in [Keys -> Nat]
      /\ \A k \in Keys : rotTold'[k] =
           IF k < Len(L) /\ Lapsed(L[k + 1]) THEN rotTold[k] + 1 ELSE rotTold[k]
  BY <1>1 DEF Expire
<1>5. ASSUME NEW k \in Keys, k < Len(L)
      PROVE  /\ rotLegacy'[k + 1].expires = rotLegacy'[k + 1].rotated + Overlap
             /\ rotTold'[k] = IF rotLegacy'[k + 1].revoked THEN 1 ELSE 0
             /\ rotLegacy'[k + 1].revoked => rotLegacy'[k + 1].expires <= clock \/ k \in rotPulled
             /\ k \in rotPulled => rotLegacy'[k + 1].revoked
  <2>1. k \in Nat /\ k + 1 \in 1 .. Len(L)
    BY <1>1, <1>5 DEF Keys
  <2>2. /\ L[k + 1] \in LegacyKey
        /\ L[k + 1].expires = L[k + 1].rotated + Overlap
        /\ rotTold[k] = IF L[k + 1].revoked THEN 1 ELSE 0
        /\ L[k + 1].revoked => L[k + 1].expires <= clock \/ k \in rotPulled
        /\ k \in rotPulled => L[k + 1].revoked
    BY <1>2, <1>5, <2>1 DEF LegacyOk
  <2>3. CASE Lapsed(L[k + 1])
    <3>1. rotLegacy'[k + 1] = [L[k + 1] EXCEPT !.revoked = TRUE] /\ rotTold'[k] = rotTold[k] + 1
      BY <1>3, <1>4, <1>5, <2>1, <2>3
    <3>2. rotTold[k] = 0 /\ L[k + 1].expires <= clock
      BY <2>2, <2>3 DEF Lapsed
    <3>3. QED
      BY <2>2, <3>1, <3>2 DEF LegacyKey
  <2>4. CASE ~Lapsed(L[k + 1])
    <3>1. rotLegacy'[k + 1] = L[k + 1] /\ rotTold'[k] = rotTold[k]
      BY <1>3, <1>4, <2>1, <2>4
    <3>2. QED
      BY <2>2, <3>1
  <2>5. QED
    BY <2>3, <2>4
<1>6. \A k \in Keys : k >= Len(L) => rotTold'[k] = 0 /\ k \notin rotPulled
  <2>1. \A k \in Keys : k \in Nat
    BY DEF Keys
  <2>2. \A k \in Keys : k >= Len(L) => rotTold'[k] = rotTold[k]
    BY <1>1, <1>4, <2>1
  <2>3. QED
    BY <2>2 DEF LegacyOk
<1>7. LegacyOk(rotLegacy, rotTold)'
  BY <1>3, <1>4, <1>5, <1>6 DEF LegacyOk
<1>8. QED
  BY <1>7 DEF RotInv

LEMMA RotInvNext == RotInv /\ [RotNext]_rotVars => RotInv'
<1> SUFFICES ASSUME RotInv, [RotNext]_rotVars PROVE RotInv'
  OBVIOUS
<1>1. clock \in Nat /\ LegacyOk(rotLegacy, rotTold)
  BY DEF RotInv
<1>2. CASE Rotate
  <2>1. rotLegacy' = Append(rotLegacy, Retired) /\ UNCHANGED <<clock, rotPulled, rotTold>>
    BY <1>2 DEF Rotate
  <2>2. LegacyOk(Append(rotLegacy, Retired), rotTold)
    BY RetiredOk
  <2>3. QED
    BY <1>1, <2>1, <2>2 DEF RotInv, LegacyOk
<1>3. CASE AutoRotation
  BY <1>1, <1>3, RetiredOk, ExpireOk DEF AutoRotation
<1>4. CASE ExpireLegacyKeys
  BY <1>1, <1>4, ExpireOk DEF ExpireLegacyKeys
<1>5. ASSUME NEW j \in Keys, RevokeLegacyKey(j) PROVE RotInv'
  <2>1. /\ rotLegacy \in Seq(LegacyKey) /\ rotTold \in [Keys -> Nat] /\ Len(rotLegacy) \in Nat
        /\ \A k \in Keys : k \in Nat
    BY <1>1 DEF LegacyOk, Keys
  <2>2. j < Len(rotLegacy) /\ j + 1 \in 1 .. Len(rotLegacy) /\ ~rotLegacy[j + 1].revoked
    BY <1>5, <2>1 DEF RevokeLegacyKey, Current, Legacy
  <2>3. rotLegacy[j + 1] \in LegacyKey /\ rotTold[j] = 0
        /\ rotLegacy[j + 1].expires = rotLegacy[j + 1].rotated + Overlap
    BY <1>1, <2>1, <2>2 DEF LegacyOk
  <2>4. /\ rotLegacy' = [rotLegacy EXCEPT ![j + 1] = [rotLegacy[j + 1] EXCEPT !.revoked = TRUE]]
        /\ rotTold' = [rotTold EXCEPT ![j] = 1]
        /\ rotPulled' = rotPulled \union {j} /\ clock' = clock
    <3>1. rotTold[j] + 1 = 1
      BY <2>3
    <3>2. QED
      BY <1>5, <3>1 DEF RevokeLegacyKey
  <2>5. [rotLegacy[j + 1] EXCEPT !.revoked = TRUE] \in LegacyKey
    BY <2>3 DEF LegacyKey
  <2>6. /\ rotLegacy' \in Seq(LegacyKey) /\ Len(rotLegacy') = Len(rotLegacy)
        /\ rotLegacy'[j + 1] = [rotLegacy[j + 1] EXCEPT !.revoked = TRUE]
        /\ \A i \in 1 .. Len(rotLegacy) : i # j + 1 => rotLegacy'[i] = rotLegacy[i]
    <3> DEFINE e == [rotLegacy[j + 1] EXCEPT !.revoked = TRUE]
    <3>1. e \in LegacyKey /\ rotLegacy' = [rotLegacy EXCEPT ![j + 1] = e]
      BY <2>4, <2>5
    <3> HIDE DEF e
    <3>2. /\ rotLegacy' \in Seq(LegacyKey) /\ Len(rotLegacy') = Len(rotLegacy)
          /\ rotLegacy'[j + 1] = e
          /\ \A i \in 1 .. Len(rotLegacy) : i # j + 1 => rotLegacy'[i] = rotLegacy[i]
      BY <2>1, <2>2, <3>1, Replaced
    <3>3. QED
      BY <3>2 DEF e
  <2>7. rotTold' \in [Keys -> Nat] /\ rotTold'[j] = 1 /\ \A k \in Keys : k # j => rotTold'[k] = rotTold[k]
    BY <2>1, <2>4
  <2>8. ASSUME NEW k \in Keys, k < Len(rotLegacy)
        PROVE  /\ rotLegacy'[k + 1].expires = rotLegacy'[k + 1].rotated + Overlap
               /\ rotTold'[k] = IF rotLegacy'[k + 1].revoked THEN 1 ELSE 0
               /\ rotLegacy'[k + 1].revoked => rotLegacy'[k + 1].expires <= clock \/ k \in rotPulled'
               /\ k \in rotPulled' => rotLegacy'[k + 1].revoked
    <3>1. CASE k = j
      BY <2>3, <2>4, <2>6, <2>7, <3>1 DEF LegacyKey
    <3>2. CASE k # j
      <4>1. rotLegacy'[k + 1] = rotLegacy[k + 1] /\ rotTold'[k] = rotTold[k]
            /\ (k \in rotPulled' <=> k \in rotPulled)
        BY <2>1, <2>4, <2>6, <2>7, <2>8, <3>2
      <4>2. QED
        BY <1>1, <2>8, <4>1 DEF LegacyOk
    <3>3. QED
      BY <3>1, <3>2
  <2>9. \A k \in Keys : k >= Len(rotLegacy) => rotTold'[k] = 0 /\ k \notin rotPulled'
    <3>1. \A k \in Keys : k >= Len(rotLegacy) => k # j
      BY <2>1, <2>2
    <3>2. QED
      BY <1>1, <2>4, <2>7, <3>1 DEF LegacyOk
  <2>10. LegacyOk(rotLegacy, rotTold)'
    BY <2>4, <2>6, <2>7, <2>8, <2>9 DEF LegacyOk
  <2>11. QED
    BY <1>1, <2>4, <2>10 DEF RotInv
<1>6. CASE TimePasses /\ UNCHANGED rotOwn
  <2>1. clock' \in Nat /\ clock <= clock' /\ UNCHANGED <<rotLegacy, rotPulled, rotTold>>
    BY <1>1, <1>6 DEF TimePasses, rotOwn
  <2>2. ASSUME NEW k \in Keys, k < Len(rotLegacy)
        PROVE  rotLegacy[k + 1].expires \in Nat
    <3>1. rotLegacy \in Seq(LegacyKey) /\ k \in Nat
      BY <1>1 DEF LegacyOk, Keys
    <3>2. rotLegacy[k + 1] \in LegacyKey
      BY <2>2, <3>1
    <3>3. QED
      BY <3>2 DEF LegacyKey
  <2>3. \A k \in Keys : k < Len(rotLegacy) =>
          (rotLegacy[k + 1].revoked => rotLegacy[k + 1].expires <= clock' \/ k \in rotPulled)
    BY <1>1, <2>1, <2>2 DEF LegacyOk
  <2>4. QED
    BY <1>1, <2>1, <2>3 DEF RotInv, LegacyOk
<1>7. CASE UNCHANGED rotVars
  BY <1>1, <1>7 DEF rotVars, rotOwn, RotInv, LegacyOk
<1>8. QED
  BY <1>2, <1>3, <1>4, <1>5, <1>6, <1>7 DEF RotNext

(* KeyOverlap: however late the timer runs and however fast rotations       *)
(* follow each other, an earlier key verifies for the overlap after its     *)
(* rotation and not longer, one that was pulled not at all, and onExpire is *)
(* called once for a key that verifies no more.                             *)
THEOREM KeyOverlap == RotSpec => []OverlapKept
<1>1. ClockInit /\ RotInit => RotInv
  BY DEF ClockInit, RotInit, RotInv, LegacyOk, Keys
<1>2. RotInv => OverlapKept
  <2> SUFFICES ASSUME RotInv, NEW k \in Keys, k < Current
               PROVE  /\ k \in ValidKeys <=> clock < Legacy(k).rotated + Overlap /\ k \notin rotPulled
                      /\ rotTold[k] <= 1
                      /\ rotTold[k] = 1 => k \notin ValidKeys
    BY DEF OverlapKept
  <2>1. rotLegacy \in Seq(LegacyKey) /\ k \in Nat /\ k < Len(rotLegacy) /\ clock \in Nat
    BY DEF RotInv, LegacyOk, Keys, Current
  <2>2. Legacy(k) \in LegacyKey
    BY <2>1 DEF Legacy
  <2>3. /\ Legacy(k).expires = Legacy(k).rotated + Overlap
        /\ rotTold[k] = IF Legacy(k).revoked THEN 1 ELSE 0
        /\ Legacy(k).revoked => Legacy(k).expires <= clock \/ k \in rotPulled
        /\ k \in rotPulled => Legacy(k).revoked
    BY <2>1 DEF RotInv, LegacyOk, Legacy
  <2>4. Legacy(k).expires \in Nat /\ Legacy(k).rotated \in Nat
    BY <2>2 DEF LegacyKey
  <2>5. k # Current /\ (k \in ValidKeys <=> ~Legacy(k).revoked /\ Legacy(k).expires > clock)
    BY <2>1 DEF ValidKeys, Current
  <2>6. QED
    BY <2>1, <2>3, <2>4, <2>5
<1>3. RotInv /\ [RotNext]_rotVars => RotInv'
  BY RotInvNext
<1>4. QED
  BY <1>1, <1>2, <1>3, PTL DEF RotSpec
-----------------------------------------------------------------------------
(* Approvals: a request that is pending was last looked at before it        *)
(* expired.                                                                 *)

AprInv ==
  /\ clock \in Nat
  /\ aprStatus \in [AprIds -> {"none", "pending", "approved", "denied", "expired"}]
  /\ aprExpires \in [AprIds -> Nat] /\ aprDecided \in [AprIds -> Nat] /\ aprLooked \in [AprIds -> Nat]
  /\ \A a \in AprIds : aprStatus[a] = "pending" => aprLooked[a] <= aprExpires[a]
  /\ LateOnlyUnseen

LEMMA LookKeeps ==
  ASSUME AprInv, NEW A, \A a \in A : Pending(a), Look(A)
  PROVE  AprInv'
<1>1. /\ \A a \in AprIds : aprLooked'[a] = IF a \in A THEN clock ELSE aprLooked[a]
      /\ \A a \in AprIds : aprStatus'[a] =
           IF a \in A /\ clock > aprExpires[a] THEN "expired" ELSE aprStatus[a]
      /\ aprLooked' \in [AprIds -> Nat]
      /\ aprStatus' \in [AprIds -> {"none", "pending", "approved", "denied", "expired"}]
      /\ UNCHANGED <<clock, aprExpires, aprDecided>>
  BY DEF Look, AprInv
<1>2. ASSUME NEW a \in AprIds, aprStatus'[a] = "pending" PROVE aprLooked'[a] <= aprExpires'[a]
  BY <1>1, <1>2 DEF AprInv
<1>3. ASSUME NEW a \in AprIds, aprStatus'[a] \in {"approved", "denied"}
      PROVE  aprStatus'[a] = aprStatus[a] /\ aprLooked'[a] = aprLooked[a]
  BY <1>1, <1>3 DEF Pending
<1>4. LateOnlyUnseen'
  BY <1>1, <1>3 DEF AprInv, LateOnlyUnseen
<1>5. QED
  BY <1>1, <1>2, <1>4 DEF AprInv

(* NoLateSurprise: for any lifetimes, a request that was decided after it   *)
(* expired is one nobody had looked at since.                               *)
THEOREM NoLateSurprise == AprSpec => []LateOnlyUnseen
<1>1. ClockInit /\ AprInit => AprInv
  BY DEF ClockInit, AprInit, AprInv, LateOnlyUnseen
<1>2. AprInv /\ [AprNext]_aprVars => AprInv'
  <2> SUFFICES ASSUME AprInv, [AprNext]_aprVars PROVE AprInv'
    OBVIOUS
  <2>1. ASSUME NEW a \in AprIds, NEW ttl \in AprTtls, CreateApproval(a, ttl) PROVE AprInv'
    <3>1. clock + ttl \in Nat /\ clock <= clock + ttl
      BY ApprovalAssumption DEF ApprovalAssumption, AprInv
    <3>2. QED
      BY <2>1, <3>1 DEF CreateApproval, AprInv, LateOnlyUnseen
  <2>2. ASSUME NEW a \in AprIds, GetApprovalStatus(a) PROVE AprInv'
    BY <2>2, LookKeeps DEF GetApprovalStatus
  <2>3. ASSUME NEW a \in AprIds, NEW d \in {"approved", "denied"}, Decide(a, d) PROVE AprInv'
    BY <2>3 DEF Decide, Pending, AprInv, LateOnlyUnseen
  <2>4. CASE CleanupExpired
    BY <2>4, LookKeeps DEF CleanupExpired
  <2>5. CASE TimePasses /\ UNCHANGED aprOwn
    BY <2>5 DEF TimePasses, aprOwn, AprInv, LateOnlyUnseen
  <2>6. CASE UNCHANGED aprVars
    BY <2>6 DEF aprVars, aprOwn, AprInv, LateOnlyUnseen
  <2>7. QED
    BY <2>1, <2>2, <2>3, <2>4, <2>5, <2>6 DEF AprNext
<1>3. AprInv => LateOnlyUnseen
  BY DEF AprInv
<1>4. QED
  BY <1>1, <1>2, <1>3, PTL DEF AprSpec
-----------------------------------------------------------------------------
(* The gate of the Cline plugin: a PERMIT that is under way was asked for   *)
(* before the revocation, and one in the cache arrived within the time      *)
(* limit of a lookup after it.                                              *)

GateInv ==
  /\ clock \in 0 .. MaxClock
  /\ gateRevoked \in Nat /\ (gateRevoked <= clock \/ gateRevoked = Never)
  /\ gateCall \in [GateCalls -> {"new", "asking", "answered", "forwarded", "denied"}]
  /\ gateSent \in [GateCalls -> Nat]
  /\ gateAnswer \in [GateCalls -> {"PERMIT", "DENY"}]
  /\ \A c \in GateCalls :
       /\ gateSent[c] <= clock
       /\ gateCall[c] = "answered" /\ gateAnswer[c] = "PERMIT" => gateSent[c] <= gateRevoked
  /\ \A e \in gateCache :
       /\ e.at \in Nat /\ e.at <= clock
       /\ e.rec = "PERMIT" => e.at <= gateRevoked + GateTimeout

LEMMA GateFacts ==
  ASSUME GateInv
  PROVE  /\ clock \in Nat /\ MaxClock \in Nat /\ clock < Never /\ Never \in Nat
         /\ GateTtl \in Nat \ {0} /\ GateTimeout \in Nat
         /\ (Revoked <=> gateRevoked <= clock)
         /\ (~Revoked => clock < gateRevoked)
<1>1. clock \in 0 .. MaxClock /\ MaxClock \in Nat /\ gateRevoked \in Nat
  BY ClockAssumption DEF GateInv, ClockAssumption
<1>2. GateTtl \in Nat \ {0} /\ GateTimeout \in Nat
  BY GateAssumption DEF GateAssumption
<1>3. QED
  BY <1>1, <1>2 DEF Never, Revoked

LEMMA SettleType ==
  ASSUME GateInv, NEW c \in GateCalls, NEW rec, Settle(c, rec)
  PROVE  /\ gateCall' \in [GateCalls -> {"new", "asking", "answered", "forwarded", "denied"}]
         /\ gateCall'[c] \in {"forwarded", "denied"}
         /\ gateCall'[c] = "forwarded" => rec = "PERMIT"
         /\ \A d \in GateCalls : d # c => gateCall'[d] = gateCall[d]
BY DEF Settle, GateInv

LEMMA CacheKeeps ==
  ASSUME GateInv, NEW c \in GateCalls, NEW rec, Cache(c, rec),
         rec = "PERMIT" => clock <= gateRevoked + GateTimeout
  PROVE  GateInv'
<1>1. clock \in Nat
  BY GateFacts
<1>2. /\ gateCache' = {[rec |-> rec, at |-> clock]}
      /\ UNCHANGED <<clock, gateSent, gateAnswer, gateRevoked>> /\ Settle(c, rec)
  BY DEF Cache
<1>3. \A e \in gateCache' :
        /\ e.at \in Nat /\ e.at <= clock
        /\ e.rec = "PERMIT" => e.at <= gateRevoked + GateTimeout
  BY <1>1, <1>2
<1>4. \A d \in GateCalls : gateCall'[d] = "answered" => gateCall[d] = "answered"
  BY <1>2, SettleType
<1>5. QED
  BY <1>2, <1>3, <1>4, SettleType DEF GateInv

LEMMA AnswerInTime ==
  ASSUME GateInv, NEW c \in GateCalls, gateCall[c] = "answered", clock <= gateSent[c] + GateTimeout,
         gateAnswer[c] = "PERMIT"
  PROVE  clock <= gateRevoked + GateTimeout
<1>1. gateSent[c] \in Nat /\ gateSent[c] <= gateRevoked /\ gateRevoked \in Nat
  BY DEF GateInv
<1>2. QED
  BY <1>1, GateFacts

LEMMA GateInvNext == GateInv /\ [GateNext]_gateVars => GateInv'
<1> SUFFICES ASSUME GateInv, [GateNext]_gateVars PROVE GateInv'
  OBVIOUS
<1>1. ASSUME NEW c \in GateCalls, NEW rec, Settle(c, rec),
             UNCHANGED <<clock, gateSent, gateAnswer, gateCache, gateRevoked>>
      PROVE  GateInv'
  <2>1. \A d \in GateCalls : gateCall'[d] = "answered" => gateCall[d] = "answered"
    BY <1>1, SettleType
  <2>2. QED
    BY <1>1, <2>1, SettleType DEF GateInv
<1>2. ASSUME NEW c \in GateCalls, Veto(c) PROVE GateInv'
  BY <1>1, <1>2 DEF Veto
<1>3. ASSUME NEW c \in GateCalls, FromCache(c) PROVE GateInv'
  BY <1>1, <1>3 DEF FromCache
<1>4. ASSUME NEW c \in GateCalls, Lookup(c) PROVE GateInv'
  <2>1. /\ gateCall' = [gateCall EXCEPT ![c] = "asking"] /\ gateSent' = [gateSent EXCEPT ![c] = clock]
        /\ UNCHANGED <<clock, gateAnswer, gateCache, gateRevoked>>
    BY <1>4 DEF Lookup
  <2>2. \A d \in GateCalls : /\ gateSent'[d] <= clock
                             /\ gateCall'[d] = "answered" => d # c /\ gateCall[d] = "answered"
                             /\ d # c => gateSent'[d] = gateSent[d]
    BY <2>1, GateFacts DEF GateInv
  <2>3. gateSent' \in [GateCalls -> Nat]
        /\ gateCall' \in [GateCalls -> {"new", "asking", "answered", "forwarded", "denied"}]
    BY <2>1, GateFacts DEF GateInv
  <2>4. QED
    BY <2>1, <2>2, <2>3 DEF GateInv
<1>5. ASSUME NEW c \in GateCalls, ResponderAnswers(c) PROVE GateInv'
  <2>1. /\ gateCall' = [gateCall EXCEPT ![c] = "answered"]
        /\ gateAnswer' = [gateAnswer EXCEPT ![c] = IF Revoked THEN "DENY" ELSE "PERMIT"]
        /\ UNCHANGED <<clock, gateSent, gateCache, gateRevoked>>
    BY <1>5 DEF ResponderAnswers
  <2>2. ~Revoked => gateSent[c] <= gateRevoked
    BY GateFacts DEF GateInv
  <2>3. \A d \in GateCalls :
          gateCall'[d] = "answered" /\ gateAnswer'[d] = "PERMIT" => gateSent[d] <= gateRevoked
    BY <2>1, <2>2 DEF GateInv
  <2>4. gateAnswer' \in [GateCalls -> {"PERMIT", "DENY"}]
        /\ gateCall' \in [GateCalls -> {"new", "asking", "answered", "forwarded", "denied"}]
    BY <2>1 DEF GateInv
  <2>5. QED
    BY <2>1, <2>3, <2>4 DEF GateInv
<1>6. ASSUME NEW c \in GateCalls, AnswerArrives(c) PROVE GateInv'
  BY <1>6, AnswerInTime, CacheKeeps DEF AnswerArrives
<1>7. ASSUME NEW c \in GateCalls, LookupFails(c) PROVE GateInv'
  BY <1>7, CacheKeeps DEF LookupFails
<1>8. CASE Revoke
  <2>1. gateRevoked' = clock /\ UNCHANGED <<clock, gateCall, gateSent, gateAnswer, gateCache>>
    BY <1>8 DEF Revoke
  <2>2. \A e \in gateCache : e.at <= clock + GateTimeout
    BY GateFacts DEF GateInv
  <2>3. QED
    BY <2>1, <2>2, GateFacts DEF GateInv
<1>9. CASE TimePasses /\ UNCHANGED gateOwn
  <2>1. clock' = clock + 1 /\ clock < MaxClock
        /\ UNCHANGED <<gateCall, gateSent, gateAnswer, gateCache, gateRevoked>>
    BY <1>9 DEF TimePasses, gateOwn
  <2>2. clock' \in 0 .. MaxClock /\ clock \in Nat
    BY <2>1, GateFacts
  <2>3. (gateRevoked <= clock' \/ gateRevoked = Never) /\ \A c \in GateCalls : gateSent[c] <= clock'
    BY <2>1, GateFacts DEF GateInv
  <2>4. \A e \in gateCache : e.at <= clock'
    BY <2>1, GateFacts DEF GateInv
  <2>5. QED
    BY <2>1, <2>2, <2>3, <2>4 DEF GateInv
<1>10. CASE UNCHANGED gateVars
  BY <1>10 DEF gateVars, gateOwn, GateInv
<1>11. QED
  BY <1>2, <1>3, <1>4, <1>5, <1>6, <1>7, <1>8, <1>9, <1>10 DEF GateNext

(* PermitBounded: however lookups overtake each other, a call is forwarded   *)
(* before the revocation is as old as the life of a cached answer and the   *)
(* time limit of a lookup together.                                         *)
THEOREM PermitBounded == GateSpec => PermitIsRecent
<1>1. ClockInit /\ GateInit => GateInv
  BY ClockAssumption DEF ClockAssumption, ClockInit, GateInit, GateInv, Never
<1>2. GateInv /\ [GateNext]_gateVars => GateInv'
  BY GateInvNext
<1>3. ASSUME GateInv, [GateNext]_gateVars
      PROVE  [\A c \in GateCalls :
                gateCall[c] # "forwarded" /\ gateCall'[c] = "forwarded"
                  => clock < gateRevoked + GateTtl + GateTimeout]_gateVars
  <2> SUFFICES ASSUME NEW d \in GateCalls, gateCall[d] # "forwarded", gateCall'[d] = "forwarded"
               PROVE  clock < gateRevoked + GateTtl + GateTimeout
    OBVIOUS
  <2>1. gateRevoked \in Nat /\ gateCall \in [GateCalls -> {"new", "asking", "answered", "forwarded", "denied"}]
    BY <1>3 DEF GateInv
  <2>2. ASSUME NEW c \in GateCalls, Veto(c) \/ Lookup(c) \/ ResponderAnswers(c) \/ LookupFails(c)
        PROVE  FALSE
    BY <2>1, <2>2 DEF Veto, Lookup, ResponderAnswers, LookupFails, Cache, Settle
  <2>3. ASSUME NEW c \in GateCalls, FromCache(c)
        PROVE  clock < gateRevoked + GateTtl + GateTimeout
    <3>1. PICK e \in gateCache : Usable(e) /\ Settle(c, e.rec)
      BY <2>3 DEF FromCache
    <3>2. e.rec = "PERMIT"
      BY <1>3, <3>1, SettleType
    <3>3. e.at \in Nat /\ e.at <= gateRevoked + GateTimeout /\ clock - e.at < GateTtl
      BY <1>3, <3>1, <3>2 DEF GateInv, Usable
    <3>4. QED
      BY <1>3, <2>1, <3>3, GateFacts
  <2>4. ASSUME NEW c \in GateCalls, AnswerArrives(c)
        PROVE  clock < gateRevoked + GateTtl + GateTimeout
    <3>1. gateCall[c] = "answered" /\ clock <= gateSent[c] + GateTimeout /\ Settle(c, gateAnswer[c])
      BY <2>4 DEF AnswerArrives, Cache
    <3>2. gateAnswer[c] = "PERMIT"
      BY <1>3, <3>1, SettleType
    <3>3. clock <= gateRevoked + GateTimeout
      BY <1>3, <3>1, <3>2, AnswerInTime
    <3>4. QED
      BY <1>3, <2>1, <3>3, GateFacts
  <2>5. gateCall' # gateCall
    OBVIOUS
  <2>6. QED
    BY <1>3, <2>2, <2>3, <2>4, <2>5 DEF GateNext, Revoke, gateOwn, gateVars
<1>4. QED
  BY <1>1, <1>2, <1>3, PTL DEF GateSpec, PermitIsRecent
-----------------------------------------------------------------------------
(* Organisations: each map is the inverse of the other, and a key that is   *)
(* drawn was never in them.                                                 *)

TenInv ==
  /\ orgKey \in [OrgIds -> SUBSET ApiKeys]
  /\ keyOrg \in [ApiKeys -> SUBSET OrgIds]
  /\ \A o \in OrgIds : \A k \in orgKey[o] : orgKey[o] = {k} /\ k \in keysDrawn
  /\ \A k \in ApiKeys : \A o \in keyOrg[k] : keyOrg[k] = {o}
  /\ \A o \in OrgIds : o \notin orgsDrawn => orgKey[o] = {}
  /\ \A k \in ApiKeys, o \in OrgIds : k \in orgKey[o] <=> o \in keyOrg[k]

(* TenantKeys: whatever organisations are created, deleted and given new    *)
(* keys, a key opens the organisation whose admin key it is and no other.   *)
THEOREM TenantKeys == TenSpec => []KeyOpensItsOrg
<1>1. TenInit => TenInv
  BY DEF TenInit, TenInv
<1>2. TenInv /\ [TenNext]_tenVars => TenInv'
  <2> SUFFICES ASSUME TenInv, [TenNext]_tenVars PROVE TenInv'
    OBVIOUS
  <2>1. ASSUME NEW o \in OrgIds, NEW k \in ApiKeys, CreateOrganization(o, k) PROVE TenInv'
    <3>1. orgKey[o] = {} /\ keyOrg[k] = {} /\ \A p \in OrgIds : k \notin orgKey[p]
      BY <2>1 DEF CreateOrganization, TenInv
    <3>2. QED
      BY <2>1, <3>1 DEF CreateOrganization, TenInv
  <2>2. ASSUME NEW o \in OrgIds, DeleteOrganization(o) PROVE TenInv'
    <3>1. \A k \in ApiKeys : keyOrg'[k] = IF k \in orgKey[o] THEN {} ELSE keyOrg[k]
      BY <2>2 DEF DeleteOrganization
    <3>2. \A p \in OrgIds : orgKey'[p] = IF p = o THEN {} ELSE orgKey[p]
      BY <2>2 DEF DeleteOrganization, TenInv
    <3>3. orgKey' \in [OrgIds -> SUBSET ApiKeys] /\ keyOrg' \in [ApiKeys -> SUBSET OrgIds]
      BY <2>2 DEF DeleteOrganization, TenInv
    <3>4. UNCHANGED <<keysDrawn, orgsDrawn>>
      BY <2>2 DEF DeleteOrganization
    <3>5. QED
      BY <3>1, <3>2, <3>3, <3>4 DEF TenInv
  <2>3. ASSUME NEW o \in OrgIds, NEW k \in ApiKeys, RotateApiKey(o, k) PROVE TenInv'
    <3>1. keyOrg[k] = {} /\ \A p \in OrgIds : k \notin orgKey[p]
      BY <2>3 DEF RotateApiKey, TenInv
    <3>2. \A j \in ApiKeys : keyOrg'[j] = IF j = k THEN {o} ELSE IF j \in orgKey[o] THEN {} ELSE keyOrg[j]
      BY <2>3 DEF RotateApiKey
    <3>3. \A p \in OrgIds : orgKey'[p] = IF p = o THEN {k} ELSE orgKey[p]
      BY <2>3 DEF RotateApiKey, TenInv
    <3>4. orgKey' \in [OrgIds -> SUBSET ApiKeys] /\ keyOrg' \in [ApiKeys -> SUBSET OrgIds]
      BY <2>3 DEF RotateApiKey, TenInv
    <3>5. keysDrawn' = keysDrawn \union {k} /\ orgsDrawn' = orgsDrawn /\ o \in orgsDrawn
      BY <2>3 DEF RotateApiKey, TenInv, Exists
    <3>6. QED
      BY <3>1, <3>2, <3>3, <3>4, <3>5 DEF TenInv
  <2>4. CASE UNCHANGED <<orgKey, keyOrg, keysDrawn, orgsDrawn>>
    BY <2>4 DEF TenInv
  <2>5. QED
    BY <2>1, <2>2, <2>3, <2>4 DEF TenNext, SetStatusOf, tenVars
<1>3. TenInv => KeyOpensItsOrg
  BY DEF TenInv, KeyOpensItsOrg, Authenticated, Exists
<1>4. QED
  BY <1>1, <1>2, <1>3, PTL DEF TenSpec
-----------------------------------------------------------------------------
(* The token bucket: what was admitted since a check is paid for by what the *)
(* bucket lacks and by the refill since that check; a bucket that is gone    *)
(* would be full by the earliest time the next check can bring.              *)

Cost(k)  == k * TokenUnit
Worth(x) == x * RefillRate

LEMMA CostFacts ==
  /\ TokenUnit \in Nat \ {0} /\ Full \in Nat /\ TokenUnit <= Full
  /\ Cost(1) = TokenUnit
  /\ \A k \in Nat : Cost(k) \in Nat /\ Cost(k + 1) = Cost(k) + TokenUnit
<1>1. TokenUnit \in Nat \ {0} /\ MaxTokens \in Nat \ {0}
  BY BucketAssumption DEF BucketAssumption
<1>2. Full \in Nat /\ TokenUnit <= Full
  BY <1>1 DEF Full
<1>3. Cost(1) = TokenUnit
  BY <1>1 DEF Cost
<1>4. \A k \in Nat : Cost(k) \in Nat /\ Cost(k + 1) = Cost(k) + TokenUnit
  BY <1>1 DEF Cost
<1>5. QED
  BY <1>1, <1>2, <1>3, <1>4

LEMMA WorthFacts ==
  /\ RefillRate \in Nat \ {0}
  /\ \A x \in Int : Worth(x) \in Int
  /\ \A x, y \in Int : Worth(x - y) = Worth(x) - Worth(y)
  /\ \A x, y \in Int : x <= y => Worth(x) <= Worth(y)
<1>1. RefillRate \in Nat \ {0}
  BY BucketAssumption DEF BucketAssumption
<1>2. \A x \in Int : Worth(x) \in Int
  BY <1>1 DEF Worth
<1>3. \A x, y \in Int : Worth(x - y) = Worth(x) - Worth(y)
  BY <1>1 DEF Worth
<1>4. \A x, y \in Int : x <= y => Worth(x) <= Worth(y)
  BY <1>1 DEF Worth
<1>5. QED
  BY <1>1, <1>2, <1>3, <1>4

(* The lifetime of the key is long enough to fill the bucket and leaves the *)
(* slack.                                                                   *)
LEMMA TtlFills == KeyTtl \in Nat /\ TtlSlack \in Nat /\ Full <= Worth(KeyTtl - TtlSlack)
<1>1. RefillRate \in Nat \ {0} /\ Full \in Nat
  BY WorthFacts, CostFacts
<1> DEFINE q == (Full + RefillRate - 1) \div RefillRate
<1>2. TtlSlack \in Nat
  BY BucketAssumption DEF BucketAssumption
<1>3. q \in Nat /\ q * RefillRate >= Full
  BY <1>1
<1>4. KeyTtl - TtlSlack = q /\ KeyTtl \in Nat
  BY <1>2, <1>3 DEF KeyTtl
<1>5. QED
  BY <1>2, <1>3, <1>4 DEF Worth

Spent(log, lacks, t) ==
  \A i \in 1 .. Len(log) : Cost(Len(log) - i + 1) <= lacks + Worth(t) - Worth(log[i])

Bounded(log) ==
  \A i, j \in 1 .. Len(log) : i <= j => Cost(j - i + 1) <= Full + Worth(log[j]) - Worth(log[i])

LEMMA SpentLater ==
  ASSUME NEW log \in Seq(Nat), NEW d \in Int, NEW e \in Int, NEW t \in Int, NEW u \in Int,
         Spent(log, d, t), d + Worth(t) <= e + Worth(u)
  PROVE  Spent(log, e, u)
<1> SUFFICES ASSUME NEW i \in 1 .. Len(log)
             PROVE  Cost(Len(log) - i + 1) <= e + Worth(u) - Worth(log[i])
  BY DEF Spent
<1>1. log[i] \in Nat /\ Len(log) - i + 1 \in Nat
  OBVIOUS
<1>2. Cost(Len(log) - i + 1) <= d + Worth(t) - Worth(log[i])
  BY DEF Spent
<1>3. Worth(t) \in Int /\ Worth(u) \in Int /\ Worth(log[i]) \in Int
  BY <1>1, WorthFacts DEF Worth
<1>4. Cost(Len(log) - i + 1) \in Nat
  BY <1>1, CostFacts
<1>5. d + Worth(t) <= e + Worth(u)
  OBVIOUS
<1>6. PICK x \in Int : x = Worth(t)
  BY <1>3
<1>7. PICK y \in Int : y = Worth(u)
  BY <1>3
<1>8. PICK z \in Int : z = Worth(log[i])
  BY <1>3
<1>9. PICK c \in Nat : c = Cost(Len(log) - i + 1)
  BY <1>4
<1>10. c <= d + x - z /\ d + x <= e + y
  BY <1>2, <1>5, <1>6, <1>7, <1>8, <1>9
<1>11. c <= e + y - z
  BY <1>10
<1>12. QED
  BY <1>7, <1>8, <1>9, <1>11

(* A sequence of times after one more                                       *)
LEMMA Appended ==
  ASSUME NEW log \in Seq(Nat), NEW t \in Nat
  PROVE  /\ Append(log, t) \in Seq(Nat) /\ Len(Append(log, t)) = Len(log) + 1 /\ Len(log) \in Nat
         /\ Append(log, t)[Len(log) + 1] = t
         /\ \A i \in 1 .. Len(log) : Append(log, t)[i] = log[i]
OBVIOUS

LEMMA SpentOneMore ==
  ASSUME NEW log \in Seq(Nat), NEW t \in Nat, NEW e \in Nat, e + TokenUnit <= Full,
         Spent(log, e, t), Bounded(log)
  PROVE  Spent(Append(log, t), e + TokenUnit, t) /\ Bounded(Append(log, t))
<1> DEFINE n == Len(log)
           l == Append(log, t)
<1>1. /\ l \in Seq(Nat) /\ Len(l) = n + 1 /\ n \in Nat /\ l[n + 1] = t
      /\ \A i \in 1 .. n : l[i] = log[i] /\ log[i] \in Nat
  BY Appended
<1>2. TokenUnit \in Nat /\ Full \in Nat /\ Cost(1) = TokenUnit
  BY CostFacts
<1>3. \A i \in 1 .. n : Cost(n - i + 1) <= e + Worth(t) - Worth(log[i])
  BY DEF Spent
<1>4. \A i, j \in 1 .. n : i <= j => Cost(j - i + 1) <= Full + Worth(log[j]) - Worth(log[i])
  BY DEF Bounded
<1> HIDE DEF n, l
<1>5. ASSUME NEW i \in 1 .. n + 1
      PROVE  Cost(n + 1 - i + 1) <= e + TokenUnit + Worth(t) - Worth(l[i])
  <2>1. Worth(t) \in Int
    BY WorthFacts
  <2>2. CASE i = n + 1
    <3>1. n + 1 - i + 1 = 1 /\ l[i] = t
      BY <1>1, <2>2
    <3>2. QED
      BY <1>2, <2>1, <3>1
  <2>3. CASE i <= n
    <3>1. i \in 1 .. n /\ n - i + 1 \in Nat /\ n + 1 - i + 1 = (n - i + 1) + 1
      BY <1>1, <2>3
    <3>2. Cost(n + 1 - i + 1) = Cost(n - i + 1) + TokenUnit /\ Cost(n - i + 1) \in Nat
      BY <3>1, CostFacts
    <3>3. l[i] = log[i] /\ Worth(log[i]) \in Int
      BY <1>1, <3>1, WorthFacts DEF Worth
    <3>4. Cost(n - i + 1) <= e + Worth(t) - Worth(log[i])
      BY <1>3, <3>1
    <3>5. QED
      BY <1>2, <2>1, <3>2, <3>3, <3>4
  <2>4. QED
    BY <1>1, <2>2, <2>3
<1>6. ASSUME NEW i \in 1 .. n + 1, NEW j \in 1 .. n + 1, i <= j
      PROVE  Cost(j - i + 1) <= Full + Worth(l[j]) - Worth(l[i])
  <2>1. CASE j <= n
    <3>1. i \in 1 .. n /\ j \in 1 .. n
      BY <1>1, <1>6, <2>1
    <3>2. QED
      BY <1>1, <1>4, <1>6, <3>1
  <2>2. CASE j = n + 1
    <3>1. l[j] = t /\ Cost(j - i + 1) <= e + TokenUnit + Worth(t) - Worth(l[i])
      BY <1>1, <1>5, <2>2
    <3>2. l[i] \in Nat /\ j - i + 1 \in Nat
      BY <1>1, <1>6, <2>2
    <3>3. Worth(t) \in Int /\ Worth(l[i]) \in Int
      BY <3>2, WorthFacts DEF Worth
    <3>4. Cost(j - i + 1) \in Nat
      BY <3>2, CostFacts
    <3>5. QED
      BY <1>2, <3>1, <3>3, <3>4
  <2>3. QED
    BY <1>1, <2>1, <2>2
<1>7. Spent(l, e + TokenUnit, t)
  BY <1>1, <1>5 DEF Spent
<1>8. Bounded(l)
  BY <1>1, <1>6 DEF Bounded
<1>9. QED
  BY <1>7, <1>8 DEF l

(* The bucket holds T tokens as of l.  It was last written at touched.      *)
Holding(bucket, T, l, log, touched) ==
  /\ bucket = {[tokens |-> T, last |-> l]}
  /\ Spent(log, Full - T, l)
  /\ Worth(l) - Worth(touched) <= T

(* The earliest time a script may still take                                *)
Earliest == clock - (IF tbShared THEN EvalDelay ELSE 0)

BucketOk ==
  \/ tbBucket = {} /\ Spent(tbLog, 0, Earliest)
  \/ \E T \in Int, l \in Nat : Holding(tbBucket, T, l, tbLog, tbTouched)

TbInv ==
  /\ clock \in Nat /\ tbShared \in BOOLEAN
  /\ tbTouched \in Nat /\ tbTouched <= clock
  /\ tbSent \in [Checks -> Int] /\ \A c \in Checks : -1 <= tbSent[c] /\ tbSent[c] <= clock
  /\ tbLog \in Seq(Nat) /\ Bounded(tbLog)
  /\ BucketOk

(* The bucket a check finds after the refill to its time, r tokens, accounts *)
(* for what was admitted.                                                   *)
LEMMA RefilledFacts ==
  ASSUME TbInv, NEW t \in Nat, Earliest <= t, t <= clock
  PROVE  /\ Refilled(t) \in Int /\ Refilled(t) <= Full
         /\ Spent(tbLog, Full - Refilled(t), t)
         /\ Worth(t) - Worth(clock) <= Refilled(t)
<1>1. /\ clock \in Nat /\ tbTouched \in Nat /\ tbTouched <= clock /\ tbLog \in Seq(Nat) /\ Full \in Nat
      /\ Earliest \in Int
  BY CostFacts, BucketAssumption DEF TbInv, Earliest, BucketAssumption
<1>2. /\ Worth(t) \in Int /\ Worth(clock) \in Int /\ Worth(tbTouched) \in Int /\ Worth(Earliest) \in Int
      /\ Worth(t) <= Worth(clock) /\ Worth(tbTouched) <= Worth(clock) /\ Worth(Earliest) <= Worth(t)
  <2>1. RefillRate \in Nat \ {0}
    BY WorthFacts
  <2>2. QED
    BY <1>1, <2>1, WorthFacts DEF Worth
<1>3. CASE tbBucket = {} /\ Spent(tbLog, 0, Earliest)
  <2>1. Refilled(t) = Full
    BY <1>3 DEF Refilled
  <2>2. Spent(tbLog, 0, t)
    BY <1>1, <1>2, <1>3, SpentLater
  <2>3. QED
    BY <1>1, <1>2, <2>1, <2>2
<1>4. ASSUME NEW T \in Int, NEW l \in Nat, Holding(tbBucket, T, l, tbLog, tbTouched)
      PROVE  /\ Refilled(t) \in Int /\ Refilled(t) <= Full
             /\ Spent(tbLog, Full - Refilled(t), t)
             /\ Worth(t) - Worth(clock) <= Refilled(t)
  <2>1. tbBucket = {[tokens |-> T, last |-> l]}
    BY <1>4 DEF Holding
  <2>2. Refilled(t) = Least(Full, T + Worth(t - l))
    <3>1. (CHOOSE b \in tbBucket : TRUE) = [tokens |-> T, last |-> l]
      BY <2>1
    <3>2. tbBucket # {}
      BY <2>1
    <3>3. [tokens |-> T, last |-> l].tokens = T /\ [tokens |-> T, last |-> l].last = l
      OBVIOUS
    <3>4. Refilled(t) = Least(Full, T + (t - l) * RefillRate)
      BY <3>1, <3>2, <3>3 DEF Refilled
    <3>5. QED
      BY <3>4 DEF Worth
  <2>3. Worth(t - l) = Worth(t) - Worth(l) /\ Worth(l) \in Int
    <3>1. RefillRate \in Nat
      BY WorthFacts
    <3>2. QED
      BY <3>1 DEF Worth
  <2>4. /\ Refilled(t) \in Int /\ Refilled(t) <= Full /\ Refilled(t) <= T + Worth(t) - Worth(l)
        /\ Refilled(t) = Full \/ Refilled(t) = T + Worth(t) - Worth(l)
    BY <1>1, <1>2, <2>2, <2>3 DEF Least
  <2>5. Full - T + Worth(l) <= Full - Refilled(t) + Worth(t)
    <3>1. PICK r \in Int : r = Refilled(t)
      BY <2>4
    <3>2. PICK x \in Int : x = Worth(t)
      BY <1>2
    <3>3. PICK y \in Int : y = Worth(l)
      BY <2>3
    <3>4. r <= T + x - y
      BY <2>4, <3>1, <3>2, <3>3
    <3>5. Full - T + y <= Full - r + x
      BY <1>1, <3>4
    <3>6. QED
      BY <3>1, <3>2, <3>3, <3>5
  <2>6. Spent(tbLog, Full - T, l)
    BY <1>4 DEF Holding
  <2>7. Full - T \in Int /\ Full - Refilled(t) \in Int
    BY <1>1, <2>4
  <2>8. Spent(tbLog, Full - Refilled(t), t)
    BY <1>1, <2>5, <2>6, <2>7, SpentLater
  <2>9. Worth(t) - Worth(clock) <= Refilled(t)
    <3>1. Worth(l) - Worth(tbTouched) <= T
      BY <1>4 DEF Holding
    <3>2. QED
      BY <1>1, <1>2, <2>3, <2>4, <3>1
  <2>10. QED
    BY <2>4, <2>8, <2>9
<1>5. QED
  BY <1>3, <1>4 DEF TbInv, BucketOk

LEMMA TakeKeeps ==
  ASSUME TbInv, NEW c \in Checks, NEW t \in Nat, Earliest <= t, t <= clock, Take(c, t)
  PROVE  /\ tbTouched' = clock /\ tbLog' \in Seq(Nat) /\ Bounded(tbLog')
         /\ \E T \in Int, l \in Nat : Holding(tbBucket', T, l, tbLog', clock)
<1> DEFINE r == Refilled(t)
<1>1. /\ r \in Int /\ r <= Full /\ Spent(tbLog, Full - r, t) /\ Worth(t) - Worth(clock) <= r
  BY RefilledFacts
<1>2. tbLog \in Seq(Nat) /\ Bounded(tbLog) /\ clock \in Nat
  BY DEF TbInv
<1>3. /\ tbTouched' = clock
      /\ r >= TokenUnit => /\ tbBucket' = {[tokens |-> r - TokenUnit, last |-> t]}
                          /\ tbLog' = Append(tbLog, t)
      /\ ~(r >= TokenUnit) => tbBucket' = {[tokens |-> r, last |-> t]} /\ tbLog' = tbLog
  BY DEF Take
<1>4. /\ Worth(t) \in Int /\ Worth(clock) \in Int /\ Worth(t) <= Worth(clock)
      /\ TokenUnit \in Nat /\ Full \in Nat
  <2>1. RefillRate \in Nat \ {0} /\ (\A x, y \in Int : x <= y => Worth(x) <= Worth(y))
    BY WorthFacts
  <2>2. Worth(t) \in Int /\ Worth(clock) \in Int
    BY <1>2, <2>1 DEF Worth
  <2>3. Worth(t) <= Worth(clock)
    BY <1>2, <2>1
  <2>4. QED
    BY <2>2, <2>3, CostFacts
<1> HIDE DEF r
<1>5. CASE r >= TokenUnit
  <2>1. /\ Full - r \in Nat /\ Full - r + TokenUnit <= Full /\ r - TokenUnit \in Int
        /\ Full - r + TokenUnit = Full - (r - TokenUnit)
        /\ Worth(t) - Worth(clock) <= r - TokenUnit
    BY <1>1, <1>4, <1>5
  <2>2. /\ Spent(Append(tbLog, t), Full - r + TokenUnit, t)
        /\ Bounded(Append(tbLog, t))
    BY <1>1, <1>2, <2>1, SpentOneMore
  <2>3. Holding(tbBucket', r - TokenUnit, t, tbLog', clock)
    BY <1>3, <1>5, <2>1, <2>2 DEF Holding
  <2>4. Append(tbLog, t) \in Seq(Nat)
    BY <1>2
  <2>5. QED
    BY <1>3, <1>5, <2>1, <2>2, <2>3, <2>4
<1>6. CASE ~(r >= TokenUnit)
  <2>1. Holding(tbBucket', r, t, tbLog', clock)
    BY <1>1, <1>3, <1>6 DEF Holding
  <2>2. QED
    BY <1>1, <1>2, <1>3, <1>6, <2>1
<1>7. QED
  BY <1>5, <1>6

LEMMA ExpiryKeeps == ASSUME TbInv, KeyExpires PROVE Spent(tbLog, 0, clock - EvalDelay)
<1>1. PICK T \in Int, l \in Nat : Holding(tbBucket, T, l, tbLog, tbTouched)
  BY DEF TbInv, BucketOk, KeyExpires
<1>2. /\ clock \in Nat /\ tbTouched \in Nat /\ tbLog \in Seq(Nat) /\ Full \in Nat
      /\ clock >= tbTouched + KeyTtl
  BY CostFacts DEF TbInv, KeyExpires
<1>3. /\ KeyTtl \in Nat /\ TtlSlack \in Nat /\ EvalDelay \in Nat /\ EvalDelay <= TtlSlack
      /\ Full <= Worth(KeyTtl - TtlSlack)
  BY TtlFills, BucketAssumption DEF BucketAssumption
<1>4. RefillRate \in Nat \ {0}
  BY WorthFacts
<1>5. PICK x \in Int : x = Worth(l)
  BY <1>4 DEF Worth
<1>6. PICK y \in Int : y = Worth(tbTouched)
  BY <1>2, <1>4 DEF Worth
<1>7. PICK z \in Int : z = Worth(clock - EvalDelay)
  BY <1>2, <1>3, <1>4 DEF Worth
<1>8. PICK w \in Int : w = Worth(KeyTtl - TtlSlack)
  BY <1>3, <1>4 DEF Worth
<1>9. w + y <= z
  <2>1. Worth(KeyTtl - TtlSlack) = Worth((tbTouched + KeyTtl - TtlSlack) - tbTouched)
    <3>1. KeyTtl - TtlSlack = (tbTouched + KeyTtl - TtlSlack) - tbTouched
      BY <1>2, <1>3
    <3>2. QED
      BY <3>1
  <2>2. tbTouched + KeyTtl - TtlSlack \in Int /\ clock - EvalDelay \in Int
        /\ tbTouched + KeyTtl - TtlSlack <= clock - EvalDelay
    BY <1>2, <1>3
  <2>3. PICK v \in Int : v = Worth(tbTouched + KeyTtl - TtlSlack)
    BY <2>2, WorthFacts
  <2>4. w = v - y
    BY <1>2, <1>6, <1>8, <2>1, <2>2, <2>3, WorthFacts
  <2>5. v <= z
    BY <1>7, <2>2, <2>3, WorthFacts
  <2>6. QED
    BY <2>4, <2>5
<1>10. Full <= w /\ x - y <= T /\ Spent(tbLog, Full - T, l)
  BY <1>1, <1>3, <1>5, <1>6, <1>8 DEF Holding
<1>11. Full - T + x <= 0 + z /\ Full - T \in Int
  BY <1>2, <1>9, <1>10
<1>12. QED
  BY <1>2, <1>3, <1>5, <1>7, <1>10, <1>11, SpentLater

LEMMA DropKeeps == ASSUME TbInv, DropFull PROVE TbInv'
<1>1. /\ clock \in Nat /\ tbLog \in Seq(Nat) /\ Full \in Nat /\ ~tbShared /\ Earliest = clock
      /\ UNCHANGED <<clock, tbShared, tbTouched, tbSent, tbDone, tbLog>>
  BY CostFacts DEF TbInv, DropFull, Earliest
<1>2. Earliest' = Earliest
  BY <1>1 DEF Earliest
<1>3. CASE tbBucket = {} /\ Spent(tbLog, 0, Earliest)
  <2>1. tbBucket' = {}
    BY <1>3 DEF DropFull
  <2>2. QED
    BY <1>1, <1>2, <1>3, <2>1 DEF TbInv, BucketOk
<1>4. ASSUME NEW T \in Int, NEW l \in Nat, Holding(tbBucket, T, l, tbLog, tbTouched)
      PROVE  TbInv'
  <2>1. tbBucket = {[tokens |-> T, last |-> l]}
    BY <1>4 DEF Holding
  <2>2. CASE T + (clock - l) * RefillRate < Full
    <3>1. tbBucket' = tbBucket
      BY <2>1, <2>2 DEF DropFull
    <3>2. QED
      BY <1>1, <1>2, <1>4, <3>1 DEF TbInv, BucketOk
  <2>3. CASE ~(T + (clock - l) * RefillRate < Full)
    <3>1. tbBucket' = {}
      BY <2>1, <2>3 DEF DropFull
    <3>2. RefillRate \in Nat \ {0}
      BY WorthFacts
    <3>3. PICK x \in Int : x = Worth(l)
      BY <3>2 DEF Worth
    <3>4. PICK y \in Int : y = Worth(clock)
      BY <1>1, <3>2 DEF Worth
    <3>5. (clock - l) * RefillRate = y - x
      BY <1>1, <3>2, <3>3, <3>4 DEF Worth
    <3>6. Full - T + x <= 0 + y /\ Full - T \in Int
      BY <1>1, <2>3, <3>5
    <3>7. Spent(tbLog, Full - T, l)
      BY <1>4 DEF Holding
    <3>8. Spent(tbLog, 0, clock)
      BY <1>1, <3>3, <3>4, <3>6, <3>7, SpentLater
    <3>9. QED
      BY <1>1, <1>2, <3>1, <3>8 DEF TbInv, BucketOk
  <2>4. QED
    BY <2>2, <2>3
<1>5. QED
  BY <1>3, <1>4 DEF TbInv, BucketOk

(* BucketHolds: whatever the number of checks, the size of the bucket and   *)
(* its refill, and in whatever order the scripts run, what is admitted      *)
(* between two checks is paid for; if a check reaches Redis within the      *)
(* slack of the key's lifetime.                                             *)
THEOREM BucketHolds == TbSpec => []BucketBounds
<1>1. ClockInit /\ TbInit => TbInv
  <2> SUFFICES ASSUME ClockInit, TbInit PROVE TbInv
    OBVIOUS
  <2>1. Bounded(<< >>) /\ Spent(<< >>, 0, Earliest)
    BY DEF Bounded, Spent
  <2>2. QED
    BY <2>1 DEF ClockInit, TbInit, TbInv, BucketOk
<1>2. TbInv /\ [TbNext]_tbVars => TbInv'
  <2> SUFFICES ASSUME TbInv, [TbNext]_tbVars PROVE TbInv'
    OBVIOUS
  <2> USE DEF TbInv
  <2>1. EvalDelay \in Nat /\ Earliest \in Int /\ Earliest <= clock
    BY BucketAssumption DEF BucketAssumption, Earliest
  <2>2. ASSUME NEW c \in Checks, CheckInMemory(c) PROVE TbInv'
    <3>1. Earliest <= clock /\ clock <= clock /\ Take(c, clock) /\ UNCHANGED <<clock, tbShared>>
      BY <2>1, <2>2 DEF CheckInMemory
    <3>2. /\ tbTouched' = clock /\ tbLog' \in Seq(Nat) /\ Bounded(tbLog')
          /\ \E T \in Int, l \in Nat : Holding(tbBucket', T, l, tbLog', clock)
      BY <3>1, TakeKeeps
    <3>3. /\ tbSent' \in [Checks -> Int]
          /\ \A d \in Checks : -1 <= tbSent'[d] /\ tbSent'[d] <= clock
      BY <2>2 DEF CheckInMemory
    <3>4. BucketOk'
      BY <3>2 DEF BucketOk
    <3>5. QED
      BY <3>1, <3>2, <3>3, <3>4
  <2>3. ASSUME NEW c \in Checks, SendCheck(c) PROVE TbInv'
    <3>1. UNCHANGED <<clock, tbShared, tbBucket, tbTouched, tbLog>>
      BY <2>3 DEF SendCheck
    <3>2. /\ tbSent' \in [Checks -> Int]
          /\ \A d \in Checks : -1 <= tbSent'[d] /\ tbSent'[d] <= clock
      BY <2>3 DEF SendCheck
    <3>3. BucketOk'
      BY <3>1 DEF BucketOk, Earliest
    <3>4. QED
      BY <3>1, <3>2, <3>3
  <2>4. ASSUME NEW c \in Checks, EvalScript(c) PROVE TbInv'
    <3>1. UNCHANGED <<clock, tbShared, tbSent>> /\ tbShared
      BY <2>4 DEF EvalScript
    <3>2. CASE clock <= tbSent[c] + EvalDelay /\ Take(c, tbSent[c])
      <4>1. tbSent[c] \in Nat /\ Earliest <= tbSent[c] /\ tbSent[c] <= clock
        BY <2>1, <2>4, <3>1, <3>2 DEF EvalScript, Earliest
      <4>2. /\ tbTouched' = clock /\ tbLog' \in Seq(Nat) /\ Bounded(tbLog')
            /\ \E T \in Int, l \in Nat : Holding(tbBucket', T, l, tbLog', clock)
        BY <3>2, <4>1, TakeKeeps
      <4>3. BucketOk'
        BY <3>1, <4>2 DEF BucketOk
      <4>4. QED
        BY <3>1, <4>2, <4>3
    <3>3. CASE UNCHANGED <<tbBucket, tbTouched, tbLog>>
      <4>1. BucketOk'
        BY <3>1, <3>3 DEF BucketOk, Earliest
      <4>2. QED
        BY <3>1, <3>3, <4>1
    <3>4. QED
      BY <2>4, <3>2, <3>3 DEF EvalScript
  <2>5. CASE DropFull
    BY <2>5, DropKeeps
  <2>6. CASE KeyExpires
    <3>1. Spent(tbLog, 0, clock - EvalDelay)
      BY <2>6, ExpiryKeeps
    <3>2. UNCHANGED <<clock, tbShared, tbTouched, tbSent, tbLog>> /\ tbBucket' = {} /\ tbShared
      BY <2>6 DEF KeyExpires
    <3>3. BucketOk'
      BY <3>1, <3>2 DEF BucketOk, Earliest
    <3>4. QED
      BY <3>2, <3>3
  <2>7. CASE TimePasses /\ UNCHANGED tbOwn
    <3>1. /\ clock' \in Nat /\ clock <= clock'
          /\ UNCHANGED <<tbShared, tbBucket, tbTouched, tbSent, tbDone, tbLog>>
      BY <2>7 DEF TimePasses, tbOwn
    <3>2. Earliest' \in Int /\ Earliest <= Earliest'
      BY <2>1, <2>7, <3>1 DEF Earliest, TimePasses
    <3>3. BucketOk'
      <4>1. CASE tbBucket = {} /\ Spent(tbLog, 0, Earliest)
        <5>1. PICK x \in Int : x = Worth(Earliest)
          BY <2>1, WorthFacts
        <5>2. PICK y \in Int : y = Worth(Earliest')
          BY <3>2, WorthFacts
        <5>3. x <= y
          BY <2>1, <3>2, <5>1, <5>2, WorthFacts
        <5>4. 0 + Worth(Earliest) <= 0 + Worth(Earliest')
          BY <5>1, <5>2, <5>3
        <5>5. Spent(tbLog, 0, Earliest')
          BY <2>1, <3>2, <4>1, <5>4, SpentLater
        <5>6. QED
          BY <3>1, <4>1, <5>5 DEF BucketOk
      <4>2. CASE \E T \in Int, l \in Nat : Holding(tbBucket, T, l, tbLog, tbTouched)
        BY <3>1, <4>2 DEF BucketOk
      <4>3. QED
        BY <4>1, <4>2 DEF BucketOk
    <3>4. QED
      BY <3>1, <3>3
  <2>8. CASE UNCHANGED tbVars
    <3>1. UNCHANGED <<clock, tbShared, tbBucket, tbTouched, tbSent, tbDone, tbLog>>
      BY <2>8 DEF tbVars, tbOwn
    <3>2. BucketOk'
      BY <3>1 DEF BucketOk, Earliest
    <3>3. QED
      BY <3>1, <3>2
  <2>9. QED
    BY <2>2, <2>3, <2>4, <2>5, <2>6, <2>7, <2>8 DEF TbNext
<1>3. TbInv => BucketBounds
  <2> SUFFICES ASSUME TbInv, NEW i \in 1 .. Len(tbLog), NEW j \in 1 .. Len(tbLog), i <= j
               PROVE  (j - i + 1) * TokenUnit <= Full + (tbLog[j] - tbLog[i]) * RefillRate
    BY DEF BucketBounds
  <2>1. tbLog[i] \in Nat /\ tbLog[j] \in Nat /\ RefillRate \in Nat /\ Full \in Nat
    <3>1. tbLog[i] \in Nat /\ tbLog[j] \in Nat
      BY DEF TbInv
    <3>2. QED
      BY <3>1, WorthFacts, CostFacts
  <2>2. (j - i + 1) * TokenUnit <= Full + tbLog[j] * RefillRate - tbLog[i] * RefillRate
    BY DEF TbInv, Bounded, Cost, Worth
  <2>3. (tbLog[j] - tbLog[i]) * RefillRate = tbLog[j] * RefillRate - tbLog[i] * RefillRate
    BY <2>1
  <2>4. QED
    BY <2>1, <2>2, <2>3
<1>4. QED
  BY <1>1, <1>2, <1>3, PTL DEF TbSpec
-----------------------------------------------------------------------------
(* Several signatures: entries that verify, and keys, are counted apart.     *)

SigEntry == [key : Signers, form : Forms]
Verified(list) == {i \in DOMAIN list : Verifies(list[i])}

MsigInv ==
  /\ msigList \in Seq(SigEntry)
  /\ msigPolicy \in [min : Nat, required : SUBSET Signers, closed : BOOLEAN]

LEMMA VerifiedFinite ==
  ASSUME NEW list \in Seq(SigEntry)
  PROVE  /\ IsFiniteSet(Verified(list)) /\ Cardinality(Verified(list)) \in Nat
         /\ VerifiedCount(list) = Cardinality(Verified(list))
<1>1. DOMAIN list = 1 .. Len(list) /\ Len(list) \in Nat
  OBVIOUS
<1>2. IsFiniteSet(1 .. Len(list))
  BY <1>1, FS_Interval
<1>3. Verified(list) \in SUBSET (1 .. Len(list))
  BY <1>1 DEF Verified
<1>4. IsFiniteSet(Verified(list))
  BY <1>2, <1>3, FS_Subset
<1>5. QED
  BY <1>4, FS_CardinalityType DEF VerifiedCount, Verified

(* Fewer keys than entries that verify: two of these are the same.          *)
LEMMA SameTwice ==
  ASSUME NEW list \in Seq(SigEntry), Cardinality(PresentKeys(list)) < VerifiedCount(list)
  PROVE  \E i, j \in DOMAIN list : i # j /\ list[i] = list[j]
<1> DEFINE V == Verified(list)
           K == PresentKeys(list)
           f == [i \in V |-> list[i].key]
<1>1. IsFiniteSet(V) /\ VerifiedCount(list) = Cardinality(V)
  BY VerifiedFinite
<1>2. f \in Surjection(V, K)
  BY DEF Surjection, PresentKeys, Verified
<1>3. IsFiniteSet(K) /\ f \in [V -> K]
  BY <1>1, <1>2, FS_Surjection DEF Surjection
<1>4. Cardinality(K) < Cardinality(V)
  BY <1>1
<1>5. PICK i \in V, j \in V : i # j /\ f[i] = f[j]
  <2> HIDE DEF f, V, K
  <2>1. QED
    BY <1>1, <1>3, <1>4, FS_PigeonHole
<1>6. i \in DOMAIN list /\ j \in DOMAIN list /\ list[i].key = list[j].key
  BY <1>5 DEF Verified
<1>7. list[i].form = "good" /\ list[j].form = "good"
  BY DEF Verified, Verifies
<1>8. list[i] \in SigEntry /\ list[j] \in SigEntry
  BY <1>6
<1>9. list[i] = list[j]
  BY <1>6, <1>7, <1>8 DEF SigEntry
<1>10. QED
  BY <1>5, <1>6, <1>9

LEMMA RequiredSigned ==
  ASSUME MsigInv, VerifyMultiSig(msigList), NEW k \in msigPolicy.required
  PROVE  [key |-> k, form |-> "good"] \in {msigList[i] : i \in DOMAIN msigList}
<1>1. k \in PresentKeys(msigList)
  BY DEF VerifyMultiSig
<1>2. PICK i \in DOMAIN msigList : Verifies(msigList[i]) /\ msigList[i].key = k
  BY <1>1 DEF PresentKeys
<1>3. msigList[i] \in SigEntry /\ msigList[i].form = "good"
  BY <1>2 DEF MsigInv, Verifies
<1>4. msigList[i] = [key |-> k, form |-> "good"]
  BY <1>2, <1>3 DEF SigEntry
<1>5. QED
  BY <1>4

(* SignersStand: whatever the signers, the policy and the list, the required *)
(* keys have signed what verifies, and a quorum short of keys has an entry   *)
(* twice.                                                                   *)
THEOREM SignersStand == MsigSpec => []QuorumStands
<1>1. MsigInit => MsigInv
  BY SigAssumption DEF MsigInit, MsigInv, SigAssumption
<1>2. MsigInv /\ [MsigNext]_msigVars => MsigInv'
  <2> SUFFICES ASSUME MsigInv, [MsigNext]_msigVars PROVE MsigInv'
    OBVIOUS
  <2>1. ASSUME NEW signers \in Seq(Signers), AppendSignatures(signers) PROVE MsigInv'
    <3> DEFINE new == [i \in 1 .. Len(signers) |-> [key |-> signers[i], form |-> "good"]]
    <3>1. new \in Seq(SigEntry)
      BY DEF SigEntry, Forms
    <3>2. msigList' = msigList \o new /\ msigPolicy' = msigPolicy
      BY <2>1 DEF AppendSignatures
    <3> HIDE DEF new
    <3>3. QED
      BY <3>1, <3>2 DEF MsigInv
  <2>2. ASSUME NEW k \in Signers, NEW form \in Forms, AddEntry(k, form) PROVE MsigInv'
    <3>1. [key |-> k, form |-> form] \in SigEntry
      BY DEF SigEntry
    <3>2. QED
      BY <2>2, <3>1 DEF AddEntry, MsigInv
  <2>3. CASE UNCHANGED msigVars
    BY <2>3 DEF msigVars, MsigInv
  <2>4. \A k, l \in Signers : <<k>> \in Seq(Signers) /\ <<k, l>> \in Seq(Signers)
    OBVIOUS
  <2>5. ASSUME NEW k \in Signers, NEW l \in Signers,
               AppendSignatures(<<k>>) \/ AppendSignatures(<<k, l>>)
        PROVE  MsigInv'
    <3>1. <<k>> \in Seq(Signers) /\ <<k, l>> \in Seq(Signers)
      BY <2>4
    <3>2. CASE AppendSignatures(<<k>>)
      BY <2>1, <3>1, <3>2
    <3>3. CASE AppendSignatures(<<k, l>>)
      BY <2>1, <3>1, <3>3
    <3>4. QED
      BY <2>5, <3>2, <3>3
  <2>6. QED
    BY <2>2, <2>3, <2>5 DEF MsigNext
<1>3. MsigInv => QuorumStands
  <2> SUFFICES ASSUME MsigInv PROVE QuorumStands
    OBVIOUS
  <2>1. ASSUME VerifyMultiSig(msigList), Cardinality(PresentKeys(msigList)) < msigPolicy.min
        PROVE  \E i, j \in DOMAIN msigList : i # j /\ msigList[i] = msigList[j]
    <3>1. /\ VerifiedCount(msigList) \in Nat /\ msigPolicy.min \in Nat
          /\ VerifiedCount(msigList) >= msigPolicy.min /\ msigList \in Seq(SigEntry)
      BY <2>1, VerifiedFinite DEF MsigInv, VerifyMultiSig, QuorumMet
    <3>2. IsFiniteSet(PresentKeys(msigList))
      <4> DEFINE f == [i \in Verified(msigList) |-> msigList[i].key]
      <4>1. f \in Surjection(Verified(msigList), PresentKeys(msigList))
        BY DEF Surjection, PresentKeys, Verified
      <4>2. IsFiniteSet(Verified(msigList))
        BY <3>1, VerifiedFinite
      <4> HIDE DEF f
      <4>3. QED
        BY <4>1, <4>2, FS_Surjection
    <3>3. Cardinality(PresentKeys(msigList)) \in Nat
      BY <3>2, FS_CardinalityType
    <3>4. Cardinality(PresentKeys(msigList)) < VerifiedCount(msigList)
      BY <2>1, <3>1, <3>3
    <3>5. QED
      BY <3>1, <3>4, SameTwice
  <2>2. QED
    BY <2>1, RequiredSigned DEF QuorumStands
<1>4. QED
  BY <1>1, <1>2, <1>3, PTL DEF MsigSpec
-----------------------------------------------------------------------------
(* The nonce store over a database: a row, once issued, keeps its expiry,    *)
(* and once consumed stays so until it is deleted for good.                  *)

Where == {"idle", "reading", "read", "verifying", "rereading", "deciding", "marking",
          "accepted", "rejected"}

PopTypes ==
  /\ now \in Nat /\ fresh \subseteq Nonces
  /\ store \in [Nonces -> SUBSET Entry]
  /\ pc \in [Calls -> Where] /\ nonce \in [Calls -> Nonces]
  /\ snap \in [Calls -> SUBSET Entry]
  /\ how \in [Calls -> {"none", "marked", "null"}]

RowsOk ==
  \A n \in Nonces : /\ \A e, f \in store[n] : e = f
                    /\ n \in fresh => store[n] = {}

CallOk(c) ==
  /\ how[c] = "marked" => nonce[c] \notin fresh /\ \A e \in store[nonce[c]] : e.consumed
  /\ pc[c] \in {"verifying", "rereading", "deciding", "marking"} => nonce[c] \notin fresh
  /\ pc[c] = "read" /\ snap[c] # {} => nonce[c] \notin fresh

Markers ==
  \A c, d \in Calls : how[c] = "marked" /\ how[d] = "marked" /\ nonce[c] = nonce[d] => c = d

SupInv == PopTypes /\ RowsOk /\ Markers /\ \A c \in Calls : CallOk(c)

(* No row comes into being, and rows keep their expiry and their mark.      *)
Kept ==
  /\ UNCHANGED <<fresh, nonce>>
  /\ \A n \in Nonces : \A f \in store'[n] : \E e \in store[n] :
       f.expires = e.expires /\ (e.consumed => f.consumed)

LEMMA KeptForOthers ==
  ASSUME SupInv, Kept, NEW c \in Calls,
         pc'[c] = pc[c], snap'[c] = snap[c], how'[c] = how[c]
  PROVE  CallOk(c)'
<1>1. nonce[c] \in Nonces /\ nonce' = nonce /\ fresh' = fresh /\ CallOk(c)
  BY DEF SupInv, PopTypes, Kept
<1>2. \A f \in store'[nonce[c]] : \E e \in store[nonce[c]] :
        f.expires = e.expires /\ (e.consumed => f.consumed)
  BY <1>1 DEF Kept
<1>3. how[c] = "marked" => nonce[c] \notin fresh /\ \A f \in store'[nonce[c]] : f.consumed
  BY <1>1, <1>2 DEF CallOk
<1>4. QED
  BY <1>1, <1>3 DEF CallOk

LEMMA Went ==
  ASSUME PopTypes, NEW c \in Calls, NEW w \in Where, Goto(c, w)
  PROVE  pc' \in [Calls -> Where] /\ pc'[c] = w /\ \A d \in Calls : d # c => pc'[d] = pc[d]
BY DEF PopTypes, Goto

(* A row is deleted, or marked, or nothing happens.                         *)
LEMMA RowKept ==
  ASSUME SupInv, UNCHANGED <<fresh, nonce>>, NEW n \in Nonces,
         UNCHANGED store \/ Put(n, {}) \/ \E e \in store[n] : Put(n, {Marked(e)})
  PROVE  Kept /\ RowsOk' /\ store' \in [Nonces -> SUBSET Entry]
<1>1. store \in [Nonces -> SUBSET Entry] /\ now \in Nat /\ RowsOk
  BY DEF SupInv, PopTypes
<1>2. CASE UNCHANGED store
  BY <1>1, <1>2 DEF Kept, RowsOk
<1>3. CASE Put(n, {})
  <2>1. store' \in [Nonces -> SUBSET Entry] /\ store'[n] = {}
        /\ \A m \in Nonces : m # n => store'[m] = store[m]
    BY <1>1, <1>3 DEF Put
  <2>2. QED
    BY <1>1, <2>1 DEF Kept, RowsOk
<1>4. ASSUME NEW e \in store[n], Put(n, {Marked(e)})
      PROVE  Kept /\ RowsOk' /\ store' \in [Nonces -> SUBSET Entry]
  <2> DEFINE m == Marked(e)
  <2>1. e \in Entry
    BY <1>1
  <2>2. m \in Entry /\ m.expires = e.expires /\ m.consumed
    BY <1>1, <2>1 DEF Marked, Entry
  <2>3. store' = [store EXCEPT ![n] = {m}]
    BY <1>4 DEF Put
  <2> HIDE DEF m
  <2>4. store' \in [Nonces -> SUBSET Entry] /\ store'[n] = {m}
        /\ \A k \in Nonces : k # n => store'[k] = store[k]
    BY <1>1, <2>2, <2>3
  <2>5. n \notin fresh
    BY <1>1, <1>4 DEF RowsOk
  <2>6. RowsOk'
    BY <1>1, <2>4, <2>5 DEF RowsOk
  <2>7. Kept
    BY <2>2, <2>4 DEF Kept
  <2>8. QED
    BY <2>4, <2>6, <2>7
<1>5. QED
  BY <1>2, <1>3, <1>4

(* The call that acts, c, and the others                                    *)
LEMMA OneActs ==
  ASSUME SupInv, Kept, RowsOk', PopTypes', NEW c \in Calls, CallOk(c)',
         \A d \in Calls : d # c => pc'[d] = pc[d] /\ snap'[d] = snap[d] /\ how'[d] = how[d],
         how'[c] = "marked" => \A d \in Calls : how[d] = "marked" /\ nonce[d] = nonce[c] => d = c
  PROVE  SupInv'
<1>1. \A d \in Calls : CallOk(d)'
  BY KeptForOthers
<1>2. nonce' = nonce
  BY DEF Kept
<1>3. Markers'
  BY <1>2 DEF Markers, SupInv
<1>4. QED
  BY <1>1, <1>3 DEF SupInv

LEMMA SupStep == SupInv /\ [Next]_supVars => SupInv'
<1> SUFFICES ASSUME SupInv, [Next]_supVars PROVE SupInv'
  OBVIOUS
<1>1. PopTypes /\ RowsOk /\ Markers
  BY DEF SupInv
<1>2. ASSUME NEW n \in Nonces, IssueRow(n) PROVE SupInv'
  <2> DEFINE e == [expires |-> now + Ttl, consumed |-> FALSE, at |-> 0]
  <2>1. e \in Entry
    BY <1>1, PopAssumption DEF Entry, PopTypes, PopAssumption
  <2>2. /\ n \in fresh /\ fresh' = fresh \ {n} /\ store' = [store EXCEPT ![n] = {e}]
        /\ UNCHANGED <<now, pc, nonce, genuine, snap, how>>
    BY <1>2 DEF IssueRow, IssueChallenge, Put
  <2> HIDE DEF e
  <2>3. PopTypes' /\ store'[n] = {e} /\ \A m \in Nonces : m # n => store'[m] = store[m]
    BY <1>1, <2>1, <2>2 DEF PopTypes
  <2>4. RowsOk'
    BY <1>1, <2>2, <2>3 DEF RowsOk
  <2>5. ASSUME NEW c \in Calls PROVE CallOk(c)'
    <3>1. CallOk(c) /\ nonce[c] \in Nonces
      BY <1>1 DEF SupInv, PopTypes
    <3>2. CASE nonce[c] # n
      BY <2>2, <2>3, <3>1, <3>2 DEF CallOk
    <3>3. CASE nonce[c] = n
      BY <2>2, <3>1, <3>3 DEF CallOk
    <3>4. QED
      BY <3>2, <3>3
  <2>6. Markers'
    BY <1>1, <2>2 DEF Markers
  <2>7. QED
    BY <2>3, <2>4, <2>5, <2>6 DEF SupInv
<1>3. ASSUME NEW c \in Calls, Retrieve(c) PROVE SupInv'
  <2>1. UNCHANGED <<now, fresh, store, nonce, genuine, snap, how>> /\ Goto(c, "reading")
    BY <1>3 DEF Retrieve
  <2>2. pc' \in [Calls -> Where] /\ pc'[c] = "reading" /\ \A d \in Calls : d # c => pc'[d] = pc[d]
    BY <1>1, <2>1, Went DEF Where
  <2>3. Kept /\ RowsOk' /\ PopTypes'
    BY <1>1, <2>1, <2>2 DEF Kept, RowsOk, PopTypes
  <2>4. CallOk(c)'
    BY <2>1, <2>2 DEF CallOk, SupInv
  <2>5. QED
    BY <1>1, <2>1, <2>2, <2>3, <2>4, OneActs DEF Markers
<1>4. ASSUME NEW c \in Calls, SelectAnswered(c) PROVE SupInv'
  <2>1. UNCHANGED <<now, fresh, store, nonce, genuine>> /\ pc[c] \in {"reading", "rereading"}
    BY <1>4 DEF SelectAnswered
  <2>2. nonce[c] \in Nonces /\ store[nonce[c]] \in SUBSET Entry /\ CallOk(c)
    BY <1>1 DEF PopTypes, SupInv
  <2>3. Kept /\ RowsOk'
    BY <1>1, <2>1 DEF Kept, RowsOk
  <2>4. CASE Reject(c) /\ UNCHANGED snap
    <3>1. pc' \in [Calls -> Where] /\ pc'[c] = "rejected" /\ \A d \in Calls : d # c => pc'[d] = pc[d]
      BY <1>1, <2>4, Went DEF Where, Reject
    <3>2. UNCHANGED <<snap, how>>
      BY <2>4 DEF Reject
    <3>3. PopTypes' /\ CallOk(c)'
      BY <1>1, <2>1, <2>2, <3>1, <3>2 DEF PopTypes, CallOk
    <3>4. QED
      BY <1>1, <2>3, <3>1, <3>2, <3>3, OneActs DEF Markers
  <2>5. CASE /\ snap' = [snap EXCEPT ![c] = store[nonce[c]]]
             /\ Goto(c, IF pc[c] = "reading" THEN "read" ELSE "deciding")
             /\ UNCHANGED how
    <3> DEFINE w == IF pc[c] = "reading" THEN "read" ELSE "deciding"
    <3>1. w \in Where /\ Goto(c, w)
      BY <2>5 DEF Where
    <3> HIDE DEF w
    <3>2. pc' \in [Calls -> Where] /\ pc'[c] = w /\ \A d \in Calls : d # c => pc'[d] = pc[d]
      BY <1>1, <3>1, Went
    <3>3. /\ snap' \in [Calls -> SUBSET Entry] /\ snap'[c] = store[nonce[c]]
          /\ \A d \in Calls : d # c => snap'[d] = snap[d]
      BY <1>1, <2>2, <2>5 DEF PopTypes
    <3>4. PopTypes'
      BY <1>1, <2>1, <2>5, <3>2, <3>3 DEF PopTypes
    <3>5. w = "read" \/ (w = "deciding" /\ pc[c] = "rereading")
      BY <2>1 DEF w
    <3>6. store[nonce[c]] # {} => nonce[c] \notin fresh
      BY <1>1, <2>2 DEF RowsOk
    <3>7. CallOk(c)'
      BY <2>1, <2>2, <2>5, <3>2, <3>3, <3>5, <3>6 DEF CallOk
    <3>8. QED
      BY <1>1, <2>3, <2>5, <3>2, <3>3, <3>4, <3>7, OneActs DEF Markers
  <2>6. QED
    BY <1>4, <2>4, <2>5 DEF SelectAnswered
<1>5. ASSUME NEW c \in Calls, Retrieved(c) PROVE SupInv'
  <2>1. UNCHANGED <<now, fresh, nonce, genuine, snap>> /\ pc[c] = "read" /\ UNCHANGED how
    BY <1>5 DEF Retrieved, Reject
  <2>2. nonce[c] \in Nonces /\ CallOk(c)
    BY <1>1 DEF PopTypes, SupInv
  <2>3. UNCHANGED store \/ Put(nonce[c], {})
    BY <1>5 DEF Retrieved, DeleteExpired
  <2>4. Kept /\ RowsOk' /\ store' \in [Nonces -> SUBSET Entry]
    BY <2>1, <2>2, <2>3, RowKept
  <2>5. PICK w \in {"rejected", "verifying"} : Goto(c, w) /\ (w = "verifying" => ~Null(c))
    BY <1>5 DEF Retrieved, Reject
  <2>6. pc' \in [Calls -> Where] /\ pc'[c] = w /\ \A d \in Calls : d # c => pc'[d] = pc[d]
    BY <1>1, <2>5, Went DEF Where
  <2>7. PopTypes'
    BY <1>1, <2>1, <2>4, <2>6 DEF PopTypes
  <2>8. \A f \in store'[nonce[c]] : \E e \in store[nonce[c]] : e.consumed => f.consumed
    BY <2>2, <2>4 DEF Kept
  <2>9. CallOk(c)'
    BY <2>1, <2>2, <2>5, <2>6, <2>8 DEF CallOk, Null
  <2>10. QED
    BY <1>1, <2>1, <2>4, <2>6, <2>7, <2>9, OneActs DEF Markers
<1>6. ASSUME NEW c \in Calls, Verify(c) PROVE SupInv'
  <2>1. UNCHANGED <<now, fresh, store, nonce, genuine, snap, how>> /\ pc[c] = "verifying"
    BY <1>6 DEF Verify, Reject
  <2>2. PICK w \in {"rejected", "rereading"} : Goto(c, w)
    BY <1>6 DEF Verify, Reject
  <2>3. pc' \in [Calls -> Where] /\ pc'[c] = w /\ \A d \in Calls : d # c => pc'[d] = pc[d]
    BY <1>1, <2>2, Went DEF Where
  <2>4. Kept /\ RowsOk' /\ PopTypes'
    BY <1>1, <2>1, <2>3 DEF Kept, RowsOk, PopTypes
  <2>5. CallOk(c)'
    BY <2>1, <2>2, <2>3 DEF CallOk, SupInv
  <2>6. QED
    BY <1>1, <2>1, <2>3, <2>4, <2>5, OneActs DEF Markers
<1>7. ASSUME NEW c \in Calls, ConsumeDecides(c) PROVE SupInv'
  <2>1. UNCHANGED <<now, fresh, nonce, genuine, snap>> /\ pc[c] = "deciding"
    BY <1>7 DEF ConsumeDecides
  <2>2. nonce[c] \in Nonces /\ CallOk(c)
    BY <1>1 DEF PopTypes, SupInv
  <2>3. UNCHANGED store \/ Put(nonce[c], {})
    BY <1>7 DEF ConsumeDecides, DeleteExpired
  <2>4. Kept /\ RowsOk' /\ store' \in [Nonces -> SUBSET Entry]
    BY <2>1, <2>2, <2>3, RowKept
  <2>5. PICK w \in {"rejected", "accepted", "marking"} : Goto(c, w)
    BY <1>7 DEF ConsumeDecides, Reject, Accept
  <2>6. pc' \in [Calls -> Where] /\ pc'[c] = w /\ \A d \in Calls : d # c => pc'[d] = pc[d]
    BY <1>1, <2>5, Went DEF Where
  <2>7. UNCHANGED how \/ how' = [how EXCEPT ![c] = "null"]
    BY <1>7 DEF ConsumeDecides, Reject, Accept
  <2>8. /\ how' \in [Calls -> {"none", "marked", "null"}] /\ how'[c] \in {how[c], "null"}
        /\ \A d \in Calls : d # c => how'[d] = how[d]
    BY <1>1, <2>7 DEF PopTypes
  <2>9. PopTypes'
    BY <1>1, <2>1, <2>4, <2>6, <2>8 DEF PopTypes
  <2>10. \A f \in store'[nonce[c]] : \E e \in store[nonce[c]] : e.consumed => f.consumed
    BY <2>2, <2>4 DEF Kept
  <2>11. CallOk(c)'
    BY <2>1, <2>2, <2>5, <2>6, <2>8, <2>10 DEF CallOk
  <2>12. QED
    BY <1>1, <2>1, <2>4, <2>6, <2>8, <2>9, <2>11, OneActs DEF Markers
<1>8. ASSUME NEW c \in Calls, UpdateAnswered(c) PROVE SupInv'
  <2>1. UNCHANGED <<now, fresh, nonce, genuine, snap>> /\ pc[c] = "marking"
    BY <1>8 DEF UpdateAnswered
  <2>2. nonce[c] \in Nonces /\ CallOk(c) /\ nonce[c] \notin fresh
    BY <1>1, <2>1 DEF PopTypes, SupInv, CallOk
  <2>3. CASE UNCHANGED store /\ Reject(c)
    <3>1. pc' \in [Calls -> Where] /\ pc'[c] = "rejected" /\ \A d \in Calls : d # c => pc'[d] = pc[d]
      BY <1>1, <2>3, Went DEF Where, Reject
    <3>2. UNCHANGED <<snap, how, store>> /\ Kept /\ RowsOk'
      BY <1>1, <2>1, <2>3 DEF Reject, Kept, RowsOk
    <3>3. PopTypes' /\ CallOk(c)'
      BY <1>1, <2>1, <2>2, <3>1, <3>2 DEF PopTypes, CallOk
    <3>4. QED
      BY <1>1, <3>1, <3>2, <3>3, OneActs DEF Markers
  <2>4. ASSUME NEW e \in store[nonce[c]], ~e.consumed, Put(nonce[c], {Marked(e)}),
               Accept(c, "marked") \/ Reject(c)
        PROVE  SupInv'
    <3>1. Kept /\ RowsOk' /\ store' \in [Nonces -> SUBSET Entry]
      BY <2>1, <2>2, <2>4, RowKept
    <3>2. PICK w \in {"rejected", "accepted"} : Goto(c, w)
      BY <2>4 DEF Reject, Accept
    <3>3. pc' \in [Calls -> Where] /\ pc'[c] = w /\ \A d \in Calls : d # c => pc'[d] = pc[d]
      BY <1>1, <3>2, Went DEF Where
    <3>4. UNCHANGED how \/ how' = [how EXCEPT ![c] = "marked"]
      BY <2>4 DEF Reject, Accept
    <3>5. /\ how' \in [Calls -> {"none", "marked", "null"}]
          /\ \A d \in Calls : d # c => how'[d] = how[d]
      BY <1>1, <3>4 DEF PopTypes
    <3>6. PopTypes'
      BY <1>1, <2>1, <3>1, <3>3, <3>5 DEF PopTypes
    <3>7. store'[nonce[c]] = {Marked(e)} /\ Marked(e).consumed
      BY <1>1, <2>2, <2>4 DEF PopTypes, Put, Marked
    <3>8. CallOk(c)'
      BY <2>1, <2>2, <3>2, <3>3, <3>7 DEF CallOk
    <3>9. ASSUME NEW d \in Calls, how[d] = "marked", nonce[d] = nonce[c] PROVE FALSE
      BY <2>4, <3>9 DEF SupInv, CallOk
    <3>10. QED
      BY <2>1, <3>1, <3>3, <3>5, <3>6, <3>8, <3>9, OneActs
  <2>5. QED
    BY <1>8, <2>3, <2>4 DEF UpdateAnswered
<1>9. CASE Cleanup
  <2>1. UNCHANGED <<now, fresh, pc, nonce, genuine, snap, how>>
    BY <1>9 DEF Cleanup
  <2>2. store' \in [Nonces -> SUBSET Entry] /\ \A n \in Nonces : store'[n] = {} \/ store'[n] = store[n]
    BY <1>1, <1>9 DEF Cleanup, Drop, PopTypes
  <2>3. Kept /\ RowsOk' /\ PopTypes'
    BY <1>1, <2>1, <2>2 DEF Kept, RowsOk, PopTypes
  <2>4. \A c \in Calls : CallOk(c)'
    BY <2>1, <2>3, KeptForOthers
  <2>5. QED
    BY <1>1, <2>1, <2>3, <2>4 DEF SupInv, Markers
<1>10. CASE Tick
  <2>1. now' \in Nat /\ UNCHANGED <<fresh, store, pc, nonce, genuine, snap, how>>
    BY <1>1, <1>10 DEF Tick, PopTypes
  <2>2. QED
    BY <2>1 DEF SupInv, PopTypes, RowsOk, Markers, CallOk
<1>11. CASE UNCHANGED popVars
  BY <1>11 DEF popVars, SupInv, PopTypes, RowsOk, Markers, CallOk
<1>12. QED
  BY <1>2, <1>3, <1>4, <1>5, <1>6, <1>7, <1>8, <1>9, <1>10, <1>11 DEF Next, Settled, supVars

LEMMA SupStart == SupInit => SupInv
BY DEF SupInit, PopInit, SupInv, PopTypes, Where, RowsOk, Markers, CallOk

LEMMA SupInductive == Spec => []SupInv
BY SupStart, SupStep, PTL DEF Spec

(* DatabaseMarksOnce: the conditional update marks a challenge for one       *)
(* verification alone, whatever their number and order.                      *)
THEOREM DatabaseMarksOnce == Spec => []MarkedOnce
<1>1. SupInv => MarkedOnce
  BY DEF SupInv, Markers, MarkedOnce, Accepted
<1>2. QED
  BY <1>1, SupInductive, PTL

(* What is known of the expiry of a challenge from what there is of its row: *)
(* a row has it, and a missing row says that it has passed.                 *)
LapseOf(n, E) ==
  \E t \in Nat : lapse[n] = {t} /\ (\A e \in E : e.expires = t) /\ (E = {} => t < now)

Read(c) == pc[c] = "deciding" \/ (pc[c] = "read" /\ snap[c] # {})

LapseInv ==
  /\ lapse \in [Nonces -> SUBSET Nat]
  /\ \A n \in Nonces \ fresh : LapseOf(n, store[n])
  /\ \A c \in Calls : Read(c) => LapseOf(nonce[c], snap[c])

(* An expired row may be missing the next moment.                           *)
LEMMA ExpiredGone ==
  ASSUME now \in Nat, NEW n, NEW E, LapseOf(n, E), NEW e \in E, Expired(e)
  PROVE  LapseOf(n, {})
BY DEF LapseOf, Expired

(* The rows change one at a time: an expired one goes, or one is marked.    *)
LEMMA RowsLapse ==
  ASSUME PopTypes, LapseInv, UNCHANGED <<now, fresh, lapse>>, NEW n \in Nonces,
         \/ UNCHANGED store
         \/ Put(n, {}) /\ LapseOf(n, {})
         \/ \E e \in store[n] : Put(n, {Marked(e)})
  PROVE  \A m \in Nonces \ fresh' : LapseOf(m, store[m])'
<1>1. store \in [Nonces -> SUBSET Entry]
  BY DEF PopTypes
<1>2. CASE UNCHANGED store
  BY <1>2 DEF LapseInv, LapseOf
<1>3. CASE Put(n, {}) /\ LapseOf(n, {})
  <2>1. \A m \in Nonces : store'[m] = IF m = n THEN {} ELSE store[m]
    BY <1>1, <1>3 DEF Put
  <2>2. QED
    BY <1>3, <2>1 DEF LapseInv, LapseOf
<1>4. ASSUME NEW e \in store[n], Put(n, {Marked(e)})
      PROVE  \A m \in Nonces \ fresh' : LapseOf(m, store[m])'
  <2>1. \A m \in Nonces : store'[m] = IF m = n THEN {Marked(e)} ELSE store[m]
    BY <1>1, <1>4 DEF Put
  <2>2. Marked(e).expires = e.expires
    BY DEF Marked
  <2> SUFFICES ASSUME NEW m \in Nonces \ fresh PROVE LapseOf(m, store[m])'
    OBVIOUS
  <2>3. PICK t \in Nat : /\ lapse[m] = {t} /\ (\A f \in store[m] : f.expires = t)
                         /\ (store[m] = {} => t < now)
    BY DEF LapseInv, LapseOf
  <2>4. lapse'[m] = {t} /\ (\A f \in store'[m] : f.expires = t) /\ (store'[m] = {} => t < now')
    BY <2>1, <2>2, <2>3
  <2>5. QED
    BY <2>4 DEF LapseOf
<1>5. QED
  BY <1>2, <1>3, <1>4

(* A verification that acts changes what is known to itself alone.          *)
LEMMA OneLapse ==
  ASSUME LapseInv, UNCHANGED <<now, fresh, lapse, nonce>>, NEW c \in Calls,
         \A m \in Nonces \ fresh' : LapseOf(m, store[m])',
         \A d \in Calls : d # c => pc'[d] = pc[d] /\ snap'[d] = snap[d],
         Read(c)' => LapseOf(nonce[c], snap'[c])
  PROVE  LapseInv'
<1>1. ASSUME NEW d \in Calls, Read(d)' PROVE LapseOf(nonce[d], snap[d])'
  BY <1>1 DEF LapseInv, LapseOf, Read
<1>2. QED
  BY <1>1 DEF LapseInv

LEMMA LapseStep == SupInv /\ LapseInv /\ [Next]_supVars => LapseInv'
<1> SUFFICES ASSUME SupInv, LapseInv, [Next]_supVars PROVE LapseInv'
  OBVIOUS
<1>1. PopTypes /\ RowsOk /\ now \in Nat /\ \A c \in Calls : nonce[c] \in Nonces /\ CallOk(c)
  BY DEF SupInv, PopTypes
<1>2. ASSUME NEW n \in Nonces, IssueRow(n) PROVE LapseInv'
  <2> DEFINE t == now + Ttl
             e == [expires |-> t, consumed |-> FALSE, at |-> 0]
  <2>1. t \in Nat /\ e.expires = t
    BY <1>1, PopAssumption DEF PopAssumption
  <2>2. /\ n \in fresh /\ fresh' = fresh \ {n} /\ store' = [store EXCEPT ![n] = {e}]
        /\ lapse' = [lapse EXCEPT ![n] = {t}]
        /\ UNCHANGED <<now, pc, nonce, snap>>
    BY <1>2 DEF IssueRow, IssueChallenge, Put
  <2> HIDE DEF t, e
  <2>3. /\ store'[n] = {e} /\ lapse'[n] = {t} /\ lapse' \in [Nonces -> SUBSET Nat]
        /\ \A m \in Nonces : m # n => store'[m] = store[m] /\ lapse'[m] = lapse[m]
    BY <1>1, <2>1, <2>2 DEF PopTypes, LapseInv
  <2>4. LapseOf(n, store[n])'
    BY <2>1, <2>3 DEF LapseOf
  <2>5. ASSUME NEW m \in Nonces \ fresh' PROVE LapseOf(m, store[m])'
    <3>1. CASE m = n
      BY <2>4, <3>1
    <3>2. CASE m # n
      BY <2>2, <2>3, <3>2 DEF LapseInv, LapseOf
    <3>3. QED
      BY <3>1, <3>2
  <2>6. ASSUME NEW c \in Calls, Read(c)' PROVE LapseOf(nonce[c], snap[c])'
    <3>1. Read(c) /\ nonce[c] # n
      BY <1>1, <2>2, <2>6 DEF Read, CallOk
    <3>2. QED
      BY <1>1, <2>2, <2>3, <3>1 DEF LapseInv, LapseOf
  <2>7. QED
    BY <2>3, <2>5, <2>6 DEF LapseInv
<1>3. ASSUME NEW c \in Calls, Retrieve(c) \/ Verify(c), UNCHANGED lapse PROVE LapseInv'
  <2>1. UNCHANGED <<now, fresh, store, nonce, snap>>
    BY <1>3 DEF Retrieve, Verify
  <2>2. PICK w \in {"reading", "rejected", "rereading"} : Goto(c, w)
    BY <1>3 DEF Retrieve, Verify, Reject
  <2>3. pc'[c] = w /\ \A d \in Calls : d # c => pc'[d] = pc[d]
    BY <1>1, <2>2, Went DEF Where
  <2>4. \A m \in Nonces \ fresh' : LapseOf(m, store[m])'
    BY <1>1, <1>3, <2>1 DEF LapseInv, LapseOf
  <2>5. QED
    BY <1>3, <2>1, <2>2, <2>3, <2>4, OneLapse DEF Read
<1>4. ASSUME NEW c \in Calls, SelectAnswered(c), UNCHANGED lapse PROVE LapseInv'
  <2>1. UNCHANGED <<now, fresh, store, nonce>> /\ pc[c] \in {"reading", "rereading"}
    BY <1>4 DEF SelectAnswered
  <2>2. \A m \in Nonces \ fresh' : LapseOf(m, store[m])'
    BY <1>4, <2>1 DEF LapseInv, LapseOf
  <2>3. CASE Reject(c) /\ UNCHANGED snap
    <3>1. pc'[c] = "rejected" /\ \A d \in Calls : d # c => pc'[d] = pc[d]
      BY <1>1, <2>3, Went DEF Where, Reject
    <3>2. QED
      BY <1>4, <2>1, <2>2, <2>3, <3>1, OneLapse DEF Read
  <2>4. CASE /\ snap' = [snap EXCEPT ![c] = store[nonce[c]]]
             /\ Goto(c, IF pc[c] = "reading" THEN "read" ELSE "deciding")
    <3> DEFINE w == IF pc[c] = "reading" THEN "read" ELSE "deciding"
    <3>1. w \in Where /\ Goto(c, w) /\ (w = "read" \/ pc[c] = "rereading")
      BY <2>1, <2>4 DEF Where
    <3> HIDE DEF w
    <3>2. pc'[c] = w /\ \A d \in Calls : d # c => pc'[d] = pc[d]
      BY <1>1, <3>1, Went
    <3>3. snap'[c] = store[nonce[c]] /\ \A d \in Calls : d # c => snap'[d] = snap[d]
      BY <1>1, <2>4 DEF PopTypes
    <3>4. ASSUME Read(c)' PROVE LapseOf(nonce[c], snap'[c])
      <4>1. nonce[c] \notin fresh
        BY <1>1, <3>1, <3>2, <3>3, <3>4 DEF Read, CallOk, RowsOk
      <4>2. QED
        BY <1>1, <3>3, <4>1 DEF LapseInv
    <3>5. QED
      BY <1>4, <2>1, <2>2, <3>2, <3>3, <3>4, OneLapse
  <2>5. QED
    BY <1>4, <2>3, <2>4 DEF SelectAnswered
<1>5. ASSUME NEW c \in Calls, Read(c), UNCHANGED <<now, fresh, nonce, snap, lapse>>,
             \/ UNCHANGED store
             \/ snap[c] # {} /\ Null(c) /\ Put(nonce[c], {}),
             NEW w \in {"rejected", "verifying", "accepted", "marking"}, Goto(c, w)
      PROVE  LapseInv'
  <2>1. pc'[c] = w /\ \A d \in Calls : d # c => pc'[d] = pc[d]
    BY <1>1, <1>5, Went DEF Where
  <2>2. ASSUME snap[c] # {}, Null(c) PROVE LapseOf(nonce[c], {})
    <3>1. PICK e \in snap[c] : Expired(e)
      BY <2>2 DEF Null
    <3>2. LapseOf(nonce[c], snap[c])
      BY <1>5 DEF LapseInv
    <3>3. QED
      BY <1>1, <3>1, <3>2, ExpiredGone
  <2>3. \A m \in Nonces \ fresh' : LapseOf(m, store[m])'
    BY <1>1, <1>5, <2>2, RowsLapse
  <2>4. QED
    BY <1>5, <2>1, <2>3, OneLapse DEF Read
<1>6. ASSUME NEW c \in Calls, Retrieved(c), UNCHANGED lapse PROVE LapseInv'
  <2>1. UNCHANGED <<now, fresh, nonce, snap>> /\ pc[c] = "read"
    BY <1>6 DEF Retrieved
  <2>2. CASE snap[c] # {}
    <3>1. PICK w \in {"rejected", "verifying"} : Goto(c, w)
      BY <1>6 DEF Retrieved, Reject
    <3>2. UNCHANGED store \/ (Null(c) /\ Put(nonce[c], {}))
      BY <1>6 DEF Retrieved, DeleteExpired
    <3>3. Read(c)
      BY <2>1, <2>2 DEF Read
    <3>4. QED
      BY <1>5, <1>6, <2>1, <2>2, <3>1, <3>2, <3>3
  <2>3. CASE snap[c] = {}
    <3>1. Goto(c, "rejected") /\ UNCHANGED store
      BY <1>6, <2>3 DEF Retrieved, Reject, Null
    <3>2. pc'[c] = "rejected" /\ \A d \in Calls : d # c => pc'[d] = pc[d]
      BY <1>1, <3>1, Went DEF Where
    <3>3. \A m \in Nonces \ fresh' : LapseOf(m, store[m])'
      BY <1>6, <2>1, <3>1 DEF LapseInv, LapseOf
    <3>4. QED
      BY <1>6, <2>1, <3>2, <3>3, OneLapse DEF Read
  <2>4. QED
    BY <2>2, <2>3
<1>7. ASSUME NEW c \in Calls, ConsumeDecides(c), UNCHANGED lapse PROVE LapseInv'
  <2>1. UNCHANGED <<now, fresh, nonce, snap>> /\ Read(c)
    BY <1>7 DEF ConsumeDecides, Read
  <2>2. PICK w \in {"rejected", "accepted", "marking"} : Goto(c, w)
    BY <1>7 DEF ConsumeDecides, Reject, Accept
  <2>3. UNCHANGED store \/ (snap[c] # {} /\ Null(c) /\ Put(nonce[c], {}))
    BY <1>7 DEF ConsumeDecides, DeleteExpired
  <2>4. QED
    BY <1>5, <1>7, <2>1, <2>2, <2>3
<1>8. ASSUME NEW c \in Calls, UpdateAnswered(c), UNCHANGED lapse PROVE LapseInv'
  <2>1. UNCHANGED <<now, fresh, nonce, snap>>
    BY <1>8 DEF UpdateAnswered
  <2>2. PICK w \in {"rejected", "accepted"} : Goto(c, w)
    BY <1>8 DEF UpdateAnswered, Reject, Accept
  <2>3. pc'[c] = w /\ \A d \in Calls : d # c => pc'[d] = pc[d]
    BY <1>1, <2>2, Went DEF Where
  <2>4. UNCHANGED store \/ \E e \in store[nonce[c]] : Put(nonce[c], {Marked(e)})
    BY <1>8 DEF UpdateAnswered
  <2>5. \A m \in Nonces \ fresh' : LapseOf(m, store[m])'
    BY <1>1, <1>8, <2>1, <2>4, RowsLapse
  <2>6. QED
    BY <1>8, <2>1, <2>2, <2>3, <2>5, OneLapse DEF Read
<1>9. ASSUME Cleanup, UNCHANGED lapse PROVE LapseInv'
  <2>1. UNCHANGED <<now, fresh, pc, nonce, snap>>
    BY <1>9 DEF Cleanup
  <2>2. \A n \in Nonces : store'[n] = IF \E e \in store[n] : Expired(e) THEN {} ELSE store[n]
    BY <1>9 DEF Cleanup, Drop
  <2>3. ASSUME NEW n \in Nonces \ fresh PROVE LapseOf(n, store'[n])
    <3>1. LapseOf(n, store[n])
      BY DEF LapseInv
    <3>2. QED
      BY <1>1, <2>2, <3>1, ExpiredGone
  <2>4. \A n \in Nonces \ fresh' : LapseOf(n, store[n])'
    BY <1>9, <2>1, <2>3 DEF LapseOf
  <2>5. QED
    BY <1>9, <2>1, <2>4 DEF LapseInv, LapseOf, Read
<1>10. ASSUME Tick, UNCHANGED lapse PROVE LapseInv'
  <2>1. now' \in Nat /\ now <= now' /\ UNCHANGED <<fresh, store, pc, nonce, snap, lapse>>
    BY <1>1, <1>10 DEF Tick
  <2>2. ASSUME NEW n, NEW E, LapseOf(n, E) PROVE LapseOf(n, E)'
    BY <1>1, <2>1, <2>2 DEF LapseOf
  <2>3. QED
    BY <2>1, <2>2 DEF LapseInv, Read
<1>11. CASE UNCHANGED supVars
  BY <1>11 DEF supVars, popVars, LapseInv, LapseOf, Read
<1>12. QED
  BY <1>2, <1>3, <1>4, <1>6, <1>7, <1>8, <1>9, <1>10, <1>11 DEF Next, Settled, supVars

LEMMA LapseInductive == Spec => []LapseInv
<1>1. SupInit => LapseInv
  BY DEF SupInit, PopInit, LapseInv, Read
<1>2. QED
  BY <1>1, LapseStep, SupInductive, PTL DEF Spec

(* DatabaseNullIsLate: a verification that finds no row is accepted without  *)
(* a mark only after the challenge issued for its nonce expired, however    *)
(* long the row has been gone.                                              *)
THEOREM DatabaseNullIsLate == Spec => NullOnlyAfterExpiry
<1>1. SupInv /\ LapseInv /\ [Next]_supVars =>
        [\A c \in Calls : how[c] = "none" /\ how'[c] = "null" =>
           \E t \in lapse[nonce[c]] : t < now]_supVars
  <2> SUFFICES ASSUME SupInv, LapseInv, Next, NEW c \in Calls, how[c] = "none", how'[c] = "null"
               PROVE  \E t \in lapse[nonce[c]] : t < now
    BY DEF supVars
  <2>1. how \in [Calls -> {"none", "marked", "null"}] /\ now \in Nat
    BY DEF SupInv, PopTypes
  <2>2. ConsumeDecides(c) /\ Null(c)
    <3>1. how' # how
      OBVIOUS
    <3>2. \A d \in Calls : ConsumeDecides(d) => UNCHANGED how \/ (how' = [how EXCEPT ![d] = "null"] /\ Null(d))
      BY DEF ConsumeDecides, Reject, Accept
    <3>3. \A d \in Calls : UpdateAnswered(d) => UNCHANGED how \/ how' = [how EXCEPT ![d] = "marked"]
      BY DEF UpdateAnswered, Reject, Accept
    <3>4. \A d \in Calls : Retrieve(d) \/ SelectAnswered(d) \/ Retrieved(d) \/ Verify(d) => UNCHANGED how
      BY DEF Retrieve, SelectAnswered, Retrieved, Verify, Reject
    <3>5. (\E n \in Nonces : IssueRow(n)) \/ Cleanup \/ Tick \/ Settled => UNCHANGED how
      BY DEF IssueRow, IssueChallenge, Cleanup, Tick, Settled, popVars
    <3>6. PICK d \in Calls : ConsumeDecides(d) \/ UpdateAnswered(d)
      BY <3>1, <3>4, <3>5 DEF Next
    <3>7. ~UpdateAnswered(d)
      BY <2>1, <3>3
    <3>8. QED
      BY <2>1, <3>2, <3>6, <3>7
  <2>3. LapseOf(nonce[c], snap[c])
    BY <2>2 DEF ConsumeDecides, LapseInv, Read
  <2>4. LapseOf(nonce[c], {})
    BY <2>1, <2>2, <2>3, ExpiredGone DEF Null
  <2>5. QED
    BY <2>4 DEF LapseOf
<1>2. QED
  BY <1>1, SupInductive, LapseInductive, PTL DEF Spec, NullOnlyAfterExpiry
-----------------------------------------------------------------------------
(* The policy of an organisation: what the orders of levels say to the       *)
(* checks, and how the decision moves with the score.                        *)

LEMMA HasLeast ==
  ASSUME NEW S \in SUBSET Nat, S # {}
  PROVE  \E m \in S : \A n \in S : m <= n
<1> DEFINE R == {p \in Nat \X Nat : p[1] < p[2]}
<1>1. IsWellFoundedOn(R, Nat)
  BY NatLessThanWellFounded DEF OpToRel
<1>2. S \subseteq Nat /\ S # {}
  OBVIOUS
<1>3. \E m \in S : \A n \in S : ~(<<n, m>> \in R)
  <2> HIDE DEF R
  <2>1. QED
    BY <1>1, <1>2, WFMin, Zenon
<1>4. \E m \in S : \A n \in S : ~(n < m)
  BY <1>3
<1>5. QED
  BY <1>4

LEMMA LeastIsIn ==
  ASSUME NEW S \in SUBSET Nat, S # {}
  PROVE  Min(S) \in S
<1>1. PICK m \in S : \A n \in S : m <= n
  BY HasLeast
<1>2. (CHOOSE x \in S : \A y \in S : x <= y) \in S
  BY <1>1
<1>3. QED
  BY <1>2 DEF Min

(* An order of levels that holds both sorts them by their places.           *)
PlaceIn(order, x) == SelectInSeq(order, LAMBDA y : y = x)

LEMMA PlaceIs ==
  ASSUME NEW S, NEW order \in Seq(S), NEW i \in 1 .. Len(order),
         \A j, k \in 1 .. Len(order) : order[j] = order[k] => j = k
  PROVE  PlaceIn(order, order[i]) = i
<1> DEFINE I == {j \in 1 .. Len(order) : order[j] = order[i]}
<1>1. I = {i}
  OBVIOUS
<1>2. PlaceIn(order, order[i]) = Min(I)
  BY <1>1 DEF PlaceIn, SelectInSeq
<1>3. Min({i}) = i
  BY DEF Min
<1>4. QED
  BY <1>1, <1>2, <1>3

LEMMA ReachesByPlace ==
  ASSUME NEW S, NEW order \in Seq(S), NEW i \in 1 .. Len(order), NEW j \in 1 .. Len(order),
         \A k, l \in 1 .. Len(order) : order[k] = order[l] => k = l
  PROVE  Reaches(order, order[i], order[j]) <=> i >= j
<1>1. PlaceIn(order, order[i]) = i /\ PlaceIn(order, order[j]) = j
  BY PlaceIs
<1>2. Reaches(order, order[i], order[j]) <=> PlaceIn(order, order[i]) >= PlaceIn(order, order[j])
  BY DEF Reaches, PlaceIn
<1>3. QED
  BY <1>1, <1>2

(* What reaching a level means for the checks, order by order               *)
LEMMA FileOrder ==
  ASSUME NEW x \in FileLevels, NEW y \in FileLevels, Reaches(CapabilityLevels, x, y)
  PROVE  /\ y # "none" => x # "none"
         /\ y \in {"read-write", "full"} => x \in {"read-write", "full"}
<1>1. PICK o : o = CapabilityLevels
  OBVIOUS
<1>2. /\ o \in Seq(FileLevels) /\ Len(o) = 4
      /\ o[1] = "none" /\ o[2] = "read" /\ o[3] = "read-write" /\ o[4] = "full"
  BY <1>1 DEF CapabilityLevels, FileLevels
<1>3. \A k, l \in 1 .. Len(o) : o[k] = o[l] => k = l
  BY <1>2
<1>4. PICK i \in 1 .. Len(o), j \in 1 .. Len(o) : x = o[i] /\ y = o[j]
  BY <1>2 DEF FileLevels
<1>5. i >= j
  BY <1>1, <1>2, <1>3, <1>4, ReachesByPlace
<1>6. QED
  BY <1>2, <1>3, <1>4, <1>5

LEMMA EgressOrder ==
  ASSUME NEW x \in {"none", "allowlist", "all"}, NEW y \in {"none", "allowlist", "all"},
         Reaches(<<"none", "allowlist", "all">>, x, y)
  PROVE  (y # "none" => x # "none") /\ (x = "allowlist" => y # "all")
<1>1. PICK o : o = <<"none", "allowlist", "all">>
  OBVIOUS
<1>2. /\ o \in Seq({"none", "allowlist", "all"}) /\ Len(o) = 3
      /\ o[1] = "none" /\ o[2] = "allowlist" /\ o[3] = "all"
  BY <1>1
<1>3. \A k, l \in 1 .. Len(o) : o[k] = o[l] => k = l
  BY <1>2
<1>4. PICK i \in 1 .. Len(o), j \in 1 .. Len(o) : x = o[i] /\ y = o[j]
  BY <1>2
<1>5. i >= j
  BY <1>1, <1>2, <1>3, <1>4, ReachesByPlace
<1>6. QED
  BY <1>2, <1>3, <1>4, <1>5

LEMMA ExecOrder ==
  ASSUME NEW x \in {"none", "sandboxed", "unrestricted"},
         NEW y \in {"none", "sandboxed", "unrestricted"},
         Reaches(<<"none", "sandboxed", "unrestricted">>, x, y)
  PROVE  (y # "none" => x # "none") /\ (x = "sandboxed" => y # "unrestricted")
<1>1. PICK o : o = <<"none", "sandboxed", "unrestricted">>
  OBVIOUS
<1>2. /\ o \in Seq({"none", "sandboxed", "unrestricted"}) /\ Len(o) = 3
      /\ o[1] = "none" /\ o[2] = "sandboxed" /\ o[3] = "unrestricted"
  BY <1>1
<1>3. \A k, l \in 1 .. Len(o) : o[k] = o[l] => k = l
  BY <1>2
<1>4. PICK i \in 1 .. Len(o), j \in 1 .. Len(o) : x = o[i] /\ y = o[j]
  BY <1>2
<1>5. i >= j
  BY <1>1, <1>2, <1>3, <1>4, ReachesByPlace
<1>6. QED
  BY <1>2, <1>3, <1>4, <1>5

EnvLevels == {"none", "env_allowlist", "all_env", "file_access"}

LEMMA EnvOrder ==
  ASSUME NEW x \in EnvLevels, NEW y \in EnvLevels,
         Reaches(<<"none", "env_allowlist", "all_env", "file_access">>, x, y)
  PROVE  /\ y # "none" => x # "none"
         /\ y = "all_env" => x \in {"all_env", "file_access"}
         /\ x = "env_allowlist" => y \in {"none", "env_allowlist"}
<1>1. PICK o : o = <<"none", "env_allowlist", "all_env", "file_access">>
  OBVIOUS
<1>2. /\ o \in Seq(EnvLevels) /\ Len(o) = 4
      /\ o[1] = "none" /\ o[2] = "env_allowlist" /\ o[3] = "all_env" /\ o[4] = "file_access"
  BY <1>1 DEF EnvLevels
<1>3. \A k, l \in 1 .. Len(o) : o[k] = o[l] => k = l
  BY <1>2
<1>4. PICK i \in 1 .. Len(o), j \in 1 .. Len(o) : x = o[i] /\ y = o[j]
  BY <1>2 DEF EnvLevels
<1>5. i >= j
  BY <1>1, <1>2, <1>3, <1>4, ReachesByPlace
<1>6. QED
  BY <1>2, <1>3, <1>4, <1>5

(* A manifest that reaches another's levels passes the checks it passes.    *)
LEMMA ReachingAllows ==
  ASSUME NEW h \in Manifest, NEW m \in Manifest, MatchCapabilities(h, m),
         NEW a \in Accesses, Allowed(m, a)
  PROVE  \/ Allowed(h, a)
         \/ a.op = "env" /\ a.sensitive /\ h.env = "file_access"
         \/ a.op = "read" /\ a.sensitive /\ h.files = "none"
         \/ a.op = "pay" /\ a.amount > h.above
<1>1. /\ h.write \in FileLevels /\ m.write \in FileLevels /\ h.env \in EnvLevels
      /\ m.env \in EnvLevels /\ h.spend \in Nat /\ m.spend \in Nat /\ h.above \in Nat
      /\ h.egress \in {"none", "allowlist", "all"} /\ m.egress \in {"none", "allowlist", "all"}
      /\ h.exec \in {"none", "sandboxed", "unrestricted"}
      /\ m.exec \in {"none", "sandboxed", "unrestricted"}
  BY DEF Manifest, EnvLevels
<1>2. CASE a.op \in {"read", "write", "delete"}
  <2>1. CheckFilesystemAccess(m, a)
    BY <1>2 DEF Allowed
  <2>2. /\ m.write # "none" => h.write # "none"
        /\ m.write \in {"read-write", "full"} => h.write \in {"read-write", "full"}
    BY <1>1, FileOrder DEF MatchCapabilities
  <2>3. CheckFilesystemAccess(h, a) \/ (a.op = "read" /\ a.sensitive /\ h.files = "none")
    BY <2>1, <2>2 DEF CheckFilesystemAccess
  <2>4. QED
    BY <1>2, <2>3 DEF Allowed
<1>3. CASE a.op = "connect"
  <2>1. CheckNetworkAccess(m, a)
    BY <1>3 DEF Allowed
  <2>2. (m.egress # "none" => h.egress # "none") /\ (h.egress = "allowlist" => m.egress # "all")
    BY <1>1, EgressOrder DEF MatchCapabilities
  <2>3. CheckNetworkAccess(h, a)
    BY <1>1, <2>1, <2>2 DEF CheckNetworkAccess
  <2>4. QED
    BY <1>3, <2>3 DEF Allowed
<1>4. CASE a.op = "exec"
  <2>1. CheckShellAccess(m, a)
    BY <1>4 DEF Allowed
  <2>2. (m.exec # "none" => h.exec # "none") /\ (h.exec = "sandboxed" => m.exec # "unrestricted")
    BY <1>1, ExecOrder DEF MatchCapabilities
  <2>3. CheckShellAccess(h, a)
    BY <1>1, <2>1, <2>2 DEF CheckShellAccess
  <2>4. QED
    BY <1>4, <2>3 DEF Allowed
<1>5. CASE a.op = "env"
  <2>1. CheckCredentialAccess(m, a)
    BY <1>5 DEF Allowed
  <2>2. /\ m.env # "none" => h.env # "none"
        /\ m.env = "all_env" => h.env \in {"all_env", "file_access"}
        /\ h.env = "env_allowlist" => m.env \in {"none", "env_allowlist"}
    BY <1>1, EnvOrder DEF MatchCapabilities
  <2>3. CheckCredentialAccess(h, a) \/ (a.sensitive /\ h.env = "file_access")
    BY <2>1, <2>2 DEF CheckCredentialAccess
  <2>4. QED
    BY <1>5, <2>3 DEF Allowed
<1>6. CASE a.op = "pay"
  <2>1. CheckPaymentAccess(m, a)
    BY <1>6 DEF Allowed
  <2>2. m.spend <= h.spend
    BY <1>1 DEF MatchCapabilities
  <2>3. a.amount \in Nat
    BY <1>6 DEF Accesses
  <2>4. CheckPaymentAccess(h, a) \/ a.amount > h.above
    BY <1>1, <2>1, <2>2, <2>3 DEF CheckPaymentAccess
  <2>5. QED
    BY <1>6, <2>4 DEF Allowed
<1>7. QED
  BY <1>2, <1>3, <1>4, <1>5, <1>6 DEF Accesses

(* The decision on record is the policy's for the score on record.          *)
PolInv ==
  /\ polManifest \in Manifest /\ polPolicy \in Policy /\ polScore \in Int
  /\ polAction = "none" \/ polAction = Evaluate(polScore, polManifest, polPolicy)

LEMMA PolInductive == PolSpec => []PolInv
<1>1. PolInit => PolInv
  BY PolicyAssumption DEF PolInit, PolInv
<1>2. PolInv /\ [PolNext]_polVars => PolInv'
  BY PolicyAssumption DEF PolInv, PolNext, EvaluatePolicy, polVars
<1>3. QED
  BY <1>1, <1>2, PTL DEF PolSpec

(* ChecksFollowPolicy: a tool that a policy lets run is refused what the    *)
(* policy denies, and a manifest that reaches another's levels is allowed   *)
(* what the other is, but for what the policy does not compare.             *)
THEOREM PolicyAndChecks == PolSpec => []ChecksFollowPolicy
<1>1. ASSUME PolInv PROVE ChecksFollowPolicy
  <2>1. ASSUME polAction \in {"ALLOW", "REQUIRE_APPROVAL"}, NEW a \in Accesses,
               Allowed(polManifest, a)
        PROVE  /\ a.op = "exec" => "shell.exec" \notin polPolicy.denied
               /\ a.op = "connect" => "network.egress" \notin polPolicy.denied
    <3>1. ~HoldsDenied(polManifest, polPolicy.denied)
      BY <1>1, <2>1 DEF PolInv, Evaluate
    <3>2. a.op = "exec" => polManifest.exec # "none"
      BY <2>1 DEF Allowed, CheckShellAccess
    <3>3. a.op = "connect" => polManifest.egress # "none"
      BY <2>1 DEF Allowed, CheckNetworkAccess
    <3>4. QED
      BY <3>1, <3>2, <3>3 DEF HoldsDenied
  <2>2. ASSUME NEW m \in Manifests, MatchCapabilities(polManifest, m),
               NEW a \in Accesses, Allowed(m, a)
        PROVE  \/ Allowed(polManifest, a)
               \/ a.op = "env" /\ a.sensitive /\ polManifest.env = "file_access"
               \/ a.op = "read" /\ a.sensitive /\ polManifest.files = "none"
               \/ a.op = "pay" /\ a.amount > polManifest.above
    <3>1. m \in Manifest /\ polManifest \in Manifest
      BY <1>1, PolicyAssumption DEF PolInv
    <3>2. QED
      BY <2>2, <3>1, ReachingAllows
  <2>3. QED
    BY <2>1, <2>2 DEF ChecksFollowPolicy
<1>2. QED
  BY <1>1, PolInductive, PTL

Inside(p, score) == {i \in DOMAIN p.thresholds : InRange(score, p.thresholds[i])}
Scored(p, score) == FirstOf(p.thresholds, Inside(p, score), "ALLOW")

(* Whatever rule is the first to fit, its action is one of the three.       *)
LEMMA FirstOfType ==
  ASSUME NEW R, NEW rules \in Seq(R), \A r \in R : r.action \in Actions,
         NEW fitting \in SUBSET (DOMAIN rules), NEW otherwise \in Actions
  PROVE  FirstOf(rules, fitting, otherwise) \in Actions
<1>1. CASE fitting = {}
  BY <1>1 DEF FirstOf
<1>2. CASE fitting # {}
  <2>1. fitting \in SUBSET Nat
    OBVIOUS
  <2>2. Min(fitting) \in fitting
    BY <1>2, <2>1, LeastIsIn
  <2>3. rules[Min(fitting)] \in R
    BY <2>2
  <2>4. QED
    BY <1>2, <2>3 DEF FirstOf
<1>3. QED
  BY <1>1, <1>2

LEMMA ScoredType ==
  ASSUME NEW p \in Policy, NEW score \in Int
  PROVE  Scored(p, score) \in Actions
<1>1. PICK ts : ts = p.thresholds /\ ts \in Seq([low : Int, high : Int, action : Actions])
  BY DEF Policy
<1>2. PICK q \in SUBSET (DOMAIN ts), o \in Actions : q = Inside(p, score) /\ o = "ALLOW"
  BY <1>1 DEF Inside, Actions
<1> DEFINE R == [low : Int, high : Int, action : Actions]
<1>3. ts \in Seq(R) /\ \A r \in R : r.action \in Actions
  BY <1>1
<1> HIDE DEF R
<1>4. FirstOf(ts, q, o) \in Actions
  BY <1>3, FirstOfType
<1>5. QED
  BY <1>1, <1>2, <1>4 DEF Scored

(* A rule that alone fits is the first.                                     *)
LEMMA OnlyFit ==
  ASSUME NEW rules, NEW i \in Nat, NEW otherwise
  PROVE  FirstOf(rules, {i}, otherwise) = rules[i].action
<1>1. Min({i}) = i
  BY DEF Min
<1>2. QED
  BY <1>1 DEF FirstOf

(* The ranges of the default policies, from the score a policy asks for on  *)
LEMMA StrictRanges ==
  ASSUME NEW p, p.thresholds = Ranges(8, 10, 14, 16), NEW score \in Int, score >= 14
  PROVE  Scored(p, score) = IF score = 14 THEN "REQUIRE_APPROVAL" ELSE "ALLOW"
<1>1. PICK ts : ts = p.thresholds
  OBVIOUS
<1>2. /\ DOMAIN ts = {1, 2, 3}
      /\ ts[1].low = 0 /\ ts[1].high = 8
      /\ ts[2].low = 10 /\ ts[2].high = 14 /\ ts[2].action = "REQUIRE_APPROVAL"
      /\ ts[3].low = 16 /\ ts[3].high = 20 /\ ts[3].action = "ALLOW"
  BY <1>1 DEF Ranges
<1>3. Inside(p, score) = {i \in {1, 2, 3} : InRange(score, ts[i])}
  BY <1>1, <1>2 DEF Inside
<1>4. Inside(p, score) = IF score = 14 THEN {2} ELSE IF score \in 16 .. 20 THEN {3} ELSE {}
  BY <1>2, <1>3 DEF InRange
<1>5. \A i \in Nat : FirstOf(ts, {i}, "ALLOW") = ts[i].action
  BY OnlyFit
<1>6. FirstOf(ts, {}, "ALLOW") = "ALLOW"
  BY DEF FirstOf
<1>7. QED
  BY <1>1, <1>2, <1>4, <1>5, <1>6 DEF Scored

LEMMA EnterpriseRanges ==
  ASSUME NEW p, p.thresholds = Ranges(10, 12, 14, 16), NEW score \in Int, score >= 16
  PROVE  Scored(p, score) = "ALLOW"
<1>1. PICK ts : ts = p.thresholds
  OBVIOUS
<1>2. /\ DOMAIN ts = {1, 2, 3}
      /\ ts[1].low = 0 /\ ts[1].high = 10
      /\ ts[2].low = 12 /\ ts[2].high = 14
      /\ ts[3].low = 16 /\ ts[3].high = 20 /\ ts[3].action = "ALLOW"
  BY <1>1 DEF Ranges
<1>3. Inside(p, score) = {i \in {1, 2, 3} : InRange(score, ts[i])}
  BY <1>1, <1>2 DEF Inside
<1>4. Inside(p, score) = IF score \in 16 .. 20 THEN {3} ELSE {}
  BY <1>2, <1>3 DEF InRange
<1>5. \A i \in Nat : FirstOf(ts, {i}, "ALLOW") = ts[i].action
  BY OnlyFit
<1>6. FirstOf(ts, {}, "ALLOW") = "ALLOW"
  BY DEF FirstOf
<1>7. QED
  BY <1>1, <1>2, <1>4, <1>5, <1>6 DEF Scored

LEMMA PermissiveRanges ==
  ASSUME NEW p, p.thresholds = Tail(Ranges(0, 0, 6, 8)), NEW score \in Int, score >= 0
  PROVE  Scored(p, score) = IF score <= 6 THEN "REQUIRE_APPROVAL" ELSE "ALLOW"
<1>1. PICK ts : ts = p.thresholds
  OBVIOUS
<1>2. /\ DOMAIN ts = {1, 2}
      /\ ts[1].low = 0 /\ ts[1].high = 6 /\ ts[1].action = "REQUIRE_APPROVAL"
      /\ ts[2].low = 8 /\ ts[2].high = 20 /\ ts[2].action = "ALLOW"
  BY <1>1 DEF Ranges
<1>3. Inside(p, score) = {i \in {1, 2} : InRange(score, ts[i])}
  BY <1>1, <1>2 DEF Inside
<1>4. Inside(p, score) = IF score <= 6 THEN {1} ELSE IF score \in 8 .. 20 THEN {2} ELSE {}
  BY <1>2, <1>3 DEF InRange
<1>5. \A i \in Nat : FirstOf(ts, {i}, "ALLOW") = ts[i].action
  BY OnlyFit
<1>6. FirstOf(ts, {}, "ALLOW") = "ALLOW"
  BY DEF FirstOf
<1>7. QED
  BY <1>1, <1>2, <1>4, <1>5, <1>6 DEF Scored

(* A policy that is a default one but for its overrides                     *)
Default(p) == [p EXCEPT !.overrides = << >>] \in DefaultPolicies

LEMMA StricterBelow ==
  ASSUME NEW p \in Policy, Default(p), NEW s \in Int, NEW t \in Int, p.min <= s, s <= t
  PROVE  Strictness(Scored(p, t)) <= Strictness(Scored(p, s))
<1>1. \/ p.min = 14 /\ p.thresholds = Ranges(8, 10, 14, 16)
      \/ p.min = 16 /\ p.thresholds = Ranges(10, 12, 14, 16)
      \/ p.min = 0 /\ p.thresholds = Tail(Ranges(0, 0, 6, 8))
  <2>1. PICK d \in DefaultPolicies : d = [p EXCEPT !.overrides = << >>]
    BY DEF Default
  <2>2. d.min = p.min /\ d.thresholds = p.thresholds
    BY <2>1 DEF Policy
  <2>3. \/ d.min = 14 /\ d.thresholds = Ranges(8, 10, 14, 16)
        \/ d.min = 16 /\ d.thresholds = Ranges(10, 12, 14, 16)
        \/ d.min = 0 /\ d.thresholds = Tail(Ranges(0, 0, 6, 8))
    BY DEF DefaultPolicies
  <2>4. QED
    BY <2>2, <2>3
<1>2. Strictness("REQUIRE_APPROVAL") = 1 /\ Strictness("ALLOW") = 0
  BY DEF Strictness
<1>3. CASE p.min = 14 /\ p.thresholds = Ranges(8, 10, 14, 16)
  <2>1. \A u \in {s, t} : Scored(p, u) = IF u = 14 THEN "REQUIRE_APPROVAL" ELSE "ALLOW"
    BY <1>3, StrictRanges
  <2>2. QED
    BY <1>2, <1>3, <2>1
<1>4. CASE p.min = 16 /\ p.thresholds = Ranges(10, 12, 14, 16)
  <2>1. \A u \in {s, t} : Scored(p, u) = "ALLOW"
    BY <1>4, EnterpriseRanges
  <2>2. QED
    BY <1>2, <2>1
<1>5. CASE p.min = 0 /\ p.thresholds = Tail(Ranges(0, 0, 6, 8))
  <2>1. \A u \in {s, t} : Scored(p, u) = IF u <= 6 THEN "REQUIRE_APPROVAL" ELSE "ALLOW"
    BY <1>5, PermissiveRanges
  <2>2. QED
    BY <1>2, <2>1
<1>6. QED
  BY <1>1, <1>3, <1>4, <1>5

Blocked(score, m, p) ==
  score < p.min \/ ~MatchCapabilities(m, p.required) \/ HoldsDenied(m, p.denied)

LEMMA EvaluateStrictness ==
  ASSUME NEW p \in Policy, Default(p), NEW m, NEW s \in Int, NEW t \in Int, s <= t
  PROVE  Strictness(Evaluate(t, m, p)) <= Strictness(Evaluate(s, m, p))
<1> DEFINE Own == {i \in DOMAIN p.overrides : p.overrides[i].tool \in {"*", "tool"}}
<1>1. /\ Strictness("BLOCK") = 2 /\ Strictness("REQUIRE_APPROVAL") = 1
      /\ Strictness("ALLOW") = 0
  BY DEF Strictness
<1>2. \A a \in Actions : Strictness(a) \in 0 .. 2
  BY <1>1 DEF Actions
<1>3. PICK q : q = Own
  OBVIOUS
<1>4. /\ \A u : ~Blocked(u, m, p) => Evaluate(u, m, p) = FirstOf(p.overrides, q, Scored(p, u))
      /\ \A u : Blocked(u, m, p) => Evaluate(u, m, p) = "BLOCK"
  BY <1>3 DEF Evaluate, Blocked, Scored, Inside
<1>5. \A u \in Int : Evaluate(u, m, p) \in Actions
  <2> SUFFICES ASSUME NEW u \in Int PROVE Evaluate(u, m, p) \in Actions
    OBVIOUS
  <2>1. PICK os : os = p.overrides
    OBVIOUS
  <2> DEFINE R == [tool : STRING, action : Actions]
  <2>2. os \in Seq(R) /\ \A r \in R : r.action \in Actions
    BY <2>1 DEF Policy
  <2>3. PICK o \in Actions : o = Scored(p, u)
    BY ScoredType
  <2>4. q \in SUBSET (DOMAIN os)
    BY <1>3, <2>1
  <2> HIDE DEF R
  <2>5. FirstOf(os, q, o) \in Actions
    BY <2>2, <2>4, FirstOfType
  <2>6. QED
    BY <1>4, <2>1, <2>3, <2>5 DEF Actions
<1>6. CASE Blocked(s, m, p)
  BY <1>1, <1>2, <1>4, <1>5, <1>6
<1>7. CASE ~Blocked(s, m, p)
  <2>1. p.min <= s /\ p.min <= t /\ ~Blocked(t, m, p)
    BY <1>7 DEF Blocked, Policy
  <2>2. /\ Evaluate(s, m, p) = FirstOf(p.overrides, q, Scored(p, s))
        /\ Evaluate(t, m, p) = FirstOf(p.overrides, q, Scored(p, t))
    BY <1>4, <1>7, <2>1
  <2>3. CASE q = {}
    BY <2>1, <2>2, <2>3, StricterBelow DEF FirstOf
  <2>4. CASE q # {}
    <3>1. Evaluate(s, m, p) = Evaluate(t, m, p)
      BY <2>2, <2>4 DEF FirstOf
    <3>2. QED
      BY <1>2, <1>5, <3>1
  <2>5. QED
    BY <2>3, <2>4
<1>8. QED
  BY <1>6, <1>7

(* MoreTrustNeverStricter: under the default policies, with any overrides,  *)
(* a higher score never gets a stricter decision, the scores between two    *)
(* ranges included.                                                         *)
THEOREM TrustHelps == PolSpec => MoreTrustNeverStricter
<1> DEFINE Helps ==
      [polPolicy EXCEPT !.overrides = << >>] \in DefaultPolicies
        /\ polAction # "none" /\ polScore' >= polScore
        => Strictness(polAction') <= Strictness(polAction)
<1>1. ASSUME PolInv, PolNext PROVE Helps
  <2> SUFFICES ASSUME Default(polPolicy), polAction # "none", polScore' >= polScore
               PROVE  Strictness(polAction') <= Strictness(polAction)
    BY DEF Default
  <2>1. PICK score \in Scores : EvaluatePolicy(score)
    BY <1>1 DEF PolNext
  <2>2. /\ polAction' = Evaluate(score, polManifest, polPolicy) /\ score >= polScore
        /\ polAction = Evaluate(polScore, polManifest, polPolicy)
    BY <1>1, <2>1 DEF EvaluatePolicy, PolInv
  <2>3. score \in Int /\ polScore \in Int /\ polPolicy \in Policy
    BY <1>1, PolicyAssumption DEF PolInv
  <2>4. QED
    BY <2>2, <2>3, EvaluateStrictness
<1>2. PolInv /\ [PolNext]_polVars => [Helps]_polVars
  BY <1>1
<1>3. QED
  BY <1>2, PolInductive, PTL DEF PolSpec, MoreTrustNeverStricter
=============================================================================
