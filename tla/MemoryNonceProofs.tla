-------------------------- MODULE MemoryNonceProofs --------------------------
(***************************************************************************)
(* PoPManager over the memory store keeps the promise of OneTimeNonce for  *)
(* any number of nonces and of verifications, as long as a consumed        *)
(* challenge is kept no shorter than it would have lived (Ttl against      *)
(* Retention: five minutes against one hour in the code).                  *)
(***************************************************************************)
EXTENDS MemoryNonceStore, TLAPS

(* A stored challenge expires within Ttl from now; a consumed one was       *)
(* marked no earlier than Ttl before its expiry.                            *)
EntryOK(e) ==
  /\ e.expires <= now + Ttl
  /\ e.consumed => e.expires <= e.at + Ttl

(* What a verification holds that has retrieved its challenge: a copy with  *)
(* the expiry of the stored one, which goes only when it has expired.       *)
HoldsCopy(c) ==
  /\ snap[c] # {}
  /\ \A e \in snap[c] :
       /\ store[nonce[c]] = {} => Expired(e)
       /\ \A f \in store[nonce[c]] : f.expires = e.expires

StoreInv ==
  /\ TypeOK
  /\ \A n \in Nonces : n \in fresh => store[n] = {}
  /\ \A n \in Nonces : \A e, f \in store[n] : e = f
  /\ \A n \in Nonces : \A e \in store[n] : EntryOK(e)
  /\ \A c \in Calls : pc[c] \in {"verifying", "accepted"} => nonce[c] \notin fresh
  /\ \A c \in Calls : pc[c] = "verifying" => HoldsCopy(c)
  /\ \A c \in Accepted : \A e \in store[nonce[c]] : e.consumed
  /\ OneTimeUse

LEMMA StoreInit == PopInit => StoreInv
BY PopAssumption DEF PopAssumption, PopInit, StoreInv, TypeOK, Accepted, OneTimeUse

LEMMA IssueStep ==
  ASSUME StoreInv, NEW n \in Nonces, IssueChallenge(n)
  PROVE  StoreInv'
<1> DEFINE new == [expires |-> now + Ttl, consumed |-> FALSE, at |-> 0]
<1>1. now \in Nat /\ Ttl \in Nat /\ new \in Entry
  BY PopAssumption DEF PopAssumption, StoreInv, TypeOK, Entry
<1>2. /\ n \in fresh /\ fresh' = fresh \ {n}
      /\ store' = [store EXCEPT ![n] = {new}]
      /\ UNCHANGED <<now, pc, nonce, genuine, snap, how>>
  BY DEF IssueChallenge, Put
<1> HIDE DEF new
<1>3. TypeOK'
  BY <1>1, <1>2 DEF StoreInv, TypeOK
<1>4. \A c \in Calls : pc[c] \in {"verifying", "accepted"} => nonce[c] # n
  BY <1>2 DEF StoreInv
<1>5. \A m \in Nonces : m # n => store'[m] = store[m]
  BY <1>2 DEF StoreInv, TypeOK
<1>6. store'[n] = {new}
  BY <1>2 DEF StoreInv, TypeOK
<1>7. /\ \A m \in Nonces : m \in fresh' => store'[m] = {}
      /\ \A m \in Nonces : \A e, f \in store'[m] : e = f
  BY <1>2, <1>5, <1>6 DEF StoreInv
<1>8. new.expires <= now + Ttl /\ ~new.consumed
  BY <1>1 DEF new
<1>9. (\A m \in Nonces : \A e \in store[m] : EntryOK(e))'
  BY <1>2, <1>5, <1>6, <1>8 DEF StoreInv, EntryOK
<1>10. \A c \in Calls : pc'[c] = "verifying" => HoldsCopy(c)'
  BY <1>2, <1>4, <1>5 DEF StoreInv, TypeOK, HoldsCopy, Expired
<1>11. /\ \A c \in Accepted' : \A e \in store'[nonce'[c]] : e.consumed
       /\ OneTimeUse'
  BY <1>2, <1>4, <1>5 DEF StoreInv, TypeOK, Accepted, OneTimeUse
<1>12. QED
  BY <1>2, <1>3, <1>7, <1>9, <1>10, <1>11 DEF StoreInv

LEMMA RetrieveStep ==
  ASSUME StoreInv, NEW c \in Calls, Retrieve(c)
  PROVE  StoreInv'
<1> DEFINE n == nonce[c]
<1>1. n \in Nonces /\ pc[c] = "idle" /\ UNCHANGED <<now, fresh, nonce, genuine>>
  BY DEF StoreInv, TypeOK, Retrieve
<1>2. CASE store[n] = {} \/ \E e \in store[n] : Expired(e)
  <2>1. /\ store' = [store EXCEPT ![n] = {}]
        /\ pc' = [pc EXCEPT ![c] = "rejected"]
        /\ UNCHANGED <<snap, how>>
    BY <1>2 DEF Retrieve, Put, Reject, Goto
  <2>2. TypeOK'
    BY <1>1, <2>1 DEF StoreInv, TypeOK
  <2>3. \A m \in Nonces : store'[m] \subseteq store[m] /\ (m # n => store'[m] = store[m])
    BY <1>1, <2>1 DEF StoreInv, TypeOK
  <2>4. /\ \A m \in Nonces : m \in fresh' => store'[m] = {}
        /\ \A m \in Nonces : \A e, f \in store'[m] : e = f
        /\ (\A m \in Nonces : \A e \in store[m] : EntryOK(e))'
    BY <1>1, <2>3 DEF StoreInv, EntryOK
  <2>5. \A d \in Calls : d # c => pc'[d] = pc[d]
    BY <2>1 DEF StoreInv, TypeOK
  <2>6. \A d \in Calls : pc'[d] = "verifying" => HoldsCopy(d)'
    <3> SUFFICES ASSUME NEW d \in Calls, pc'[d] = "verifying" PROVE HoldsCopy(d)'
      OBVIOUS
    <3>1. pc[d] = "verifying" /\ HoldsCopy(d)
      BY <2>1, <2>5 DEF StoreInv, TypeOK
    <3>2. CASE nonce[d] # n
      BY <1>1, <2>1, <2>3, <3>1, <3>2 DEF HoldsCopy, Expired, StoreInv, TypeOK
    <3>3. CASE nonce[d] = n
      <4>1. store'[n] = {}
        BY <1>1, <2>1 DEF StoreInv, TypeOK
      <4>2. \A e \in snap[d] : Expired(e)
        BY <1>2, <3>1, <3>3 DEF HoldsCopy, Expired
      <4>3. QED
        BY <1>1, <2>1, <3>1, <3>3, <4>1, <4>2 DEF HoldsCopy, Expired
    <3>4. QED
      BY <3>2, <3>3
  <2>7. Accepted' = Accepted
    BY <1>1, <2>1 DEF Accepted, StoreInv, TypeOK
  <2>8. QED
    BY <1>1, <2>1, <2>2, <2>3, <2>4, <2>5, <2>6, <2>7 DEF StoreInv, TypeOK, OneTimeUse
<1>3. CASE ~(store[n] = {} \/ \E e \in store[n] : Expired(e))
  <2>1. /\ snap' = [snap EXCEPT ![c] = store[n]]
        /\ pc' = [pc EXCEPT ![c] = "verifying"]
        /\ UNCHANGED <<store, how>>
    BY <1>3 DEF Retrieve, Goto
  <2>2. TypeOK'
    BY <1>1, <2>1 DEF StoreInv, TypeOK
  <2>3. HoldsCopy(c)'
    BY <1>1, <1>3, <2>1 DEF StoreInv, TypeOK, HoldsCopy
  <2>4. n \notin fresh
    BY <1>1, <1>3 DEF StoreInv
  <2>5. \A d \in Calls : d # c => pc'[d] = pc[d] /\ snap'[d] = snap[d]
    BY <2>1 DEF StoreInv, TypeOK
  <2>6. \A d \in Calls : pc'[d] = "verifying" => HoldsCopy(d)'
    <3> SUFFICES ASSUME NEW d \in Calls, d # c, pc'[d] = "verifying" PROVE HoldsCopy(d)'
      BY <2>3
    <3>1. HoldsCopy(d)
      BY <2>5 DEF StoreInv
    <3>2. QED
      BY <1>1, <2>1, <2>5, <3>1 DEF HoldsCopy, Expired
  <2>7. Accepted' = Accepted
    BY <1>1, <2>1 DEF Accepted, StoreInv, TypeOK
  <2>8. QED
    BY <1>1, <2>1, <2>2, <2>4, <2>5, <2>6, <2>7 DEF StoreInv, TypeOK, OneTimeUse, EntryOK
<1>4. QED
  BY <1>2, <1>3

(* Of the four outcomes of consume, only the mark accepts: what a verified  *)
(* copy stands for is still stored.                                         *)
LEMMA ConsumeStep ==
  ASSUME StoreInv, NEW c \in Calls, VerifyAndConsume(c)
  PROVE  /\ StoreInv'
         /\ \/ /\ \E e \in store[nonce[c]] :
                   ~e.consumed /\ ~Expired(e) /\ Put(nonce[c], {Marked(e)})
              /\ Accept(c, "marked")
            \/ /\ Reject(c)
               /\ store' \in {store, [store EXCEPT ![nonce[c]] = {}]}
<1> DEFINE n == nonce[c]
<1>1. /\ n \in Nonces /\ n \notin fresh /\ pc[c] = "verifying" /\ HoldsCopy(c)
      /\ UNCHANGED <<now, fresh, nonce, genuine, snap>>
  BY DEF StoreInv, TypeOK, VerifyAndConsume
<1>2. ASSUME Valid(c) PROVE store[n] # {}
  BY <1>1, <1>2 DEF Valid, HoldsCopy
<1>3. \/ Reject(c) /\ UNCHANGED store
      \/ Reject(c) /\ \E e \in store[n] : Expired(e) /\ Put(n, {})
      \/ /\ Accept(c, "marked")
         /\ \E e \in store[n] : ~e.consumed /\ ~Expired(e) /\ Put(n, {Marked(e)})
  BY <1>2 DEF VerifyAndConsume, Consume
<1>4. CASE Reject(c) /\ UNCHANGED store
  <2>1. pc' = [pc EXCEPT ![c] = "rejected"] /\ UNCHANGED how
    BY <1>4 DEF Reject, Goto
  <2>2. TypeOK' /\ Accepted' = Accepted
    BY <1>1, <1>4, <2>1 DEF StoreInv, TypeOK, Accepted
  <2>3. \A d \in Calls : pc'[d] = "verifying" => pc[d] = "verifying" /\ HoldsCopy(d)'
    BY <1>1, <1>4, <2>1 DEF StoreInv, TypeOK, HoldsCopy, Expired
  <2>4. QED
    BY <1>1, <1>4, <2>1, <2>2, <2>3 DEF StoreInv, TypeOK, OneTimeUse, EntryOK
<1>5. CASE Reject(c) /\ \E e \in store[n] : Expired(e) /\ Put(n, {})
  <2>1. /\ pc' = [pc EXCEPT ![c] = "rejected"] /\ UNCHANGED how
        /\ store' = [store EXCEPT ![n] = {}]
    BY <1>5 DEF Reject, Goto, Put
  <2>2. TypeOK' /\ Accepted' = Accepted
    BY <1>1, <2>1 DEF StoreInv, TypeOK, Accepted
  <2>3. \A m \in Nonces : store'[m] \subseteq store[m] /\ (m # n => store'[m] = store[m])
    BY <1>1, <2>1 DEF StoreInv, TypeOK
  <2>4. \A d \in Calls : pc'[d] = "verifying" => pc[d] = "verifying" /\ HoldsCopy(d)'
    <3> SUFFICES ASSUME NEW d \in Calls, pc'[d] = "verifying"
                 PROVE  pc[d] = "verifying" /\ HoldsCopy(d)'
      OBVIOUS
    <3>1. pc[d] = "verifying" /\ HoldsCopy(d)
      BY <2>1 DEF StoreInv, TypeOK
    <3>2. CASE nonce[d] # n
      BY <1>1, <2>3, <3>1, <3>2 DEF HoldsCopy, Expired, StoreInv, TypeOK
    <3>3. CASE nonce[d] = n
      <4>1. \A e \in snap[d] : Expired(e)
        BY <1>5, <3>1, <3>3 DEF HoldsCopy, Expired
      <4>2. store'[n] = {}
        BY <1>1, <2>1 DEF StoreInv, TypeOK
      <4>3. QED
        BY <1>1, <3>1, <3>3, <4>1, <4>2 DEF HoldsCopy, Expired
    <3>4. QED
      BY <3>2, <3>3
  <2>5. StoreInv'
    BY <1>1, <2>1, <2>2, <2>3, <2>4 DEF StoreInv, TypeOK, OneTimeUse, EntryOK
  <2>6. QED
    BY <1>5, <2>1, <2>5
<1>6. CASE /\ Accept(c, "marked")
           /\ \E e \in store[n] : ~e.consumed /\ ~Expired(e) /\ Put(n, {Marked(e)})
  <2>1. PICK e \in store[n] : ~e.consumed /\ ~Expired(e) /\ Put(n, {Marked(e)})
    BY <1>6
  <2>2. /\ pc' = [pc EXCEPT ![c] = "accepted"]
        /\ how' = [how EXCEPT ![c] = "marked"]
        /\ store' = [store EXCEPT ![n] = {Marked(e)}]
    BY <1>6, <2>1 DEF Accept, Goto, Put
  <2>3. /\ e \in Entry /\ EntryOK(e) /\ now \in Nat /\ Ttl \in Nat
        /\ Marked(e) = [expires |-> e.expires, consumed |-> TRUE, at |-> now]
    BY <1>1, PopAssumption DEF PopAssumption, StoreInv, TypeOK, Marked
  <2>4. Marked(e) \in Entry /\ Marked(e).expires = e.expires /\ Marked(e).consumed
        /\ Marked(e).at = now
    BY <2>3 DEF Entry
  <2>5. TypeOK'
    BY <1>1, <2>2, <2>4 DEF StoreInv, TypeOK
  <2>6. store'[n] = {Marked(e)} /\ \A m \in Nonces : m # n => store'[m] = store[m]
    BY <1>1, <2>2 DEF StoreInv, TypeOK
  <2>7. Accepted' = Accepted \cup {c} /\ \A d \in Calls : d # c => pc'[d] = pc[d]
    BY <2>2 DEF StoreInv, TypeOK, Accepted
  <2>8. \A d \in Accepted : nonce[d] # n
    BY <2>1 DEF StoreInv
  <2>9. /\ \A m \in Nonces : m \in fresh' => store'[m] = {}
        /\ \A m \in Nonces : \A x, y \in store'[m] : x = y
    BY <1>1, <2>6 DEF StoreInv
  <2>10. (\A m \in Nonces : \A x \in store[m] : EntryOK(x))'
    <3>1. Marked(e).expires <= now + Ttl
      BY <2>3, <2>4 DEF EntryOK
    <3>2. QED
      BY <1>1, <2>4, <2>6, <3>1 DEF StoreInv, EntryOK
  <2>11. \A d \in Calls : pc'[d] = "verifying" => pc[d] = "verifying" /\ HoldsCopy(d)'
    <3> SUFFICES ASSUME NEW d \in Calls, pc'[d] = "verifying"
                 PROVE  pc[d] = "verifying" /\ HoldsCopy(d)'
      OBVIOUS
    <3>1. d # c /\ pc[d] = "verifying" /\ HoldsCopy(d)
      BY <2>2, <2>7 DEF StoreInv, TypeOK
    <3>2. CASE nonce[d] # n
      BY <1>1, <2>6, <3>1, <3>2 DEF HoldsCopy, Expired, StoreInv, TypeOK
    <3>3. CASE nonce[d] = n
      BY <1>1, <2>1, <2>4, <2>6, <3>1, <3>3 DEF HoldsCopy, Expired
    <3>4. QED
      BY <3>2, <3>3
  <2>12. /\ \A d \in Accepted' : \A x \in store'[nonce'[d]] : x.consumed
         /\ OneTimeUse'
    BY <1>1, <2>4, <2>6, <2>7, <2>8 DEF StoreInv, TypeOK, Accepted, OneTimeUse
  <2>13. StoreInv'
    BY <1>1, <2>5, <2>7, <2>9, <2>10, <2>11, <2>12 DEF StoreInv
  <2>14. QED
    BY <1>6, <2>13
<1>7. QED
  BY <1>3, <1>4, <1>5, <1>6

(* What cleanup removes has expired: a consumed challenge is older than its *)
(* retention time only when its own lifetime is over as well.               *)
LEMMA CleanupStep ==
  ASSUME Ttl <= Retention, StoreInv, Cleanup
  PROVE  StoreInv' /\ \A n \in Nonces : store'[n] \subseteq store[n]
<1> DEFINE N == {n \in Nonces : \E e \in store[n] :
                   Expired(e) \/ (e.consumed /\ now > e.at + Retention)}
<1>1. /\ store' = [n \in Nonces |-> IF n \in N THEN {} ELSE store[n]]
      /\ UNCHANGED <<now, fresh, pc, nonce, genuine, snap, how>>
  BY DEF Cleanup, Drop
<1>2. \A n \in N : \A e \in store[n] : Expired(e)
  <2> SUFFICES ASSUME NEW n \in Nonces, NEW e \in store[n], e.consumed,
                      now > e.at + Retention
               PROVE  Expired(e)
    BY DEF StoreInv
  <2>1. e \in Entry /\ EntryOK(e) /\ now \in Nat /\ Ttl \in Nat /\ Retention \in Nat
    BY PopAssumption DEF PopAssumption, StoreInv, TypeOK
  <2>2. e.expires <= e.at + Ttl /\ e.expires \in Nat /\ e.at \in Nat
    BY <2>1 DEF EntryOK, Entry
  <2>3. QED
    BY <2>1, <2>2 DEF Expired
<1> HIDE DEF N
<1>3. \A n \in Nonces : store'[n] \subseteq store[n]
  BY <1>1
<1>4. TypeOK' /\ Accepted' = Accepted
  BY <1>1 DEF StoreInv, TypeOK, Accepted
<1>5. \A c \in Calls : pc'[c] = "verifying" => HoldsCopy(c)'
  <2> SUFFICES ASSUME NEW c \in Calls, pc[c] = "verifying" PROVE HoldsCopy(c)'
    BY <1>1
  <2>1. HoldsCopy(c) /\ nonce[c] \in Nonces
    BY DEF StoreInv, TypeOK
  <2>2. CASE nonce[c] \in N
    <3>1. \A e \in snap[c] : Expired(e)
      BY <1>2, <2>1, <2>2 DEF HoldsCopy, Expired
    <3>2. QED
      BY <1>1, <2>1, <2>2, <3>1 DEF HoldsCopy, Expired
  <2>3. CASE nonce[c] \notin N
    BY <1>1, <2>1, <2>3 DEF HoldsCopy, Expired
  <2>4. QED
    BY <2>2, <2>3
<1>6. /\ \A n \in Nonces : n \in fresh' => store'[n] = {}
      /\ \A n \in Nonces : \A e, f \in store'[n] : e = f
      /\ (\A n \in Nonces : \A e \in store[n] : EntryOK(e))'
  BY <1>1, <1>3 DEF StoreInv, EntryOK
<1>7. /\ \A c \in Accepted' : \A e \in store'[nonce'[c]] : e.consumed
      /\ OneTimeUse'
  BY <1>1, <1>3, <1>4 DEF StoreInv, TypeOK, Accepted, OneTimeUse
<1>8. QED
  BY <1>1, <1>3, <1>4, <1>5, <1>6, <1>7 DEF StoreInv

LEMMA TickStep ==
  ASSUME StoreInv, Tick
  PROVE  StoreInv'
<1>1. /\ now \in Nat /\ MaxTime \in Nat /\ Ttl \in Nat /\ now' = now + 1 /\ now < MaxTime
      /\ UNCHANGED <<fresh, store, pc, nonce, genuine, snap, how>>
  BY PopAssumption DEF PopAssumption, StoreInv, TypeOK, Tick
<1>2. TypeOK' /\ Accepted' = Accepted
  BY <1>1 DEF StoreInv, TypeOK, Accepted
<1>3. \A e \in Entry : Expired(e) => e.expires < now'
  BY <1>1 DEF Expired, Entry
<1>4. \A c \in Calls : pc'[c] = "verifying" => HoldsCopy(c)'
  BY <1>1, <1>3 DEF StoreInv, TypeOK, HoldsCopy, Expired
<1>5. (\A n \in Nonces : \A e \in store[n] : EntryOK(e))'
  BY <1>1 DEF StoreInv, TypeOK, EntryOK, Entry
<1>6. QED
  BY <1>1, <1>2, <1>4, <1>5 DEF StoreInv, OneTimeUse

LEMMA StoreNext ==
  ASSUME Ttl <= Retention
  PROVE  StoreInv /\ [Next]_popVars => StoreInv'
<1> SUFFICES ASSUME StoreInv, [Next]_popVars PROVE StoreInv'
  OBVIOUS
<1>1. ASSUME NEW n \in Nonces, IssueChallenge(n) PROVE StoreInv'
  BY <1>1, IssueStep
<1>2. ASSUME NEW c \in Calls, Retrieve(c) PROVE StoreInv'
  BY <1>2, RetrieveStep
<1>3. ASSUME NEW c \in Calls, VerifyAndConsume(c) PROVE StoreInv'
  BY <1>3, ConsumeStep
<1>4. CASE Cleanup
  BY <1>4, CleanupStep
<1>5. CASE Tick
  BY <1>5, TickStep
<1>6. CASE UNCHANGED popVars
  BY <1>6 DEF popVars, StoreInv, TypeOK, EntryOK, HoldsCopy, Expired, Accepted, OneTimeUse
<1>7. QED
  BY <1>1, <1>2, <1>3, <1>4, <1>5, <1>6 DEF Next, Settled

LEMMA StoreInductive ==
  ASSUME Ttl <= Retention
  PROVE  Spec => []StoreInv
<1>1. PopInit => StoreInv
  BY StoreInit
<1>2. StoreInv /\ [Next]_popVars => StoreInv'
  BY StoreNext
<1>3. QED
  BY <1>1, <1>2, PTL DEF Spec

(* MemoryOneTimeUse: no nonce is accepted twice, for any number of nonces   *)
(* and verifications and however their awaits and cleanups interleave.      *)
THEOREM MemoryOneTimeUse ==
  ASSUME Ttl <= Retention
  PROVE  Spec => []OneTimeUse
<1>1. StoreInv => OneTimeUse
  BY DEF StoreInv
<1>2. Spec => []StoreInv
  BY StoreInductive
<1>3. QED
  BY <1>1, <1>2, PTL
-----------------------------------------------------------------------------
(* The refinement: every step is a step of OneTimeNonce or leaves it alone  *)

LEMMA PromiseInit == PopInit => Promise!Init
BY DEF PopInit, Promise!Init, Live, Granted, Accepted

LEMMA LiveTyped == Live \subseteq Nonces
BY DEF Live

LEMMA IssuePromise ==
  ASSUME StoreInv, NEW n \in Nonces, IssueChallenge(n)
  PROVE  Promise!Issue(n)
<1> DEFINE new == [expires |-> now + Ttl, consumed |-> FALSE, at |-> 0]
<1>1. /\ n \in fresh /\ fresh' = fresh \ {n}
      /\ store' = [store EXCEPT ![n] = {new}]
      /\ UNCHANGED <<now, pc, nonce, genuine, snap, how>>
  BY DEF IssueChallenge, Put
<1>2. ~new.consumed /\ ~Expired(new)
  <2>1. now \in Nat /\ Ttl \in Nat
    BY PopAssumption DEF PopAssumption, StoreInv, TypeOK
  <2>2. QED
    BY <2>1 DEF Expired
<1> HIDE DEF new
<1>3. store'[n] = {new} /\ \A m \in Nonces : m # n => store'[m] = store[m]
  BY <1>1 DEF StoreInv, TypeOK
<1>4. Live' = Live \cup {n}
  BY <1>1, <1>2, <1>3 DEF Live, Expired
<1>5. Granted' = Granted
  BY <1>1 DEF Granted, Accepted
<1>6. QED
  BY <1>1, <1>4, <1>5 DEF Promise!Issue

(* Steps that accept nobody and store nothing new let nonces lapse.         *)
LEMMA LapsePromise ==
  ASSUME StoreInv, fresh' = fresh, nonce' = nonce, Accepted' = Accepted,
         \A n \in Nonces : store'[n] \subseteq store[n],
         now' = now \/ now' = now + 1
  PROVE  Promise!Lapse
<1>1. \A n \in Nonces : \A e \in store[n] : e.expires < now => e.expires < now'
  <2>1. now \in Nat /\ \A n \in Nonces : \A e \in store[n] : e.expires \in Nat
    BY DEF StoreInv, TypeOK, Entry
  <2>2. QED
    BY <2>1
<1>2. Live' \subseteq Live
  BY <1>1 DEF Live, Expired
<1>3. Granted' = Granted
  BY DEF Granted
<1>4. QED
  BY <1>2, <1>3 DEF Promise!Lapse

LEMMA AcceptPromise ==
  ASSUME StoreInv, NEW c \in Calls, VerifyAndConsume(c), Accept(c, "marked"),
         NEW e \in store[nonce[c]], ~e.consumed, ~Expired(e),
         Put(nonce[c], {Marked(e)})
  PROVE  Promise!Grant(c, nonce[c])
<1> DEFINE n == nonce[c]
<1>1. /\ n \in Nonces /\ pc[c] = "verifying"
      /\ UNCHANGED <<now, fresh, nonce>>
      /\ pc' = [pc EXCEPT ![c] = "accepted"]
      /\ store' = [store EXCEPT ![n] = {Marked(e)}]
  BY DEF VerifyAndConsume, Accept, Goto, Put, StoreInv, TypeOK
<1>2. n \in Live /\ Granted[c] = {}
  BY <1>1 DEF Live, Granted, Accepted
<1>3. store'[n] = {Marked(e)} /\ \A m \in Nonces : m # n => store'[m] = store[m]
  BY <1>1 DEF StoreInv, TypeOK
<1>4. Live' = Live \ {n}
  BY <1>1, <1>3 DEF Live, Expired, Marked
<1>5. Granted' = [Granted EXCEPT ![c] = {n}]
  <2>1. Accepted' = Accepted \cup {c} /\ c \notin Accepted
    BY <1>1 DEF Accepted, StoreInv, TypeOK
  <2>2. QED
    BY <1>1, <2>1 DEF Granted
<1>6. QED
  BY <1>1, <1>2, <1>4, <1>5 DEF Promise!Grant

LEMMA PromiseNext ==
  ASSUME Ttl <= Retention
  PROVE  StoreInv /\ [Next]_popVars
           => [Promise!Next]_<<fresh, Live, Granted>>
<1> SUFFICES ASSUME StoreInv, [Next]_popVars
             PROVE  Promise!Next \/ UNCHANGED <<fresh, Live, Granted>>
  OBVIOUS
<1>1. ASSUME NEW n \in Nonces, IssueChallenge(n) PROVE Promise!Next
  BY <1>1, IssuePromise DEF Promise!Next
<1>2. ASSUME NEW c \in Calls, Retrieve(c) PROVE Promise!Next
  <2>1. Accepted' = Accepted /\ \A n \in Nonces : store'[n] \subseteq store[n]
    BY <1>2 DEF Retrieve, Put, Reject, Goto, Accepted, StoreInv, TypeOK
  <2>2. fresh' = fresh /\ nonce' = nonce /\ now' = now
    BY <1>2 DEF Retrieve
  <2>3. QED
    BY <2>1, <2>2, LapsePromise DEF Promise!Next
<1>3. ASSUME NEW c \in Calls, VerifyAndConsume(c) PROVE Promise!Next
  <2>1. CASE /\ \E e \in store[nonce[c]] :
                  ~e.consumed /\ ~Expired(e) /\ Put(nonce[c], {Marked(e)})
             /\ Accept(c, "marked")
    <3>1. nonce[c] \in Nonces
      BY DEF StoreInv, TypeOK
    <3>2. QED
      BY <1>3, <2>1, <3>1, AcceptPromise DEF Promise!Next
  <2>2. CASE /\ Reject(c)
             /\ store' \in {store, [store EXCEPT ![nonce[c]] = {}]}
    <3>1. /\ pc[c] = "verifying" /\ pc' = [pc EXCEPT ![c] = "rejected"]
          /\ fresh' = fresh /\ nonce' = nonce /\ now' = now
      BY <1>3, <2>2 DEF VerifyAndConsume, Reject, Goto
    <3>2. Accepted' = Accepted /\ \A n \in Nonces : store'[n] \subseteq store[n]
      BY <2>2, <3>1 DEF Accepted, StoreInv, TypeOK
    <3>3. QED
      BY <3>1, <3>2, LapsePromise DEF Promise!Next
  <2>3. QED
    BY <1>3, <2>1, <2>2, ConsumeStep
<1>4. CASE Cleanup
  <2>1. fresh' = fresh /\ nonce' = nonce /\ now' = now /\ Accepted' = Accepted
    BY <1>4 DEF Cleanup, Accepted
  <2>2. QED
    BY <1>4, <2>1, CleanupStep, LapsePromise DEF Promise!Next
<1>5. CASE Tick
  <2>1. /\ fresh' = fresh /\ nonce' = nonce /\ now' = now + 1 /\ store' = store
        /\ Accepted' = Accepted
    BY <1>5 DEF Tick, Accepted
  <2>2. QED
    BY <2>1, LapsePromise DEF Promise!Next
<1>6. CASE UNCHANGED popVars
  BY <1>6 DEF popVars, Live, Granted, Accepted, Expired
<1>7. QED
  BY <1>1, <1>2, <1>3, <1>4, <1>5, <1>6 DEF Next, Settled

(* MemoryKeepsPromise: the memory store implements OneTimeNonce: a nonce is *)
(* granted while it is live, once, and never again.                         *)
THEOREM MemoryKeepsPromise ==
  ASSUME Ttl <= Retention
  PROVE  Spec => KeepsPromise
<1>1. PopInit => Promise!Init
  BY PromiseInit
<1>2. StoreInv /\ [Next]_popVars => [Promise!Next]_<<fresh, Live, Granted>>
  BY PromiseNext
<1>3. Spec => []StoreInv
  BY StoreInductive
<1>4. QED
  BY <1>1, <1>2, <1>3, PTL DEF Spec, KeepsPromise, Promise!Spec
=============================================================================
