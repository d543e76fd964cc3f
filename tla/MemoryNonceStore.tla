-------------------------- MODULE MemoryNonceStore --------------------------
(***************************************************************************)
(* PoPManager over MemoryNonceStore.  The bodies of retrieve and consume   *)
(* run without an await, so that each is one step; consume runs in the     *)
(* same step as the checks before it.                                      *)
(***************************************************************************)
EXTENDS PopManager

(* retrieve: an expired challenge is deleted and not returned               *)
Retrieve(c) ==
  LET n    == nonce[c]
      gone == store[n] = {} \/ \E e \in store[n] : Expired(e)
  IN /\ pc[c] = "idle"
     /\ IF gone
          THEN Put(n, {}) /\ Reject(c) /\ UNCHANGED snap
          ELSE /\ snap' = [snap EXCEPT ![c] = store[n]]
               /\ Goto(c, "verifying")
               /\ UNCHANGED <<store, how>>
     /\ UNCHANGED <<now, fresh, nonce, genuine>>

(* Slip: the retrieved copy is consulted instead of the stored challenge. *)
ConsumeSnapshot(c) ==
  LET n == nonce[c] IN
  \E e \in snap[c] :
    \/ e.consumed /\ Reject(c) /\ UNCHANGED store
    \/ ~e.consumed /\ Put(n, {Marked(e)}) /\ Accept(c, "marked")

(* Slip: the challenge is not marked. *)
ConsumeUnmarked(c) ==
  LET n == nonce[c] IN
  /\ UNCHANGED store
  /\ \/ store[n] = {} /\ Accept(c, "null")
     \/ \E e \in store[n] :
          \/ (e.consumed \/ Expired(e)) /\ Reject(c)
          \/ ~e.consumed /\ ~Expired(e) /\ Accept(c, "marked")

(* consume: nothing found, found consumed, found expired, or marked         *)
Consume(c) ==
  LET n == nonce[c] IN
  \/ store[n] = {} /\ Accept(c, "null") /\ UNCHANGED store
  \/ \E e \in store[n] :
       \/ e.consumed /\ Reject(c) /\ UNCHANGED store
       \/ ~e.consumed /\ Expired(e) /\ Put(n, {}) /\ Reject(c)
       \/ ~e.consumed /\ ~Expired(e) /\ Put(n, {Marked(e)}) /\ Accept(c, "marked")

VerifyAndConsume(c) ==
  /\ pc[c] = "verifying"
  /\ \/ ~Valid(c) /\ Reject(c) /\ UNCHANGED store
     \/ Valid(c) /\ Consume(c)
  /\ UNCHANGED <<now, fresh, nonce, genuine, snap>>

(* cleanup: expired challenges, and consumed ones after the retention time  *)
Cleanup ==
  /\ Drop({n \in Nonces : \E e \in store[n] :
             Expired(e) \/ (e.consumed /\ now > e.at + Retention)})
  /\ UNCHANGED <<now, fresh, pc, nonce, genuine, snap, how>>

Next ==
  \/ \E n \in Nonces : IssueChallenge(n)
  \/ \E c \in Calls : Retrieve(c) \/ VerifyAndConsume(c)
  \/ Cleanup
  \/ Tick
  \/ Settled

Spec == PopInit /\ [][Next]_popVars
-----------------------------------------------------------------------------
(* The memory store keeps the promise of OneTimeNonce: a nonce is usable    *)
(* while its challenge is stored, unconsumed and unexpired.                 *)
Live == {n \in Nonces : \E e \in store[n] : ~e.consumed /\ ~Expired(e)}
Granted == [c \in Calls |-> IF c \in Accepted THEN {nonce[c]} ELSE {}]

Promise == INSTANCE OneTimeNonce WITH live <- Live, granted <- Granted

(* Every behaviour of PoPManager over the memory store is one of            *)
(* OneTimeNonce: grants go to live nonces and spend them.                   *)
KeepsPromise == Promise!Spec
=============================================================================
