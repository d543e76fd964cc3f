--------------------------- MODULE RedisNonceStore ---------------------------
(***************************************************************************)
(* PoPManager over RedisNonceStore: every call is a REST request whose     *)
(* effect and answer fall between two steps of the verification.  retrieve *)
(* does not look at the expiry, consume is a GET followed by a SET, and    *)
(* neither looks at the HTTP status of the answer.                         *)
(***************************************************************************)
EXTENDS PopManager

CONSTANT Grace   \* extra lifetime of a stored key (60 seconds)

Retrieve(c) ==
  /\ pc[c] = "idle"
  /\ Goto(c, "reading")
  /\ UNCHANGED <<now, fresh, store, nonce, genuine, snap, how>>

(* The GET of retrieve is answered: with the value, or with something that  *)
(* has no result, which verifyAndConsume takes for an unknown nonce.        *)
GetAnswered(c) ==
  /\ pc[c] = "reading"
  /\ \/ /\ store[nonce[c]] # {}
        /\ snap' = [snap EXCEPT ![c] = store[nonce[c]]]
        /\ Goto(c, "verifying")
        /\ UNCHANGED how
     \/ Reject(c) /\ UNCHANGED snap
  /\ UNCHANGED <<now, fresh, store, nonce, genuine>>

Verify(c) ==
  /\ pc[c] = "verifying"
  /\ \/ Valid(c) /\ Goto(c, "rereading") /\ UNCHANGED how
     \/ ~Valid(c) /\ Reject(c)
  /\ UNCHANGED <<now, fresh, store, nonce, genuine, snap>>

(* The GET of consume is answered: with the value or without a result (an   *)
(* unknown key, an error body), or it throws.                               *)
ConsumeGetAnswered(c) ==
  /\ pc[c] = "rereading"
  /\ \/ \E S \in {store[nonce[c]], {}} :
          snap' = [snap EXCEPT ![c] = S] /\ Goto(c, "deciding") /\ UNCHANGED how
     \/ Reject(c) /\ UNCHANGED snap
  /\ UNCHANGED <<now, fresh, store, nonce, genuine>>

(* consume after its GET; the DEL of an expired key is awaited              *)
ConsumeDecides(c) ==
  /\ pc[c] = "deciding"
  /\ \/ snap[c] = {} /\ Accept(c, "null") /\ UNCHANGED <<store, snap>>
     \/ \E e \in snap[c] :
          \/ e.consumed /\ Reject(c) /\ UNCHANGED <<store, snap>>
          \/ ~e.consumed /\ Expired(e) /\ Put(nonce[c], {}) /\ Reject(c)
             /\ UNCHANGED snap
          \/ /\ ~e.consumed /\ ~Expired(e)
             /\ Goto(c, "marking")
             /\ snap' = [snap EXCEPT ![c] = {Marked(e)}]
             /\ UNCHANGED <<store, how>>
  /\ UNCHANGED <<now, fresh, nonce, genuine>>

(* The SET: it is carried out or not, and answered or not; only a request   *)
(* that throws is noticed.                                                  *)
SetAnswered(c) ==
  /\ pc[c] = "marking"
  /\ Put(nonce[c], snap[c]) \/ UNCHANGED store
  /\ Accept(c, "marked") \/ Reject(c)
  /\ UNCHANGED <<now, fresh, nonce, genuine, snap>>

(* Redis removes a key at the end of its lifetime.                          *)
Evict(n) ==
  /\ \E e \in store[n] :
       now > e.expires + (IF e.consumed THEN Retention ELSE Grace)
  /\ Put(n, {})
  /\ UNCHANGED <<now, fresh, pc, nonce, genuine, snap, how>>

Next ==
  \/ \E n \in Nonces : IssueChallenge(n) \/ Evict(n)
  \/ \E c \in Calls :
       \/ Retrieve(c) \/ GetAnswered(c) \/ Verify(c)
       \/ ConsumeGetAnswered(c) \/ ConsumeDecides(c) \/ SetAnswered(c)
  \/ Tick
  \/ Settled

Spec == PopInit /\ [][Next]_popVars
=============================================================================
