------------------------- MODULE SupabaseNonceStore -------------------------
(***************************************************************************)
(* PoPManager over SupabaseNonceStore (packages/persistence/src/           *)
(* supabase.ts): consume retrieves again and then updates the row only     *)
(* where it is still unconsumed.  retrieve returns null for an expired     *)
(* row and deletes it.                                                     *)
(***************************************************************************)
EXTENDS PopManager

VARIABLE lapse   \* history: lapse[n], when the challenge issued for n expires,
                 \* as a set of at most one

supVars == <<popVars, lapse>>

SupInit == PopInit /\ lapse = [n \in Nonces |-> {}]

(* The insert of issueChallenge; the row may be gone later, its date stays   *)
(* in the history.                                                          *)
IssueRow(n) ==
  /\ IssueChallenge(n)
  /\ lapse' = [lapse EXCEPT ![n] = {now + Ttl}]

Retrieve(c) ==
  /\ pc[c] = "idle"
  /\ Goto(c, "reading")
  /\ UNCHANGED <<now, fresh, store, nonce, genuine, snap, how>>

(* The select of either retrieve is carried out; an error throws.           *)
SelectAnswered(c) ==
  /\ pc[c] \in {"reading", "rereading"}
  /\ \/ /\ snap' = [snap EXCEPT ![c] = store[nonce[c]]]
        /\ Goto(c, IF pc[c] = "reading" THEN "read" ELSE "deciding")
        /\ UNCHANGED how
     \/ Reject(c) /\ UNCHANGED snap
  /\ UNCHANGED <<now, fresh, store, nonce, genuine>>

(* Does retrieve return null?  The delete of an expired row may fail.       *)
Null(c) == snap[c] = {} \/ \E e \in snap[c] : Expired(e)
DeleteExpired(c) == Put(nonce[c], {}) \/ UNCHANGED store

(* The first retrieve returns to verifyAndConsume.                          *)
Retrieved(c) ==
  /\ pc[c] = "read"
  /\ \/ /\ Null(c)
        /\ IF snap[c] = {} THEN UNCHANGED store ELSE DeleteExpired(c)
        /\ Reject(c)
     \/ ~Null(c) /\ Goto(c, "verifying") /\ UNCHANGED <<store, how>>
  /\ UNCHANGED <<now, fresh, nonce, genuine, snap>>

Verify(c) ==
  /\ pc[c] = "verifying"
  /\ \/ Valid(c) /\ Goto(c, "rereading") /\ UNCHANGED how
     \/ ~Valid(c) /\ Reject(c)
  /\ UNCHANGED <<now, fresh, store, nonce, genuine, snap>>

(* consume after its retrieve                                               *)
ConsumeDecides(c) ==
  /\ pc[c] = "deciding"
  /\ \/ /\ Null(c)
        /\ IF snap[c] = {} THEN UNCHANGED store ELSE DeleteExpired(c)
        /\ Accept(c, "null")
     \/ /\ ~Null(c)
        /\ \E e \in snap[c] : e.consumed
        /\ Reject(c)
        /\ UNCHANGED store
     \/ /\ ~Null(c)
        /\ \A e \in snap[c] : ~e.consumed
        /\ Goto(c, "marking")
        /\ UNCHANGED <<store, how>>
  /\ UNCHANGED <<now, fresh, nonce, genuine, snap>>

(* Slip: the update is not conditional on consumed. *)
UpdateAnyRow(c) ==
  /\ pc[c] = "marking"
  /\ \E e \in store[nonce[c]] : Put(nonce[c], {Marked(e)}) /\ Accept(c, "marked")
  /\ UNCHANGED <<now, fresh, nonce, genuine, snap>>

(* The conditional update: one row or none, or an error whose effect on the *)
(* row is not known.                                                        *)
UpdateAnswered(c) ==
  /\ pc[c] = "marking"
  /\ \/ \E e \in store[nonce[c]] :
          ~e.consumed /\ Put(nonce[c], {Marked(e)}) /\ (Accept(c, "marked") \/ Reject(c))
     \/ UNCHANGED store /\ Reject(c)
  /\ UNCHANGED <<now, fresh, nonce, genuine, snap>>

(* Slip: consumed rows are removed before they expire. *)
CleanupConsumed ==
  /\ Drop({n \in Nonces : \E e \in store[n] : Expired(e) \/ e.consumed})
  /\ UNCHANGED <<now, fresh, pc, nonce, genuine, snap, how>>

(* cleanup: every expired row                                               *)
Cleanup ==
  /\ Drop({n \in Nonces : \E e \in store[n] : Expired(e)})
  /\ UNCHANGED <<now, fresh, pc, nonce, genuine, snap, how>>

Next ==
  \/ \E n \in Nonces : IssueRow(n)
  \/ /\ \/ \E c \in Calls :
             \/ Retrieve(c) \/ SelectAnswered(c) \/ Retrieved(c) \/ Verify(c)
             \/ ConsumeDecides(c) \/ UpdateAnswered(c)
        \/ Cleanup
        \/ Tick
        \/ Settled
     /\ UNCHANGED lapse

Spec == SupInit /\ [][Next]_supVars

(* An acceptance without a mark, where consume found no row, happens only   *)
(* once the challenge that was issued for the nonce has expired, whoever    *)
(* deleted the row and whether or not it had been consumed: until then one  *)
(* verification at most is accepted.                                        *)
NullOnlyAfterExpiry ==
  [][\A c \in Calls : how[c] = "none" /\ how'[c] = "null" =>
       \E t \in lapse[nonce[c]] : t < now]_supVars
=============================================================================
