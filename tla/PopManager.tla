----------------------------- MODULE PopManager -----------------------------
(***************************************************************************)
(* PoPManager (core/nonce-store.ts): issueChallenge stores a challenge,    *)
(* verifyAndConsume retrieves it, compares it with the response, verifies  *)
(* the signature and consumes it.  Every call of the store and the import  *)
(* of the crypto module is awaited, so that verifications interleave.  The *)
(* three stores supply the rest: MemoryNonceStore, RedisNonceStore and     *)
(* SupabaseNonceStore each add their steps to this state.                  *)
(***************************************************************************)
EXTENDS Naturals, FiniteSets

CONSTANTS
  Nonces,      \* nonces issueChallenge draws; it never draws one twice
  Calls,       \* invocations of verifyAndConsume, each made at most once
  Ttl,         \* challengeTtlMs, in ticks
  Retention,   \* how long a consumed challenge is kept (one hour)
  MaxTime      \* bound of the clock

ASSUME PopAssumption ==
  /\ Ttl \in Nat
  /\ Retention \in Nat
  /\ MaxTime \in Nat

VARIABLES
  now,      \* the clock
  fresh,    \* nonces not drawn yet
  store,    \* store[n]: the stored challenge of n, as a set of at most one
  pc,       \* pc[c]: where verification c is suspended
  nonce,    \* nonce[c]: the nonce its response names
  genuine,  \* genuine[c]: do credential, audience, timestamp and signature
            \* of the response match the challenge?
  snap,     \* snap[c]: what the store last returned to c, as such a set
  how       \* how[c]: how c was accepted: "marked" the challenge, or "null"
            \* when consume found no challenge to mark

popVars == <<now, fresh, store, pc, nonce, genuine, snap, how>>

Entry == [expires: Nat, consumed: BOOLEAN, at: Nat]
Expired(e) == e.expires < now

PopInit ==
  /\ now = 0
  /\ fresh = Nonces
  /\ store = [n \in Nonces |-> {}]
  /\ pc = [c \in Calls |-> "idle"]
  /\ nonce \in [Calls -> Nonces]
  /\ genuine \in [Calls -> BOOLEAN]
  /\ snap = [c \in Calls |-> {}]
  /\ how = [c \in Calls |-> "none"]

Goto(c, where) == pc' = [pc EXCEPT ![c] = where]
Put(n, E)      == store' = [store EXCEPT ![n] = E]
Drop(N)        == store' = [n \in Nonces |-> IF n \in N THEN {} ELSE store[n]]

Reject(c) == Goto(c, "rejected") /\ UNCHANGED how

(* verifyAndConsume returns true, also when consume returned null           *)
Accept(c, by) == Goto(c, "accepted") /\ how' = [how EXCEPT ![c] = by]

Marked(e) == [expires |-> e.expires, consumed |-> TRUE, at |-> now]

IssueChallenge(n) ==
  /\ n \in fresh
  /\ fresh' = fresh \ {n}
  /\ Put(n, {[expires |-> now + Ttl, consumed |-> FALSE, at |-> 0]})
  /\ UNCHANGED <<now, pc, nonce, genuine, snap, how>>

(* The comparisons of verifyAndConsume and the checks of verifyPoP on the   *)
(* challenge that was retrieved                                             *)
Valid(c) == genuine[c] /\ \A e \in snap[c] : ~Expired(e)

Tick ==
  /\ now < MaxTime
  /\ now' = now + 1
  /\ UNCHANGED <<fresh, store, pc, nonce, genuine, snap, how>>

Settled == (\A c \in Calls : pc[c] \in {"accepted", "rejected"}) /\ UNCHANGED popVars
-----------------------------------------------------------------------------
(* Properties                                                               *)

(* Every variable has its type; a store holds one challenge per nonce.      *)
TypeOK ==
  /\ now \in 0 .. MaxTime
  /\ fresh \subseteq Nonces
  /\ store \in [Nonces -> SUBSET Entry]
  /\ pc \in [Calls -> {"idle", "reading", "read", "verifying", "rereading",
                       "deciding", "marking", "accepted", "rejected"}]
  /\ nonce \in [Calls -> Nonces]
  /\ genuine \in [Calls -> BOOLEAN]
  /\ snap \in [Calls -> SUBSET Entry]
  /\ how \in [Calls -> {"none", "marked", "null"}]

Accepted == {c \in Calls : pc[c] = "accepted"}

(* One-time use: no two verifications are accepted for the same nonce,      *)
(* however their awaits interleave.                                         *)
OneTimeUse == \A c, d \in Accepted : nonce[c] = nonce[d] => c = d

(* consume marks a challenge for one caller only: of two verifications that *)
(* found it in the store, one is refused.                                   *)
MarkedOnce ==
  \A c, d \in Accepted :
    nonce[c] = nonce[d] /\ how[c] = "marked" /\ how[d] = "marked" => c = d

=============================================================================
