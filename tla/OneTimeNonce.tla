---------------------------- MODULE OneTimeNonce ----------------------------
(***************************************************************************)
(* What a proof-of-possession challenge promises, whatever store keeps it: *)
(* a nonce is issued once, usable until it is spent or lapses, and granted *)
(* to one verification at most ("one-time use", nonce-store.ts).           *)
(***************************************************************************)
CONSTANTS Nonces, Calls

VARIABLES
  fresh,     \* nonces not issued yet
  live,      \* nonces issued, neither granted nor lapsed
  granted    \* granted[c]: the nonces verification c was granted

Init ==
  /\ fresh = Nonces
  /\ live = {}
  /\ granted = [c \in Calls |-> {}]

Issue(n) ==
  /\ n \in fresh
  /\ fresh' = fresh \ {n}
  /\ live' = live \cup {n}
  /\ UNCHANGED granted

Grant(c, n) ==
  /\ n \in live
  /\ granted[c] = {}
  /\ live' = live \ {n}
  /\ granted' = [granted EXCEPT ![c] = {n}]
  /\ UNCHANGED fresh

Lapse ==
  /\ live' \subseteq live
  /\ UNCHANGED <<fresh, granted>>

Next ==
  \/ \E n \in Nonces : Issue(n)
  \/ \E c \in Calls, n \in Nonces : Grant(c, n)
  \/ Lapse

Spec == Init /\ [][Next]_<<fresh, live, granted>>
=============================================================================
