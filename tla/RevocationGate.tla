--------------------------- MODULE RevocationGate ---------------------------
(***************************************************************************)
(* The Cline plugin (src/cline-plugin-uta/index.js): a tool call on a      *)
(* wrapped server passes the veto filter and then the revocation gate,     *)
(* which asks the OCSP responder or takes the answer it cached.  Calls     *)
(* await their lookups at the same time.                                   *)
(***************************************************************************)
EXTENDS WallClock, FiniteSets

CONSTANTS
  GateCalls,      \* tools/call requests
  GateTtl,        \* REVOC_TTL_MS
  GateTimeout     \* the abort of a lookup

ASSUME GateAssumption == GateTtl \in Nat \ {0} /\ GateTimeout \in Nat

Never == MaxClock + 1

VARIABLES
  gateCall,      \* gateCall[c]: "new", "asking", "answered", "forwarded", "denied"
  gateSent,      \* gateSent[c]: when its lookup began
  gateAnswer,    \* gateAnswer[c]: what the responder answered: "PERMIT" or "DENY"
  gateCache,     \* revocCache: at most one [rec, at]
  gateRevoked    \* when the card or key of the server was revoked

gateOwn  == <<gateCall, gateSent, gateAnswer, gateCache, gateRevoked>>
gateVars == <<clock, gateOwn>>

GateInit ==
  /\ gateCall = [c \in GateCalls |-> "new"]
  /\ gateSent = [c \in GateCalls |-> 0]
  /\ gateAnswer = [c \in GateCalls |-> "DENY"]
  /\ gateCache = {}
  /\ gateRevoked = Never

Revoked == gateRevoked <= clock

(* The registry revokes the card                                            *)
Revoke ==
  /\ ~Revoked
  /\ gateRevoked' = clock
  /\ UNCHANGED <<clock, gateCall, gateSent, gateAnswer, gateCache>>

Settle(c, rec) ==
  gateCall' = [gateCall EXCEPT ![c] = IF rec = "PERMIT" THEN "forwarded" ELSE "denied"]

(* The filter vetoes the call                                               *)
Veto(c) ==
  /\ gateCall[c] = "new"
  /\ Settle(c, "DENY")
  /\ UNCHANGED <<clock, gateSent, gateAnswer, gateCache, gateRevoked>>

Usable(e) == clock - e.at < GateTtl

(* Slip: a hit of the cache renews the entry. *)
HitRenews(c) ==
  /\ gateCall[c] = "new"
  /\ \E e \in gateCache :
       Usable(e) /\ Settle(c, e.rec) /\ gateCache' = {[e EXCEPT !.at = clock]}
  /\ UNCHANGED <<clock, gateSent, gateAnswer, gateRevoked>>

FromCache(c) ==
  /\ gateCall[c] = "new"
  /\ \E e \in gateCache : Usable(e) /\ Settle(c, e.rec)
  /\ UNCHANGED <<clock, gateSent, gateAnswer, gateCache, gateRevoked>>

Lookup(c) ==
  /\ gateCall[c] = "new"
  /\ \A e \in gateCache : ~Usable(e)
  /\ gateCall' = [gateCall EXCEPT ![c] = "asking"]
  /\ gateSent' = [gateSent EXCEPT ![c] = clock]
  /\ UNCHANGED <<clock, gateAnswer, gateCache, gateRevoked>>

(* The responder looks at the registry; its answer is on the way            *)
ResponderAnswers(c) ==
  /\ gateCall[c] = "asking"
  /\ gateCall' = [gateCall EXCEPT ![c] = "answered"]
  /\ gateAnswer' = [gateAnswer EXCEPT ![c] = IF Revoked THEN "DENY" ELSE "PERMIT"]
  /\ UNCHANGED <<clock, gateSent, gateCache, gateRevoked>>

(* What a lookup yields is cached whatever the cache holds by now           *)
Cache(c, rec) ==
  /\ gateCache' = {[rec |-> rec, at |-> clock]}
  /\ Settle(c, rec)
  /\ UNCHANGED <<clock, gateSent, gateAnswer, gateRevoked>>

AnswerArrives(c) ==
  /\ gateCall[c] = "answered"
  /\ clock <= gateSent[c] + GateTimeout
  /\ Cache(c, gateAnswer[c])

(* The abort, an unreachable responder, or an error status: fail closed     *)
LookupFails(c) == gateCall[c] \in {"asking", "answered"} /\ Cache(c, "DENY")

GateNext ==
  \/ \E c \in GateCalls :
       \/ Veto(c) \/ FromCache(c) \/ Lookup(c)
       \/ ResponderAnswers(c) \/ AnswerArrives(c) \/ LookupFails(c)
  \/ Revoke
  \/ TimePasses /\ UNCHANGED gateOwn

GateSpec == ClockInit /\ GateInit /\ [][GateNext]_gateVars
-----------------------------------------------------------------------------
(* The answer that arrives last is the one cached, also when an earlier      *)
(* lookup already cached a refusal: still no call is forwarded once the      *)
(* revocation is older than the life of a cache entry and the time limit of  *)
(* a lookup together.                                                        *)
PermitIsRecent ==
  [][\A c \in GateCalls :
       gateCall[c] # "forwarded" /\ gateCall'[c] = "forwarded"
         => clock < gateRevoked + GateTtl + GateTimeout]_gateVars
=============================================================================
