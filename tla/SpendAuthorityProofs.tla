------------------------ MODULE SpendAuthorityProofs ------------------------
(***************************************************************************)
(* What the spending authority promises its host, proved for every set of  *)
(* calls, operations and attempts, any number of restarts, and whenever    *)
(* the deadline fires.                                                     *)
(***************************************************************************)
EXTENDS SpendAuthority, SpendHookProofs

LEMMA AnswerOfType == ASSUME NEW decision PROVE AnswerOf(decision) \in Answers
BY DEF AnswerOf, Answers

LEMMA ResolveType ==
  ASSUME AuthTypeOK, NEW c \in Calls, NEW waiting \in BOOLEAN
  PROVE  Resolve(c, waiting) \in Answers \cup {"idle", "waiting", "lost"}
BY AnswerOfType DEF Resolve, AuthTypeOK

LEMMA KeyType ==
  ASSUME AuthTypeOK, NEW c \in Calls
  PROVE  Key(c) \in Keys /\ Claim(c) \in Claims
<1>1. op[c] \in Op /\ request[c] \in Request
  BY DEF AuthTypeOK, TypeOK
<1>2. QED
  BY <1>1 DEF Op, Request, Key, Keys, Claim, Claims

(* The steps of the authority, by what they do to the hook.                 *)
LEMMA HookSteps ==
  /\ \A c \in Calls : Submit(c) => Authorize(c) \/ UNCHANGED hookVars
  /\ \A c \in Calls : HookMoves(c) =>
       \/ \E r \in Replies : VerifyReply(c, r)
       \/ SkipRevocation(c) \/ RevocationReply(c) \/ RevocationDown(c)
  /\ Environment => [Next]_hookVars
BY DEF Submit, HookMoves, Environment, Next

LEMMA HookTyped ==
  ASSUME AuthTypeOK, [AuthNext]_vars
  PROVE  TypeOK'
<1>1. TypeOK
  BY DEF AuthTypeOK
<1>2. CASE [Next]_hookVars
  BY <1>1, <1>2, TypeNext
<1>3. CASE Restart
  <2>1. /\ pc' \in [Calls -> {"idle", "verify", "revocation", "done"}]
        /\ spentAll' \in Nat /\ spentOn' \in [Agents -> [Days -> Nat]]
        /\ UNCHANGED <<now, op, outcome, verdicts, evidence, revoked, lookup, late>>
    BY <1>1, <1>3 DEF Restart, TypeOK
  <2>2. QED
    BY <1>1, <2>1 DEF TypeOK
<1>4. ASSUME NEW c \in Calls, HookMoves(c) PROVE [Next]_hookVars
  BY <1>4, HookSteps DEF Next
<1>5. ASSUME NEW c \in Calls, Submit(c) PROVE [Next]_hookVars
  BY <1>5, HookSteps DEF Next
<1>6. QED
  BY <1>2, <1>3, <1>4, <1>5, HookSteps DEF AuthNext, Deadline, Settled, vars

(* Submit binds the claim of its own operation, to itself, and only when    *)
(* the guard lets it; no other step of a living process binds anything.     *)
LEMMA SubmitBinds ==
  ASSUME AuthTypeOK, NEW c \in Calls, Submit(c)
  PROVE  /\ host[c] = "idle" /\ UNCHANGED <<request, restarts>>
         /\ life' = [life EXCEPT ![c] = restarts]
         /\ host' \in [Calls -> Answers \cup {"idle", "waiting", "lost"}]
         /\ host'[c] # "idle" /\ \A d \in Calls \ {c} : host'[d] = host[d]
         /\ \/ UNCHANGED claimed /\ UNCHANGED hookVars
            \/ /\ GuardPasses(c)
               /\ claimed' = [claimed EXCEPT ![Key(c)] = {Claim(c)}]
               /\ UNCHANGED hookVars \/ Authorize(c)
<1>1. Resolve(c, TRUE) \in Answers \cup {"waiting"}
  BY AnswerOfType DEF Resolve
<1>2. \E a \in Answers \cup {"waiting"} : host' = [host EXCEPT ![c] = a]
  BY <1>1 DEF Submit, Answers
<1>3. "idle" \notin Answers \cup {"waiting"}
  BY DEF Answers
<1>4. QED
  BY <1>2, <1>3 DEF Submit, Bind, AuthTypeOK

LEMMA AuthTypeInit == AuthInit => AuthTypeOK
BY TypeInit, AuthorityAssumption DEF AuthInit, AuthTypeOK, AuthorityAssumption

LEMMA AuthTypeNext == AuthTypeOK /\ [AuthNext]_vars => AuthTypeOK'
<1> SUFFICES ASSUME AuthTypeOK, [AuthNext]_vars PROVE AuthTypeOK'
  OBVIOUS
<1>1. TypeOK'
  BY HookTyped
<1>2. restarts \in Nat /\ MaxRestarts \in Nat /\ restarts <= MaxRestarts
  BY AuthorityAssumption DEF AuthTypeOK, AuthorityAssumption
<1>3. ASSUME NEW c \in Calls, Submit(c) PROVE AuthTypeOK'
  <2>1. Key(c) \in Keys /\ Claim(c) \in Claims
    BY KeyType
  <2>2. claimed' \in [Keys -> SUBSET Claims]
    BY <1>3, <2>1, SubmitBinds DEF AuthTypeOK
  <2>3. life' \in [Calls -> 0 .. MaxRestarts]
    BY <1>3, SubmitBinds DEF AuthTypeOK
  <2>4. QED
    BY <1>1, <1>3, <2>2, <2>3, SubmitBinds DEF AuthTypeOK
<1>4. ASSUME NEW c \in Calls, HookMoves(c) PROVE AuthTypeOK'
  BY <1>1, <1>4, ResolveType DEF HookMoves, AuthTypeOK
<1>5. ASSUME NEW c \in Calls, Deadline(c) PROVE AuthTypeOK'
  BY <1>1, <1>5 DEF Deadline, AuthTypeOK, Answers
<1>6. CASE Restart
  <2>1. restarts' \in 0 .. MaxRestarts
    BY <1>2, <1>6 DEF Restart
  <2>2. QED
    BY <1>1, <1>6, <2>1 DEF Restart, AuthTypeOK
<1>7. CASE UNCHANGED <<request, claimed, host, restarts, life>>
  BY <1>1, <1>7 DEF AuthTypeOK
<1>8. QED
  BY <1>3, <1>4, <1>5, <1>6, <1>7 DEF AuthNext, Environment, Settled, vars
-----------------------------------------------------------------------------
(* The strengthening: the claim of a pursued operation is in the guard as   *)
(* long as the process that pursued it lives, and an outcome is final.      *)
ClaimHeld ==
  \A c \in Pursued : life[c] = restarts => claimed[Key(c)] = {Claim(c)}

AuthInv ==
  /\ AuthTypeOK
  /\ \A c \in Calls : life[c] <= restarts
  /\ \A c \in Calls : host[c] = "idle" => pc[c] = "idle"
  /\ \A c \in Calls : pc[c] # "done" => outcome[c] = "none"
  /\ ClaimHeld
  /\ OneAttemptPerOperation
  /\ AllowIsHooksAllow

LEMMA AuthInvInit == AuthInit => AuthInv
BY AuthTypeInit DEF AuthInit, Init, AuthInv, ClaimHeld, Pursued, OneAttemptPerOperation,
   AllowIsHooksAllow

(* What a step of call c in the hook does to the control of the calls.      *)
LEMMA HookControl ==
  ASSUME TypeOK, NEW c \in Calls,
         \/ Authorize(c)
         \/ \E r \in Replies : VerifyReply(c, r)
         \/ SkipRevocation(c) \/ RevocationReply(c) \/ RevocationDown(c)
  PROVE  /\ op' = op
         /\ pc[c] \in {"idle", "verify", "revocation"}
         /\ Authorize(c) <=> pc[c] = "idle"
         /\ \A d \in Calls \ {c} : pc'[d] = pc[d] /\ outcome'[d] = outcome[d]
         /\ pc'[c] \in {"verify", "revocation", "done"}
         /\ pc'[c] # "done" => outcome'[c] = outcome[c]
<1>1. op' = op /\ pc[c] \in {"idle", "verify", "revocation"} /\ (Authorize(c) <=> pc[c] = "idle")
  BY DEF Authorize, VerifyReply, SkipRevocation, RevocationReply, RevocationDown
<1>2. \/ UNCHANGED outcome /\ pc' \in {[pc EXCEPT ![c] = "verify"], [pc EXCEPT ![c] = "revocation"]}
      \/ pc' = [pc EXCEPT ![c] = "done"] /\ \E how : outcome' = [outcome EXCEPT ![c] = how]
  BY DEF Authorize, VerifyReply, SkipRevocation, RevocationReply, RevocationDown, Allow, Deny, Finish
<1>3. QED
  BY <1>1, <1>2 DEF TypeOK

(* AnswerOf is allow for the hook's allow alone.                            *)
LEMMA AllowAnswer == ASSUME NEW decision, AnswerOf(decision) = "allow" PROVE decision = "allow"
BY DEF AnswerOf

LEMMA SubmitStep ==
  ASSUME AuthInv, NEW c \in Calls, Submit(c), AuthTypeOK'
  PROVE  AuthInv'
<1>1. AuthTypeOK /\ TypeOK /\ AuthTypeOK'
  BY DEF AuthInv, AuthTypeOK
<1>2. /\ host[c] = "idle" /\ UNCHANGED <<request, restarts>>
      /\ life' = [life EXCEPT ![c] = restarts]
      /\ host'[c] # "idle" /\ \A d \in Calls \ {c} : host'[d] = host[d]
  BY <1>1, SubmitBinds
<1>3. pc[c] = "idle" /\ outcome[c] = "none"
  BY <1>2 DEF AuthInv
<1>4. restarts \in Nat /\ life'[c] = restarts /\ \A d \in Calls \ {c} : life'[d] = life[d]
  BY <1>1, <1>2 DEF AuthTypeOK
<1>5. \A d \in Calls : life'[d] <= restarts'
  BY <1>2, <1>4 DEF AuthInv
<1>6. op' = op /\ \A d \in Calls \ {c} : pc'[d] = pc[d] /\ outcome'[d] = outcome[d]
  BY <1>1, HookControl, SubmitBinds DEF hookVars
<1>7. \A d \in Calls : Key(d)' = Key(d) /\ Claim(d)' = Claim(d)
  BY <1>2, <1>6 DEF Key, Claim
<1>8. \A d \in Calls : pc'[d] # "done" => outcome'[d] = "none"
  BY <1>1, <1>3, <1>6, HookControl, SubmitBinds DEF hookVars, AuthInv
<1>9. \A d \in Calls : host'[d] = "idle" => pc'[d] = "idle"
  BY <1>2, <1>6 DEF AuthInv
<1>10. host'[c] = "allow" => outcome'[c] = "allow"
  <2>1. host'[c] = "allow" => Resolve(c, TRUE) = "allow"
    BY <1>1 DEF Submit, AuthTypeOK
  <2>2. Resolve(c, TRUE) = "allow" => AnswerOf(outcome'[c]) = "allow"
    BY DEF Resolve
  <2>3. QED
    BY <2>1, <2>2, AllowAnswer
<1>11. AllowIsHooksAllow'
  BY <1>2, <1>6, <1>10 DEF AuthInv, AllowIsHooksAllow, Allowed
<1>12. CASE UNCHANGED claimed /\ UNCHANGED hookVars
  <2>1. Pursued' = Pursued /\ c \notin Pursued
    BY <1>3, <1>12 DEF Pursued, hookVars
  <2>2. Pursued \subseteq Calls \ {c}
    BY <2>1 DEF Pursued
  <2>3. ClaimHeld' /\ OneAttemptPerOperation'
    BY <1>2, <1>4, <1>7, <1>12, <2>1, <2>2 DEF AuthInv, ClaimHeld, OneAttemptPerOperation
  <2>4. QED
    BY <1>1, <1>5, <1>8, <1>9, <1>11, <2>3 DEF AuthInv
<1>13. CASE GuardPasses(c) /\ claimed' = [claimed EXCEPT ![Key(c)] = {Claim(c)}]
  <2>1. Pursued' \subseteq Pursued \cup {c} /\ Pursued \subseteq Calls \ {c}
    BY <1>3, <1>6 DEF Pursued
  <2>2. \A d \in Calls : Key(d) \in Keys
    BY <1>1, KeyType
  <2>3. claimed'[Key(c)] = {Claim(c)}
    BY <1>1, <1>13, <2>2 DEF AuthTypeOK
  <2>4. \A d \in Calls : Key(d) # Key(c) => claimed'[Key(d)] = claimed[Key(d)]
    BY <1>1, <1>13, <2>2 DEF AuthTypeOK
  <2>5. \A d \in Pursued : life[d] = restarts /\ Key(d) = Key(c) => Claim(d) = Claim(c)
    BY <1>13 DEF AuthInv, ClaimHeld, GuardPasses
  <2>6. ClaimHeld'
    BY <1>2, <1>4, <1>7, <2>1, <2>3, <2>4, <2>5 DEF AuthInv, ClaimHeld
  <2>7. OneAttemptPerOperation'
    BY <1>2, <1>4, <1>7, <2>1, <2>5 DEF AuthInv, OneAttemptPerOperation
  <2>8. QED
    BY <1>1, <1>5, <1>8, <1>9, <1>11, <2>6, <2>7 DEF AuthInv
<1>14. QED
  BY <1>1, <1>12, <1>13, SubmitBinds

LEMMA MoveStep ==
  ASSUME AuthInv, NEW c \in Calls, HookMoves(c), AuthTypeOK'
  PROVE  AuthInv'
<1>1. AuthTypeOK /\ TypeOK /\ AuthTypeOK'
  BY DEF AuthInv, AuthTypeOK
<1>2. /\ host' = [host EXCEPT ![c] = Resolve(c, host[c] = "waiting")]
      /\ UNCHANGED <<request, claimed, restarts, life>>
  BY DEF HookMoves
<1>3. pc[c] \in {"verify", "revocation"}
  BY DEF HookMoves, VerifyReply, SkipRevocation, RevocationReply, RevocationDown
<1>4. /\ op' = op /\ pc'[c] # "idle"
      /\ \A d \in Calls \ {c} : pc'[d] = pc[d] /\ outcome'[d] = outcome[d]
      /\ pc'[c] # "done" => outcome'[c] = outcome[c]
  BY <1>1, HookSteps, HookControl
<1>5. \A d \in Calls : Key(d)' = Key(d) /\ Claim(d)' = Claim(d)
  BY <1>2, <1>4 DEF Key, Claim
<1>6. Pursued' = Pursued
  BY <1>3, <1>4 DEF Pursued
<1>7. ClaimHeld' /\ OneAttemptPerOperation'
  BY <1>2, <1>5, <1>6 DEF AuthInv, ClaimHeld, OneAttemptPerOperation, Pursued
<1>8. \A d \in Calls : pc'[d] # "done" => outcome'[d] = "none"
  BY <1>3, <1>4 DEF AuthInv
<1>9. host[c] # "allow" /\ host[c] # "idle" /\ (\A d \in Calls \ {c} : host'[d] = host[d])
  BY <1>1, <1>2, <1>3 DEF AuthInv, AllowIsHooksAllow, Allowed, AuthTypeOK
<1>10. host'[c] = Resolve(c, host[c] = "waiting")
  BY <1>1, <1>2 DEF AuthTypeOK
<1>11. host'[c] # "idle"
  BY <1>9, <1>10, AnswerOfType DEF Resolve, Answers
<1>12. host'[c] = "allow" => outcome'[c] = "allow"
  <2>1. host'[c] = "allow" => AnswerOf(outcome'[c]) = "allow"
    BY <1>9, <1>10 DEF Resolve
  <2>2. QED
    BY <2>1, AllowAnswer
<1>13. AllowIsHooksAllow'
  BY <1>4, <1>9, <1>12 DEF AuthInv, AllowIsHooksAllow, Allowed
<1>14. \A d \in Calls : host'[d] = "idle" => pc'[d] = "idle"
  BY <1>4, <1>9, <1>11 DEF AuthInv
<1>15. \A d \in Calls : life'[d] <= restarts'
  BY <1>2 DEF AuthInv
<1>16. QED
  BY <1>1, <1>7, <1>8, <1>13, <1>14, <1>15 DEF AuthInv

LEMMA RestartStep ==
  ASSUME AuthInv, Restart, AuthTypeOK'
  PROVE  AuthInv'
<1>1. AuthTypeOK /\ TypeOK /\ AuthTypeOK'
  BY DEF AuthInv, AuthTypeOK
<1>2. restarts \in Nat /\ restarts' = restarts + 1 /\ UNCHANGED <<op, request, life, outcome>>
  BY <1>1, AuthorityAssumption DEF Restart, AuthTypeOK, AuthorityAssumption
<1>3. \A d \in Calls : life'[d] <= restarts' /\ life'[d] # restarts'
  BY <1>1, <1>2, AuthorityAssumption DEF AuthInv, AuthTypeOK, AuthorityAssumption
<1>4. \A d \in Calls : pc'[d] = IF d \in InFlight THEN "done" ELSE pc[d]
  BY <1>1 DEF Restart
<1>5. Pursued' = Pursued
  BY <1>4 DEF Pursued, InFlight
<1>6. \A d \in Calls : Key(d)' = Key(d) /\ Claim(d)' = Claim(d)
  BY <1>2 DEF Key, Claim
<1>7. ClaimHeld'
  BY <1>3 DEF ClaimHeld, Pursued
<1>8. OneAttemptPerOperation'
  BY <1>2, <1>5, <1>6 DEF AuthInv, OneAttemptPerOperation, Pursued
<1>9. \A d \in Calls : host'[d] = IF host[d] = "waiting" THEN "lost" ELSE host[d]
  BY <1>1 DEF Restart
<1>10. AllowIsHooksAllow'
  BY <1>2, <1>9 DEF AuthInv, AllowIsHooksAllow, Allowed
<1>11. \A d \in Calls : host'[d] = "idle" => pc'[d] = "idle"
  BY <1>4, <1>9 DEF AuthInv, InFlight
<1>12. \A d \in Calls : pc'[d] # "done" => outcome'[d] = "none"
  BY <1>2, <1>4 DEF AuthInv
<1>13. QED
  BY <1>1, <1>3, <1>7, <1>8, <1>10, <1>11, <1>12 DEF AuthInv

LEMMA AuthInvNext == AuthInv /\ [AuthNext]_vars => AuthInv'
<1> SUFFICES ASSUME AuthInv, [AuthNext]_vars PROVE AuthInv'
  OBVIOUS
<1>1. AuthTypeOK /\ AuthTypeOK'
  BY AuthTypeNext DEF AuthInv
<1>2. ASSUME NEW c \in Calls, Submit(c) PROVE AuthInv'
  BY <1>1, <1>2, SubmitStep
<1>3. ASSUME NEW c \in Calls, HookMoves(c) PROVE AuthInv'
  BY <1>1, <1>3, MoveStep
<1>4. CASE Restart
  BY <1>1, <1>4, RestartStep
<1>5. CASE UNCHANGED <<pc, op, outcome, request, claimed, host, restarts, life>>
  BY <1>1, <1>5 DEF AuthInv, ClaimHeld, OneAttemptPerOperation, AllowIsHooksAllow, Pursued,
     Key, Claim, Allowed
<1>6. ASSUME NEW c \in Calls, Deadline(c) PROVE AuthInv'
  <2>1. /\ UNCHANGED <<pc, op, outcome, request, claimed, restarts, life>>
        /\ host' = [host EXCEPT ![c] = "unavailable"]
    BY <1>6 DEF Deadline, hookVars
  <2>2. \A d \in Calls : host'[d] = host[d] \/ host'[d] = "unavailable"
    BY <1>1, <2>1 DEF AuthTypeOK
  <2>3. QED
    BY <1>1, <2>1, <2>2 DEF AuthInv, ClaimHeld, OneAttemptPerOperation, AllowIsHooksAllow,
       Pursued, Key, Claim, Allowed
<1>7. QED
  BY <1>2, <1>3, <1>4, <1>5, <1>6 DEF AuthNext, Environment, VerifierSigns, RegistryAnswers,
     RegistryRevokes, Tick, Settled, vars, hookVars

LEMMA AuthInductive == AuthSpec => []AuthInv
<1>1. AuthInit => AuthInv
  BY AuthInvInit
<1>2. AuthInv /\ [AuthNext]_vars => AuthInv'
  BY AuthInvNext
<1>3. QED
  BY <1>1, <1>2, PTL DEF AuthSpec
-----------------------------------------------------------------------------
(* AuthTypeCorrect: the authority's state keeps its types in every run,     *)
(* through restarts and whatever the services of the hook answer.           *)
THEOREM AuthTypeCorrect == AuthSpec => []AuthTypeOK
<1>1. AuthInv => AuthTypeOK
  BY DEF AuthInv
<1>2. QED
  BY <1>1, AuthInductive, PTL

(* OneAttempt: while a process lives, all requests of a caller that reach   *)
(* the hook for one operation carry one attempt and one offer, in whatever  *)
(* order requests, refusals and deadlines come; the same attempt may come   *)
(* more than once.  The invariant is that the guard holds the claim of      *)
(* every operation that was pursued in this life.                           *)
THEOREM OneAttempt == AuthSpec => []OneAttemptPerOperation
<1>1. AuthInv => OneAttemptPerOperation
  BY DEF AuthInv
<1>2. QED
  BY <1>1, AuthInductive, PTL

(* AllowOnlyFromHook: the host hears "allow" only of a spend that the hook  *)
(* allowed, whatever the deadline, a refusal or a rejected promise does.    *)
THEOREM AllowOnlyFromHook == AuthSpec => []AllowIsHooksAllow
<1>1. AuthInv => AllowIsHooksAllow
  BY DEF AuthInv
<1>2. QED
  BY <1>1, AuthInductive, PTL

(* ClaimsKept: no step of a living process rebinds or drops a claim.        *)
THEOREM ClaimsKept == AuthSpec => ClaimsAreKept
<1>1. ASSUME AuthInv, [AuthNext]_vars
      PROVE  [restarts' = restarts =>
                \A k \in Keys : claimed[k] # {} => claimed'[k] = claimed[k]]_vars
  <2> SUFFICES ASSUME restarts' = restarts, NEW k \in Keys, claimed[k] # {}
               PROVE  claimed'[k] = claimed[k]
    OBVIOUS
  <2>1. AuthTypeOK
    BY <1>1 DEF AuthInv
  <2>2. ASSUME NEW c \in Calls, Submit(c) PROVE claimed'[k] = claimed[k]
    <3>1. CASE UNCHANGED claimed
      BY <3>1
    <3>2. CASE GuardPasses(c) /\ claimed' = [claimed EXCEPT ![Key(c)] = {Claim(c)}]
      <4>1. claimed \in [Keys -> SUBSET Claims]
        BY <2>1 DEF AuthTypeOK
      <4>2. CASE k = Key(c)
        BY <3>2, <4>1, <4>2 DEF GuardPasses
      <4>3. CASE k # Key(c)
        BY <3>2, <4>1, <4>3
      <4>4. QED
        BY <4>2, <4>3
    <3>3. QED
      BY <2>1, <2>2, <3>1, <3>2, SubmitBinds
  <2>3. CASE UNCHANGED claimed
    BY <2>3
  <2>4. CASE Restart
    BY <2>1, <2>4, AuthorityAssumption DEF Restart, AuthTypeOK, AuthorityAssumption
  <2>5. QED
    BY <1>1, <2>2, <2>3, <2>4 DEF AuthNext, HookMoves, Deadline, Environment, Settled, vars
<1>2. QED
  BY <1>1, AuthInductive, PTL DEF AuthSpec, ClaimsAreKept

(* FinalAnswers: an answer the host was given never changes, also when the  *)
(* hook decides after the deadline.                                         *)
THEOREM FinalAnswers == AuthSpec => AnswersAreFinal
<1>1. ASSUME AuthInv, [AuthNext]_vars
      PROVE  [\A c \in Calls : host[c] \in Answers => host'[c] = host[c]]_vars
  <2> SUFFICES ASSUME NEW d \in Calls, host[d] \in Answers
               PROVE  host'[d] = host[d]
    OBVIOUS
  <2>1. AuthTypeOK /\ host[d] # "idle" /\ host[d] # "waiting"
    BY <1>1 DEF AuthInv, Answers
  <2>2. ASSUME NEW c \in Calls, Submit(c) PROVE host'[d] = host[d]
    BY <2>1, <2>2, SubmitBinds
  <2>3. ASSUME NEW c \in Calls, HookMoves(c) PROVE host'[d] = host[d]
    BY <2>1, <2>3 DEF HookMoves, Resolve, AuthTypeOK
  <2>4. ASSUME NEW c \in Calls, Deadline(c) PROVE host'[d] = host[d]
    BY <2>1, <2>4 DEF Deadline, AuthTypeOK
  <2>5. CASE Restart
    BY <2>1, <2>5 DEF Restart, AuthTypeOK
  <2>6. CASE UNCHANGED host
    BY <2>6
  <2>7. QED
    BY <1>1, <2>2, <2>3, <2>4, <2>5, <2>6 DEF AuthNext, Environment, Settled, vars
<1>2. QED
  BY <1>1, AuthInductive, PTL DEF AuthSpec, AnswersAreFinal
-----------------------------------------------------------------------------
(***************************************************************************)
(* The hook inside the authority.  Its own theorems are about a process    *)
(* that never dies; here the process may be restarted between any two      *)
(* steps, and an invocation suspended at a fetch is then forgotten.        *)
(***************************************************************************)

(* What a restart does to the hook: suspended invocations and the runtime   *)
(* state are gone, what was decided and signed before is not.               *)
HookRestart ==
  /\ pc' = [c \in Calls |-> IF c \in InFlight THEN "done" ELSE pc[c]]
  /\ spentAll' = 0
  /\ spentOn' = [a \in Agents |-> [d \in Days |-> 0]]
  /\ UNCHANGED <<now, op, outcome, verdicts, evidence, revoked, lookup, late>>

CrashingHook == Init /\ [][Next \/ HookRestart]_hookVars

LEMMA HookSees == [AuthNext]_vars => [Next \/ HookRestart]_hookVars
<1> SUFFICES ASSUME [AuthNext]_vars PROVE [Next \/ HookRestart]_hookVars
  OBVIOUS
<1>1. ASSUME NEW c \in Calls, HookMoves(c) PROVE Next
  BY <1>1, HookSteps DEF Next
<1>2. ASSUME NEW c \in Calls, Submit(c) PROVE [Next]_hookVars
  BY <1>2, HookSteps DEF Next
<1>3. ASSUME NEW c \in Calls, Deadline(c) PROVE UNCHANGED hookVars
  BY <1>3 DEF Deadline
<1>4. CASE Restart
  BY <1>4 DEF Restart, HookRestart
<1>5. CASE UNCHANGED vars
  BY <1>5 DEF vars
<1>6. QED
  BY <1>1, <1>2, <1>3, <1>4, <1>5, HookSteps DEF AuthNext, Settled

(* AuthorityRunsHook: whatever the guard, the gates, the deadline and the   *)
(* host do, the hook inside the authority takes its own steps and restarts, *)
(* and no others: the race never cancels or repeats an invocation.          *)
THEOREM AuthorityRunsHook == AuthSpec => CrashingHook
<1>1. AuthInit => Init
  BY DEF AuthInit
<1>2. QED
  BY <1>1, HookSees, PTL DEF AuthSpec, CrashingHook

LEMMA RestartKeepsEvidence ==
  ASSUME RevocationInv, HookRestart
  PROVE  RevocationInv'
<1>1. TypeOK /\ EvidenceInv
  BY DEF RevocationInv, EvidenceInv
<1>2. UNCHANGED <<now, op, outcome, verdicts, evidence, revoked, lookup, late>>
  BY DEF HookRestart
<1>3. \A c \in Calls : /\ pc'[c] = IF c \in InFlight THEN "done" ELSE pc[c]
                       /\ pc'[c] \in {"idle", "verify", "revocation", "done"}
  BY <1>1 DEF HookRestart, TypeOK
<1>4. TypeOK'
  <2>1. /\ pc' \in [Calls -> {"idle", "verify", "revocation", "done"}]
        /\ spentAll' \in Nat /\ spentOn' \in [Agents -> [Days -> Nat]]
    BY <1>1 DEF HookRestart, TypeOK
  <2>2. QED
    BY <1>1, <1>2, <2>1 DEF TypeOK
<1>5. ASSUME NEW c \in Calls PROVE pc'[c] # "done" => pc'[c] = pc[c] /\ outcome'[c] = "none"
  BY <1>1, <1>2, <1>3 DEF EvidenceInv
<1>6. ASSUME NEW c \in Calls, Passed(c)' PROVE (Backed(c) /\ Banded(c))'
  <2>1. Passed(c)
    BY <1>2, <1>5, <1>6 DEF Passed
  <2>2. QED
    BY <1>1, <1>2, <2>1, EvidenceKept
<1>7. EvidenceInv'
  BY <1>4, <1>5, <1>6 DEF EvidenceInv
<1>8. \A c \in Calls : pc'[c] = "idle" => lookup'[c] = "none"
  BY <1>2, <1>3 DEF RevocationInv
<1>9. \A c \in late' : /\ op'[c].agent \in revoked'
                       /\ lookup'[c] # "clear"
                       /\ RevocationUrl /\ FailClosed => outcome'[c] # "allow"
  BY <1>2 DEF RevocationInv
<1>10. QED
  BY <1>7, <1>8, <1>9 DEF RevocationInv

LEMMA RestartIsFresh == TypeOK /\ HookRestart => FreshRuntime'
<1> SUFFICES ASSUME TypeOK, HookRestart PROVE FreshRuntime'
  OBVIOUS
<1>1. \A c \in Calls : pc'[c] = IF c \in InFlight THEN "done" ELSE pc[c]
  BY DEF HookRestart, TypeOK
<1>2. InFlight' = {}
  BY <1>1 DEF InFlight
<1>3. QED
  BY <1>2 DEF HookRestart, FreshRuntime

CrashInv == RevocationInv /\ BudgetInv

LEMMA CrashInductive == AuthSpec => []CrashInv
<1>1. Init => CrashInv
  BY RevocationInit, BudgetInit DEF CrashInv
<1>2. CrashInv /\ [Next \/ HookRestart]_hookVars => CrashInv'
  <2> SUFFICES ASSUME CrashInv, [Next \/ HookRestart]_hookVars PROVE CrashInv'
    OBVIOUS
  <2>1. CASE [Next]_hookVars
    BY <2>1, RevocationNext, BudgetNext DEF CrashInv
  <2>2. CASE HookRestart
    <3>1. RevocationInv'
      BY <2>2, RestartKeepsEvidence DEF CrashInv
    <3>2. TypeOK'
      BY <3>1 DEF RevocationInv, EvidenceInv
    <3>3. FreshRuntime'
      BY <2>2, RestartIsFresh DEF CrashInv, BudgetInv
    <3>4. TypeOK' /\ FreshRuntime' => BudgetInv'
      BY BudgetFresh, PTL
    <3>5. QED
      BY <3>1, <3>2, <3>3, <3>4 DEF CrashInv
  <2>3. QED
    BY <2>1, <2>2
<1>3. CrashingHook => []CrashInv
  BY <1>1, <1>2, PTL DEF CrashingHook
<1>4. QED
  BY <1>3, AuthorityRunsHook, PTL

(* BandReachedAcrossRestarts: no restart lets a spend through on a band     *)
(* below its grant's threshold: an invocation it forgets is never resumed.  *)
THEOREM BandReachedAcrossRestarts == AuthSpec => []BandReachesGrant
<1>1. CrashInv => BandReachesGrant
  BY EvidenceBands DEF CrashInv, RevocationInv
<1>2. QED
  BY <1>1, CrashInductive, PTL

(* RevocationAcrossRestarts: nor does it let a late call through on an      *)
(* answer that was under way when the process died.                         *)
THEOREM RevocationAcrossRestarts == AuthSpec => []NoAllowAfterRevocation
<1>1. CrashInv => NoAllowAfterRevocation
  BY DEF CrashInv, RevocationInv, NoAllowAfterRevocation, Allowed
<1>2. QED
  BY <1>1, CrashInductive, PTL

(* VerdictOnceAcrossRestarts: a verdict that admitted a spend before a      *)
(* restart admits no other one after it: it is bound to one challenge, so   *)
(* that nothing the process could forget is needed for it.                  *)
THEOREM VerdictOnceAcrossRestarts == AuthSpec => []VerdictSpentOnce
<1>1. CrashInv => VerdictSpentOnce
  BY EvidenceBacks, BackedOnce DEF CrashInv, RevocationInv
<1>2. QED
  BY <1>1, CrashInductive, PTL

(* BudgetPerLife: the budgets count what this process recorded, and keep    *)
(* to their bounds in every life of it; a restart starts them at zero.      *)
THEOREM BudgetPerLife == AuthSpec => [](TotalOvershootBounded /\ DailyOvershootBounded)
<1>1. CrashInv => TotalOvershootBounded /\ DailyOvershootBounded
  BY TotalFromInv, DailyFromInv DEF CrashInv
<1>2. QED
  BY <1>1, CrashInductive, PTL
=============================================================================
