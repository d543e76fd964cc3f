--------------------------- MODULE SpendAuthority ---------------------------
(***************************************************************************)
(* The #514 spending authority (createSpendAuthority, pay-mcp-bridge/src/  *)
(* spend514.mjs) around the spend hook: a replay guard binds an operation  *)
(* of a caller to one attempt and one offer, gates follow, and the hook's  *)
(* authorize races a deadline.  The hook's invocation is not cancelled     *)
(* when the deadline wins.                                                 *)
(***************************************************************************)
EXTENDS SpendHook

CONSTANTS
  Operations, Attempts, Offers,  \* operation_id, attempt_id, offer_sha256
  Gates,        \* what the checks around the replay guard say of a request:
                \* "malformed" (validateSpendRequest), "barred" (headers,
                \* scheme, allowlists, network) or "clean"
  MaxRestarts   \* bound on process restarts

ASSUME AuthorityAssumption ==
  /\ Gates \subseteq {"malformed", "barred", "clean"}
  /\ MaxRestarts \in Nat

VARIABLES
  request,   \* request[c]: the #514 side of the spend request
  claimed,   \* claimed[k]: the attempt and offer that (caller, operation) k is
             \* bound to, as a set of at most one claim
  host,      \* host[c]: what the host has been told
  restarts,  \* restarts of the process so far
  life       \* history: life[c] is the value of restarts when c was submitted

vars == <<hookVars, request, claimed, host, restarts, life>>

Request == [operation: Operations, attempt: Attempts, offer: Offers, gate: Gates]
Answers == {"allow", "deny", "unavailable"}

Keys     == Agents \X Operations
Claims   == [attempt: Attempts, offer: Offers]
Key(c)   == <<op[c].agent, request[c].operation>>
Claim(c) == [attempt |-> request[c].attempt, offer |-> request[c].offer]

AuthInit ==
  /\ Init
  /\ request \in [Calls -> Request]
  /\ claimed = [k \in Keys |-> {}]
  /\ host = [c \in Calls |-> "idle"]
  /\ restarts = 0
  /\ life = [c \in Calls |-> 0]

(* Slip: a provider failure falls back to allow. *)
AnswerOfOptimist(decision) ==
  IF decision \in {"allow", "fail_closed"} THEN "allow" ELSE "deny"

(* The #514 mapping of the hook's decision: a reason starting with          *)
(* "fail-closed:" is a provider failure, and so is a rejected promise.      *)
AnswerOf(decision) ==
  IF decision = "allow" THEN "allow"
  ELSE IF decision \in {"fail_closed", Threw} THEN "unavailable" ELSE "deny"

(* Slip: a late decision replaces the answer. *)
ResolveLate(c, waiting) ==
  IF pc'[c] = "done" THEN AnswerOf(outcome'[c])
  ELSE IF waiting THEN "waiting" ELSE host[c]

(* The race resolves with the hook's decision if the host still waits.      *)
Resolve(c, waiting) ==
  IF waiting /\ pc'[c] = "done" THEN AnswerOf(outcome'[c])
  ELSE IF waiting THEN "waiting" ELSE host[c]

(* Slip: the guard compares the offer only. *)
GuardPassesForOffer(c) == \A b \in claimed[Key(c)] : b.offer = request[c].offer

(* The replay guard lets an unclaimed operation and the very same attempt   *)
(* and offer pass.                                                          *)
GuardPasses(c) == claimed[Key(c)] \subseteq {Claim(c)}

(* Slip: a request barred by a gate gives its claim back. *)
BindReleasing(c) == [claimed EXCEPT ![Key(c)] =
                       IF request[c].gate = "barred" THEN {} ELSE {Claim(c)}]

(* Claims the operation for this attempt and offer; a claim that passed the *)
(* guard is the same one again.                                             *)
Bind(c) == [claimed EXCEPT ![Key(c)] = {Claim(c)}]

(* authorize up to the race; the claim is made before the gates and stays   *)
Submit(c) ==
  /\ host[c] = "idle"
  /\ \/ /\ request[c].gate = "malformed"
        /\ host' = [host EXCEPT ![c] = "deny"]
        /\ UNCHANGED <<hookVars, claimed>>
     \/ /\ request[c].gate # "malformed"
        /\ ~GuardPasses(c)
        /\ host' = [host EXCEPT ![c] = "deny"]
        /\ UNCHANGED <<hookVars, claimed>>
     \/ /\ request[c].gate = "barred"
        /\ GuardPasses(c)
        /\ claimed' = Bind(c)
        /\ host' = [host EXCEPT ![c] = "deny"]
        /\ UNCHANGED hookVars
     \/ /\ request[c].gate = "clean"
        /\ GuardPasses(c)
        /\ claimed' = Bind(c)
        /\ Authorize(c)
        /\ host' = [host EXCEPT ![c] = Resolve(c, TRUE)]
  /\ life' = [life EXCEPT ![c] = restarts]
  /\ UNCHANGED <<request, restarts>>

(* The suspended hook invocation moves, whether the host still waits or not *)
HookMoves(c) ==
  /\ \/ \E r \in Replies : VerifyReply(c, r)
     \/ SkipRevocation(c)
     \/ RevocationReply(c)
     \/ RevocationDown(c)
  /\ host' = [host EXCEPT ![c] = Resolve(c, host[c] = "waiting")]
  /\ UNCHANGED <<request, claimed, restarts, life>>

(* Slip: the deadline covers the verify fetch only. *)
DeadlineOfVerifyOnly(c) ==
  /\ host[c] = "waiting"
  /\ pc[c] = "verify"
  /\ host' = [host EXCEPT ![c] = "unavailable"]
  /\ UNCHANGED <<hookVars, request, claimed, restarts, life>>

(* The timer of the race fires first.                                       *)
Deadline(c) ==
  /\ host[c] = "waiting"
  /\ host' = [host EXCEPT ![c] = "unavailable"]
  /\ UNCHANGED <<hookVars, request, claimed, restarts, life>>

Environment ==
  /\ \/ \E c \in Calls, s \in Shapes, o \in Op, b \in VerdictBands :
          VerifierSigns(c, s, o, b)
     \/ \E c \in Calls : RegistryAnswers(c)
     \/ \E a \in Agents : RegistryRevokes(a)
     \/ Tick
  /\ UNCHANGED <<request, claimed, host, restarts, life>>

(* claimed and the hook's runtime state are plain objects of the process:   *)
(* a restart empties them and forgets the suspended invocations.            *)
Restart ==
  /\ restarts < MaxRestarts
  /\ restarts' = restarts + 1
  /\ claimed' = [k \in Keys |-> {}]
  /\ host' = [c \in Calls |-> IF host[c] = "waiting" THEN "lost" ELSE host[c]]
  /\ pc' = [c \in Calls |-> IF c \in InFlight THEN "done" ELSE pc[c]]
  /\ spentAll' = 0
  /\ spentOn' = [a \in Agents |-> [d \in Days |-> 0]]
  /\ UNCHANGED <<now, op, outcome, verdicts, evidence, revoked, lookup, late,
                 request, life>>

Settled ==
  /\ \A c \in Calls : host[c] \notin {"idle", "waiting"}
  /\ InFlight = {}
  /\ UNCHANGED vars

AuthNext ==
  \/ \E c \in Calls : Submit(c) \/ HookMoves(c) \/ Deadline(c)
  \/ Environment
  \/ Restart
  \/ Settled

(* Nothing obliges the verifier or the revocation service to answer: the    *)
(* fetch of the hook has no timeout.  Only the timer of the race is fair.   *)
AuthFairness == \A c \in Calls : WF_vars(Deadline(c))

AuthSpec == AuthInit /\ [][AuthNext]_vars /\ AuthFairness
-----------------------------------------------------------------------------
(* Properties                                                               *)

(* Every variable of the authority has its type, next to the hook's TypeOK. *)
AuthTypeOK ==
  /\ TypeOK
  /\ request \in [Calls -> Request]
  /\ claimed \in [Keys -> SUBSET Claims]
  /\ host \in [Calls -> Answers \cup {"idle", "waiting", "lost"}]
  /\ restarts \in 0 .. MaxRestarts
  /\ life \in [Calls -> 0 .. MaxRestarts]

(* Calls whose request went through the guard and the gates to the hook     *)
Pursued == {c \in Calls : pc[c] # "idle"}

(* At-most-once posture: whatever the order of requests, denials and        *)
(* deadlines, one (caller, operation) reaches the hook under one attempt    *)
(* and one offer only, as long as the process lives.                        *)
OneAttemptPerOperation ==
  \A c, d \in Pursued :
    Key(c) = Key(d) /\ life[c] = life[d] => Claim(c) = Claim(d)

(* A claim, once made, is never rebound or dropped while the process lives: *)
(* also not after a denial or an expired deadline.                          *)
ClaimsAreKept ==
  [][restarts' = restarts =>
       \A k \in Keys : claimed[k] # {} => claimed'[k] = claimed[k]]_vars

(* Denial, provider failure and deadline never fall back to allow: the host *)
(* hears "allow" only of a spend the hook allowed and recorded.             *)
AllowIsHooksAllow == \A c \in Calls : host[c] = "allow" => c \in Allowed

(* A decision the host has received is final, whatever the hook decides     *)
(* when it answers after the deadline.                                      *)
AnswersAreFinal ==
  [][\A c \in Calls : host[c] \in Answers => host'[c] = host[c]]_vars

(* Every request is answered although the verifier and the revocation       *)
(* service may never reply, unless the process dies first.                  *)
EveryRequestAnswered ==
  \A c \in Calls : host[c] = "waiting" ~> host[c] \in Answers \cup {"lost"}
-----------------------------------------------------------------------------
(* Statements of the documents that the code does not keep                  *)

(* spend514.mjs: "a failed/unknown attempt must not silently become a fresh *)
(* payment": an attempt the host heard "unavailable" of is not charged      *)
(* again once it has been charged.  The guard lets the same attempt pass,   *)
(* and the hook charges it whatever became of its first submission.         *)
FailedAttemptNotRecharged ==
  [][\A c \in Allowed, d \in Calls :
       /\ Key(c) = Key(d) /\ Claim(c) = Claim(d)
       /\ host[c] = "unavailable" /\ outcome'[d] = "allow"
       => outcome[d] = "allow"]_vars
=============================================================================
