------------------------------ MODULE SpendHook ------------------------------
(***************************************************************************)
(* The fail-closed spend hook (createUtaHook, pay-mcp-bridge/src/          *)
(* bridge.mjs).  authorize runs grant lookup and budget check at once,     *)
(* then awaits the verifier, then awaits the revocation service, and only  *)
(* then records the spend: other calls, the clock and the registry move    *)
(* at both awaits.                                                         *)
(***************************************************************************)
EXTENDS VerdictBinding, FiniteSets, FiniteSetsExt

CONSTANTS
  Calls,          \* invocations of authorize, each made at most once
  MaxInFlight,    \* how many invocations the host keeps open at a time
  Agents, Resources,
  Amounts,        \* spend amounts, natural numbers
  Canonical,      \* the amounts usdFixed can render without loss
  Grants,         \* policy.authorizations: a sequence of records with fields
                  \* agent, resources, dayCap (0: none), minBand ("none": none)
  PerSpendMax,    \* budget.per_spend_max_usd, 0 for none
  TotalMax,       \* budget.total_usd, 0 for none
  ScopeBinding,   \* uta.scope_binding: "strict" or "off"
  RevocationUrl,  \* is revocation.check_url configured?
  FailClosed,     \* revocation.fail_closed
  Shapes,         \* how the verifier fills kid, key, skew, window and expires
  Bands,          \* trust bands, "none" for an absent one
  VerdictBands,   \* bands a verifier signs
  ReplyBands,     \* the unsigned band fields of a reply, "none" when absent
  DayLength, MaxTime   \* ticks of a day; bound of the clock

Op == [agent: Agents, resource: Resources, amount: Amounts]
Grant == [agent: Agents, resources: SUBSET (Resources \cup {"*"}),
          dayCap: Nat, minBand: Bands]
Shape == [kid: Kids, key: VerifierKeys, skew: Nat, window: Windows, expires: Nat]

ASSUME HookAssumption ==
  /\ IsFiniteSet(Calls)
  /\ MaxInFlight \in Nat \ {0}
  /\ Amounts \subseteq Nat
  /\ Canonical \subseteq Amounts
  /\ Grants \in Seq(Grant)
  /\ PerSpendMax \in Nat
  /\ TotalMax \in Nat
  /\ ScopeBinding \in {"strict", "off"}
  /\ RevocationUrl \in BOOLEAN
  /\ FailClosed \in BOOLEAN
  /\ Shapes \subseteq Shape
  /\ "none" \in Bands
  /\ VerdictBands \subseteq Bands
  /\ ReplyBands \subseteq Bands
  /\ DayLength \in Nat \ {0}
  /\ MaxTime \in Nat

VARIABLES
  now,        \* the clock
  pc,         \* pc[c]: where invocation c of authorize is suspended
  op,         \* op[c]: its argument
  outcome,    \* outcome[c]: "allow", or why it was denied
  spentAll,   \* sum of state.spends
  spentOn,    \* spentOn[a][d]: sum of the spends of agent a on day d
  verdicts,   \* verdicts the verifier has signed so far
  evidence,   \* evidence[c]: the reply that utaVerify accepted, and when
  revoked,    \* agents the revocation registry lists
  lookup,     \* lookup[c]: what the revocation service answered c
  late        \* history: the calls made after their agent was revoked

hookVars == <<now, pc, op, outcome, spentAll, spentOn, verdicts, evidence,
              revoked, lookup, late>>

Days  == 0 .. MaxTime
Today == now \div DayLength
InFlight == {c \in Calls : pc[c] \in {"verify", "revocation"}}

Refusals == {"no_grant", "per_spend", "daily", "total", "fail_closed",
             "negative", "band", "revoked"}
Threw    == "threw"   \* authorize rejected: no decision, nothing recorded
NoEvidence == [verdict |-> NoVerdict, band |-> "none", at |-> 0]
-----------------------------------------------------------------------------
(* Grants and budgets                                                       *)

GrantsOf(a) == {i \in DOMAIN Grants : Grants[i].agent = a}

(* authorize's own lookup: the first grant for the agent and the resource   *)
GrantFor(o) ==
  First({i \in GrantsOf(o.agent) :
           "*" \in Grants[i].resources \/ o.resource \in Grants[i].resources})

OverPerSpend(o) == PerSpendMax > 0 /\ o.amount > PerSpendMax

(* Slip: the spend itself is not added. *)
OverDailyBeforeThisSpend(o) ==
  \E i \in First(GrantsOf(o.agent)) :
    /\ Grants[i].dayCap > 0
    /\ spentOn[o.agent][Today] > Grants[i].dayCap

(* budgetCheck looks the grant up again, by agent alone                     *)
OverDaily(o) ==
  \E i \in First(GrantsOf(o.agent)) :
    /\ Grants[i].dayCap > 0
    /\ spentOn[o.agent][Today] + o.amount > Grants[i].dayCap

(* Slip: the spend itself is not added. *)
OverTotalBeforeThisSpend(o) == TotalMax > 0 /\ spentAll > TotalMax

OverTotal(o) == TotalMax > 0 /\ spentAll + o.amount > TotalMax

(* What authorize decides before its first await; "pass" goes on to the     *)
(* verifier.  An amount usdFixed cannot render is refused before the fetch. *)
Admission(o) ==
  IF GrantFor(o) = {} THEN "no_grant"
  ELSE IF OverPerSpend(o) THEN "per_spend"
  ELSE IF OverDaily(o) THEN "daily"
  ELSE IF OverTotal(o) THEN "total"
  ELSE IF o.amount \notin Canonical THEN "fail_closed"
  ELSE "pass"

BandRank == [b \in {"B0", "B1", "B2", "B3", "A1"} |->
               CASE b = "B0" -> 0 [] b = "B1" -> 1 [] b = "B2" -> 2
                 [] b = "B3" -> 3 [] b = "A1" -> 4]

(* Slip: an absent band passes. *)
BandSufficientUnlessAbsent(band, min) ==
  \/ min = "none"
  \/ band = "none"
  \/ /\ {band, min} \subseteq DOMAIN BandRank
     /\ BandRank[band] >= BandRank[min]

(* An absent or unknown band never suffices where a threshold is set.       *)
BandSufficient(band, min) ==
  \/ min = "none"
  \/ /\ {band, min} \subseteq DOMAIN BandRank
     /\ BandRank[band] >= BandRank[min]
-----------------------------------------------------------------------------
(* The invocation                                                           *)

Init ==
  /\ now = 0
  /\ pc = [c \in Calls |-> "idle"]
  /\ op \in [Calls -> Op]
  /\ outcome = [c \in Calls |-> "none"]
  /\ spentAll = 0
  /\ spentOn = [a \in Agents |-> [d \in Days |-> 0]]
  /\ verdicts = {}
  /\ evidence = [c \in Calls |-> NoEvidence]
  /\ revoked = {}
  /\ lookup = [c \in Calls |-> "none"]
  /\ late = {}

Finish(c, how) ==
  /\ pc' = [pc EXCEPT ![c] = "done"]
  /\ outcome' = [outcome EXCEPT ![c] = how]
  /\ UNCHANGED <<spentAll, spentOn>>

(* record("deny", ...) and the return that follows it                       *)
Deny(c, why) == Finish(c, why)

(* Slip: the spend is dated when the verdict was accepted. *)
AllowOnDayOfVerdict(c) ==
  /\ pc' = [pc EXCEPT ![c] = "done"]
  /\ outcome' = [outcome EXCEPT ![c] = "allow"]
  /\ spentAll' = spentAll + op[c].amount
  /\ spentOn' = [spentOn EXCEPT ![op[c].agent][evidence[c].at \div DayLength] = @ + op[c].amount]

(* The signed receipt and record("allow", ...): the only place a spend is   *)
(* added to the runtime state, dated when it is recorded.                   *)
Allow(c) ==
  /\ pc' = [pc EXCEPT ![c] = "done"]
  /\ outcome' = [outcome EXCEPT ![c] = "allow"]
  /\ spentAll' = spentAll + op[c].amount
  /\ spentOn' = [spentOn EXCEPT ![op[c].agent][Today] = @ + op[c].amount]

(* authorize up to its first await                                          *)
Authorize(c) ==
  /\ pc[c] = "idle"
  /\ Cardinality(InFlight) < MaxInFlight
  /\ IF Admission(op[c]) = "pass"
       THEN /\ pc' = [pc EXCEPT ![c] = "verify"]
            /\ UNCHANGED <<outcome, spentAll, spentOn>>
       ELSE Deny(c, Admission(op[c]))
  /\ late' = IF op[c].agent \in revoked THEN late \cup {c} ELSE late
  /\ UNCHANGED <<now, op, verdicts, evidence, revoked, lookup>>

(* What may come back from the verify fetch.  "down" stands for a throwing  *)
(* fetch, an HTTP error and a body that is not JSON; "null" is the JSON     *)
(* value null, of which body.verified throws outside every try.             *)
Replies ==
  {[kind |-> k, band |-> "none", uts |-> "none", verdict |-> NoVerdict] :
     k \in {"down", "null", "negative"}}
    \cup {[kind |-> "verified", band |-> b, uts |-> u, verdict |-> v] :
             b \in ReplyBands, u \in ReplyBands, v \in verdicts \cup {NoVerdict}}

(* body.band ?? body.verdict?.band ?? body.uts?.trust?.band                 *)
BandOf(r) ==
  IF r.band # "none" THEN r.band
  ELSE IF r.verdict # NoVerdict /\ r.verdict.band # "none" THEN r.verdict.band
  ELSE r.uts

VerdictAccepted(c, r) ==
  \/ ScopeBinding = "off"
  \/ ScopeBound(r.verdict, c, op[c].resource, op[c].amount, now)

VerifyReply(c, r) ==
  /\ pc[c] = "verify"
  /\ \/ /\ r.kind = "down"
        /\ Deny(c, "fail_closed")
        /\ UNCHANGED evidence
     \/ /\ r.kind = "null"
        /\ Finish(c, Threw)
        /\ UNCHANGED evidence
     \/ /\ r.kind = "negative"
        /\ Deny(c, "negative")
        /\ UNCHANGED evidence
     \/ /\ r.kind = "verified"
        /\ ~VerdictAccepted(c, r)
        /\ Deny(c, "fail_closed")
        /\ UNCHANGED evidence
     \/ /\ r.kind = "verified"
        /\ VerdictAccepted(c, r)
        /\ evidence' = [evidence EXCEPT ![c] =
                          [verdict |-> r.verdict, band |-> BandOf(r), at |-> now]]
        /\ IF \E i \in GrantFor(op[c]) : BandSufficient(BandOf(r), Grants[i].minBand)
             THEN /\ pc' = [pc EXCEPT ![c] = "revocation"]
                  /\ UNCHANGED <<outcome, spentAll, spentOn>>
             ELSE Deny(c, "band")
  /\ UNCHANGED <<now, op, verdicts, revoked, lookup, late>>

(* revocationCheck without a check_url: nothing is asked                    *)
SkipRevocation(c) ==
  /\ pc[c] = "revocation"
  /\ ~RevocationUrl
  /\ Allow(c)
  /\ UNCHANGED <<now, op, verdicts, evidence, revoked, lookup, late>>

(* revocationCheck receives the service's answer                            *)
RevocationReply(c) ==
  /\ pc[c] = "revocation"
  /\ RevocationUrl
  /\ \/ lookup[c] = "revoked" /\ Deny(c, "revoked")
     \/ lookup[c] = "clear" /\ Allow(c)
  /\ UNCHANGED <<now, op, verdicts, evidence, revoked, lookup, late>>

(* Slip: the fail_closed flag is not read. *)
RevocationDownAllows(c) ==
  /\ pc[c] = "revocation"
  /\ RevocationUrl
  /\ Allow(c)
  /\ UNCHANGED <<now, op, verdicts, evidence, revoked, lookup, late>>

(* ... or fails: unreachable, an HTTP error, a body that is not JSON        *)
RevocationDown(c) ==
  /\ pc[c] = "revocation"
  /\ RevocationUrl
  /\ IF FailClosed THEN Deny(c, "fail_closed") ELSE Allow(c)
  /\ UNCHANGED <<now, op, verdicts, evidence, revoked, lookup, late>>
-----------------------------------------------------------------------------
(* The environment                                                          *)

(* The verifier signs a verdict for the challenge of invocation c, with a   *)
(* resource and an amount of its choice.                                    *)
VerifierSigns(c, s, o, b) ==
  /\ pc[c] = "verify"
  /\ \A v \in verdicts : v.challenge # c
  /\ verdicts' = verdicts \cup
       {[kid |-> s.kid, key |-> s.key, challenge |-> c,
         resource |-> o.resource, amount |-> o.amount, band |-> b,
         window |-> s.window, issued |-> now + s.skew, expires |-> s.expires]}
  /\ UNCHANGED <<now, pc, op, outcome, spentAll, spentOn, evidence, revoked,
                 lookup, late>>

(* The revocation service answers from its registry; the answer is under    *)
(* way until RevocationReply receives it.                                   *)
RegistryAnswers(c) ==
  /\ pc[c] = "revocation"
  /\ RevocationUrl
  /\ lookup[c] = "none"
  /\ lookup' = [lookup EXCEPT ![c] =
                  IF op[c].agent \in revoked THEN "revoked" ELSE "clear"]
  /\ UNCHANGED <<now, pc, op, outcome, spentAll, spentOn, verdicts, evidence,
                 revoked, late>>

RegistryRevokes(a) ==
  /\ RevocationUrl
  /\ a \notin revoked
  /\ revoked' = revoked \cup {a}
  /\ UNCHANGED <<now, pc, op, outcome, spentAll, spentOn, verdicts, evidence,
                 lookup, late>>

Tick ==
  /\ now < MaxTime
  /\ now' = now + 1
  /\ UNCHANGED <<pc, op, outcome, spentAll, spentOn, verdicts, evidence,
                 revoked, lookup, late>>

(* Every invocation has returned: the hook waits for work.                  *)
Quiescent == (\A c \in Calls : pc[c] = "done") /\ UNCHANGED hookVars

Next ==
  \/ \E c \in Calls :
       \/ Authorize(c)
       \/ \E r \in Replies : VerifyReply(c, r)
       \/ SkipRevocation(c)
       \/ RevocationReply(c)
       \/ RevocationDown(c)
       \/ \E s \in Shapes, o \in Op, b \in VerdictBands : VerifierSigns(c, s, o, b)
       \/ RegistryAnswers(c)
  \/ \E a \in Agents : RegistryRevokes(a)
  \/ Tick
  \/ Quiescent

Spec == Init /\ [][Next]_hookVars
-----------------------------------------------------------------------------
(* Properties                                                               *)

Verdict == [kid: Kids, key: VerifierKeys, challenge: Calls,
            resource: Resources, amount: Amounts, band: Bands,
            window: Windows, issued: Nat, expires: Nat]

(* Every variable has its type: what the runtime state, the suspended calls *)
(* and the environment of the hook can hold.                                *)
TypeOK ==
  /\ now \in 0 .. MaxTime
  /\ pc \in [Calls -> {"idle", "verify", "revocation", "done"}]
  /\ op \in [Calls -> Op]
  /\ outcome \in [Calls -> {"none", "allow", Threw} \cup Refusals]
  /\ spentAll \in Nat
  /\ spentOn \in [Agents -> [Days -> Nat]]
  /\ verdicts \subseteq Verdict
  /\ evidence \in [Calls -> [verdict: Verdict \cup {NoVerdict}, band: Bands,
                             at: 0 .. MaxTime]]
  /\ revoked \subseteq Agents
  /\ lookup \in [Calls -> {"none", "revoked", "clear"}]
  /\ late \subseteq Calls

Allowed == {c \in Calls : outcome[c] = "allow"}

(* No spend is honoured on missing or foreign evidence: under strict scope  *)
(* binding an allowed call holds a verdict signed for its own challenge,    *)
(* resource and amount by the pinned key the verdict names (README, "The    *)
(* property"; RFC-ATC v3 section 5.2, checks 1 to 4).                       *)
BackedByOwnVerdict ==
  ScopeBinding = "strict" =>
    \A c \in Allowed :
      LET v == evidence[c].verdict IN
        /\ v \in verdicts
        /\ v.challenge = c
        /\ v.resource = op[c].resource
        /\ v.amount = op[c].amount
        /\ \E i \in DOMAIN Pins :
             /\ Pins[i].key = v.key
             /\ Pins[i].kid = v.kid \/ (v.kid = "none" /\ Len(Pins) = 1)

(* A verdict admits one attempt: no two allowed calls rest on the same one. *)
VerdictSpentOnce ==
  ScopeBinding = "strict" =>
    \A c, d \in Allowed : evidence[c].verdict = evidence[d].verdict => c = d

(* A verdict signed at or after the revoked_at cutoff of the key it names   *)
(* never admits a spend, whatever not_after says (section 5.2: validity     *)
(* windows are rotation, not revocation).  The exception is a verdict whose *)
(* issued_at does not parse: NaN is neither before nor after the cutoff, so *)
(* such a verdict of a revoked key does admit a spend.                      *)
NoVerdictOfRevokedKey ==
  ScopeBinding = "strict" =>
    \A c \in Allowed : \A i \in DOMAIN Pins :
      LET v == evidence[c].verdict IN
        Pins[i].kid = v.kid /\ Pins[i].revokedAt # 0 =>
          v.issued < Pins[i].revokedAt \/ v.window = "unparsable"

(* The window is bounded on both sides: the verdict behind an allowed spend *)
(* was, when it was accepted, neither too far in the future nor elapsed.    *)
WindowBounded ==
  ScopeBinding = "strict" =>
    \A c \in Allowed :
      LET v == evidence[c].verdict IN
        /\ v.issued <= evidence[c].at + MaxSkew
        /\ evidence[c].at <= v.issued + MaxExpires
        /\ v.window = "date"

(* The band that admitted the spend reaches the threshold of the grant that *)
(* covers the agent and the resource; an absent or unknown band never does. *)
BandReachesGrant ==
  \A c \in Allowed : \E i \in DOMAIN Grants :
    /\ Grants[i].agent = op[c].agent
    /\ Grants[i].resources \cap {"*", op[c].resource} # {}
    /\ Grants[i].minBand # "none" =>
         /\ evidence[c].band \in DOMAIN BandRank
         /\ BandRank[evidence[c].band] >= BandRank[Grants[i].minBand]

(* Immediate revocation: once the registry lists an agent, no call made     *)
(* afterwards is allowed while revocation is configured fail-closed, even   *)
(* when the service is down and whatever answers are still under way.       *)
NoAllowAfterRevocation ==
  RevocationUrl /\ FailClosed => Allowed \cap late = {}

(* The ledger agrees with the decisions: the cumulative total is the sum of *)
(* the allowed amounts, so is each agent's over its days, and a step that   *)
(* changes a day's sum is the allow of a call of that agent, on the day of  *)
(* that step, however long ago the call was checked.                        *)
SumOf(f, S) == MapThenSumSet(LAMBDA x : f[x], S)
BooksBalance ==
  /\ spentAll = SumOf([c \in Calls |-> op[c].amount], Allowed)
  /\ \A a \in Agents :
       SumOf(spentOn[a], Days) =
         SumOf([c \in Calls |-> op[c].amount], {c \in Allowed : op[c].agent = a})

BooksDated ==
  \A a \in Agents, d \in Days : spentOn'[a][d] # spentOn[a][d] =>
    /\ d = Today
    /\ \E c \in Allowed' \ Allowed :
         op[c].agent = a /\ spentOn'[a][d] = spentOn[a][d] + op[c].amount
LedgerAgrees == []BooksBalance /\ [][BooksDated]_hookVars

(* The largest amount one admitted call can carry against a cap             *)
StepOf(cap) == IF PerSpendMax > 0 /\ PerSpendMax < cap THEN PerSpendMax ELSE cap

(* The budget is read before two awaits and charged after them.  With at    *)
(* most MaxInFlight calls open the total overshoots by the amounts of the   *)
(* other open calls and by no more; one call at a time keeps it exactly.    *)
TotalOvershootBounded ==
  TotalMax > 0 => spentAll <= TotalMax + (MaxInFlight - 1) * StepOf(TotalMax)

(* The same bound for the daily cap of each agent and day, also when a call *)
(* is checked on one day and recorded on the next.                          *)
DailyOvershootBounded ==
  \A a \in Agents : \A i \in First(GrantsOf(a)) : \A d \in Days :
    LET cap == Grants[i].dayCap IN
      cap > 0 => spentOn[a][d] <= cap + (MaxInFlight - 1) * StepOf(cap)

-----------------------------------------------------------------------------
(* Statements of the documents that the code does not keep                  *)

(* README: the total budget is "enforced against cumulative state per       *)
(* spend".                                                                  *)
TotalBudgetKept == TotalMax > 0 => spentAll <= TotalMax
=============================================================================
