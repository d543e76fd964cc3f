------------------------ MODULE VerificationPipeline ------------------------
(***************************************************************************)
(* verifyCredential with a revocation checker (core/verification-          *)
(* pipeline.ts): the stages up to the lifecycle are decided in one turn,   *)
(* the checker is awaited, and the rest is decided when it answers.        *)
(***************************************************************************)
EXTENDS WallClock, VerificationStages

CONSTANTS
  VpCredentials,   \* credentials that are presented
  VpContexts,      \* contexts they are verified in
  VpRuns           \* verifications

VARIABLES
  vpAsked,      \* vpAsked[r]: at most one [cred, ctx, closed, at]; closed is
                \* policy.fail_closed_unknown_revocation
  vpState,      \* vpState[r]: "new", "checking", "ALLOW" or the failing stage
  vpAnswer      \* vpAnswer[r]: what the checker answered

vpOwn  == <<vpAsked, vpState, vpAnswer>>
vpVars == <<clock, vpOwn>>

VpInit ==
  /\ vpAsked = [r \in VpRuns |-> {}]
  /\ vpState = [r \in VpRuns |-> "new"]
  /\ vpAnswer = [r \in VpRuns |-> "none"]

(* checker is false when the context has none: stage 10 follows at once     *)
VerifyCredential(r, c, x, closed, checker) ==
  /\ vpState[r] = "new"
  /\ vpAsked' = [vpAsked EXCEPT ![r] = {[cred |-> c, ctx |-> x, closed |-> closed, at |-> clock]}]
  /\ vpState' = [vpState EXCEPT ![r] =
       IF checker THEN FirstFailure(Before(c, x, clock), "checking") ELSE Verdict(c, x, clock)]
  /\ UNCHANGED <<clock, vpAnswer>>

(* Slip: an unknown status is let through. *)
UnknownPasses(answer, closed) == answer # "revoked"

(* Two answers are refused; "other" stands for one with no status, or with  *)
(* one that is none of the three, which is let through.                     *)
Unrevoked(answer, closed) == answer # "revoked" /\ (answer = "unknown" => ~closed)

(* check answers, or throws, which reads as "unknown"                       *)
CheckerAnswers(r, answer) ==
  /\ vpState[r] = "checking"
  /\ vpAnswer' = [vpAnswer EXCEPT ![r] = answer]
  /\ \E a \in vpAsked[r] :
       vpState' = [vpState EXCEPT ![r] =
         IF Unrevoked(answer, a.closed) THEN FirstFailure(After(a.cred, a.ctx), "ALLOW")
         ELSE "09_LIFECYCLE"]
  /\ UNCHANGED <<clock, vpAsked>>

VpNext ==
  \/ \E r \in VpRuns :
       \/ \E c \in VpCredentials, x \in VpContexts, closed, checker \in BOOLEAN :
            VerifyCredential(r, c, x, closed, checker)
       \/ \E answer \in {"good", "revoked", "unknown", "other"} : CheckerAnswers(r, answer)
  \/ TimePasses /\ UNCHANGED vpOwn

VpSpec == ClockInit /\ VpInit /\ [][VpNext]_vpVars
-----------------------------------------------------------------------------
(* Whatever is presented, and though three formats skip or never reach a     *)
(* check, ALLOW is decided only for a card whose signature the CA key        *)
(* verified, of a listed issuer, that does not say it is revoked, and that   *)
(* the checker, if there is one, answered neither revoked nor, failing       *)
(* closed, unknown for.  When the verification began it was neither expired  *)
(* nor too old by its own dates, as far as it has them and they parse: one   *)
(* without an expiry is allowed at any time.                                 *)
AllowIsEarned ==
  \A r \in VpRuns : vpState[r] = "ALLOW" =>
    \E a \in vpAsked[r] :
      /\ a.ctx.caKey /\ a.cred.sig = "good" /\ a.cred.issuer \in a.ctx.issuers
      /\ a.cred.fields \intersect {"atc_version", "card_id"} # {}
      /\ ~a.cred.revoked /\ \A t \in a.cred.expires : t >= a.at
      /\ a.ctx.maxAge # 0 => \A t \in a.cred.issued : a.at <= t + a.ctx.maxAge
      /\ a.ctx.needPop => a.ctx.pop = "good" /\ a.cred.agentKey
      /\ vpAnswer[r] # "revoked"
      /\ vpAnswer[r] = "unknown" => ~a.closed
=============================================================================
