----------------------------- MODULE OrgPolicy -----------------------------
(***************************************************************************)
(* An organisation's policy over the capability manifest of a tool         *)
(* (core/org-policy.ts, core/capability-graph.ts): evaluatePolicy decides  *)
(* whether the tool may run at its trust score, and the checks decide      *)
(* single accesses while it runs.  Both read the manifest and nothing      *)
(* passes from one to the other.  An access is an operation and what the   *)
(* patterns for paths, hosts, commands, variables or merchants say of it:  *)
(* denied, sensitive (a sensitive path or variable, a cloud metadata host, *)
(* a dangerous command), listed (on the allow list, or there is none), and *)
(* for a connection whether its port is.                                   *)
(***************************************************************************)
EXTENDS Integers, Sequences, SequencesExt

CONSTANTS
  Manifests,   \* [read, write, egress, exec, env, files, spend, above]
  Policies,    \* [min, required, denied, thresholds, overrides]: required is
               \* the least manifest, thresholds are [low, high, action],
               \* overrides [tool, action]
  Scores       \* trust scores, in halves of a point

FileLevels == {"none", "read", "read-write", "full"}

Manifest ==
  [read : FileLevels, write : FileLevels, egress : {"none", "allowlist", "all"},
   exec : {"none", "sandboxed", "unrestricted"},
   env : {"none", "env_allowlist", "all_env", "file_access"},
   files : {"none", "env_allowlist", "all_env", "file_access"}, spend : Nat, above : Nat]

Actions == {"BLOCK", "REQUIRE_APPROVAL", "ALLOW"}

Policy ==
  [min : Int, required : Manifest, denied : SUBSET STRING,
   thresholds : Seq([low : Int, high : Int, action : Actions]),
   overrides : Seq([tool : STRING, action : Actions])]

ASSUME PolicyAssumption ==
  /\ Manifests \subseteq Manifest /\ Policies \subseteq Policy
  /\ Scores \subseteq Int

VARIABLES
  polManifest,   \* the tool's manifest
  polPolicy,     \* the policy of the organisation
  polScore,      \* the score it was last evaluated at
  polAction      \* what evaluatePolicy decided; "none" before

polVars == <<polManifest, polPolicy, polScore, polAction>>

Reaches(order, actual, required) ==
  SelectInSeq(order, LAMBDA x : x = actual) >= SelectInSeq(order, LAMBDA x : x = required)

CapabilityLevels == <<"none", "read", "read-write", "full">>

(* matchCapabilities: every requirement is a least level                    *)
MatchCapabilities(m, req) ==
  /\ Reaches(CapabilityLevels, m.read, req.read)
  /\ Reaches(CapabilityLevels, m.write, req.write)
  /\ Reaches(<<"none", "allowlist", "all">>, m.egress, req.egress)
  /\ Reaches(<<"none", "sandboxed", "unrestricted">>, m.exec, req.exec)
  /\ Reaches(<<"none", "env_allowlist", "all_env", "file_access">>, m.env, req.env)
  /\ m.spend >= req.spend

(* Rule 4 looks at two of the capabilities a policy can deny.               *)
HoldsDenied(m, denied) ==
  \/ "shell.exec" \in denied /\ m.exec # "none"
  \/ "network.egress" \in denied /\ m.egress # "none"

(* Slip: the lower end of a range is outside it. *)
AboveLow(score, t) == score > t.low /\ score <= t.high

InRange(score, t) == score >= t.low /\ score <= t.high

(* The action of the first of the rules that fits                           *)
FirstOf(rules, fitting, otherwise) ==
  IF fitting = {} THEN otherwise ELSE rules[Min(fitting)].action

(* evaluatePolicy; a score in no range is allowed                           *)
Evaluate(score, m, p) ==
  LET ranges == {i \in DOMAIN p.thresholds : InRange(score, p.thresholds[i])}
      own    == {i \in DOMAIN p.overrides : p.overrides[i].tool \in {"*", "tool"}} IN
  IF score < p.min \/ ~MatchCapabilities(m, p.required) \/ HoldsDenied(m, p.denied) THEN "BLOCK"
  ELSE FirstOf(p.overrides, own, FirstOf(p.thresholds, ranges, "ALLOW"))

Nothing ==
  [read |-> "none", write |-> "none", egress |-> "none", exec |-> "none", env |-> "none",
   files |-> "none", spend |-> 0, above |-> 0]

(* The ranges of a default policy: blocked up to block, allowed from allow, *)
(* approved by a human between ask and askTo                                *)
Ranges(block, ask, askTo, allow) ==
  << [low |-> 0, high |-> block, action |-> "BLOCK"],
     [low |-> ask, high |-> askTo, action |-> "REQUIRE_APPROVAL"],
     [low |-> allow, high |-> 20, action |-> "ALLOW"] >>

DefaultPolicies ==
  {[min |-> 14, required |-> [Nothing EXCEPT !.read = "read"],
    denied |-> {"shell.exec", "network.egress", "credentials.read_env"},
    thresholds |-> Ranges(8, 10, 14, 16), overrides |-> << >>],
   [min |-> 16, required |-> [Nothing EXCEPT !.read = "read", !.egress = "allowlist",
                                             !.env = "env_allowlist"],
    denied |-> {"shell.exec", "credentials.read_files"},
    thresholds |-> Ranges(10, 12, 14, 16), overrides |-> << >>],
   [min |-> 0, required |-> Nothing, denied |-> {},
    thresholds |-> Tail(Ranges(0, 0, 6, 8)), overrides |-> << >>]}
-----------------------------------------------------------------------------
(* The checks of single accesses                                            *)

Accesses ==
  [op : {"read", "write", "delete", "connect", "exec", "env"},
   denied : BOOLEAN, sensitive : BOOLEAN, listed : BOOLEAN, port : BOOLEAN]
    \union [op : {"pay"}, amount : 0 .. 2, listed : BOOLEAN]

(* filesystem.read is not looked at                                         *)
CheckFilesystemAccess(m, a) ==
  /\ ~a.denied
  /\ a.sensitive => a.op = "read" /\ m.files # "none"
  /\ a.listed
  /\ a.op = "write" => m.write # "none"
  /\ a.op = "delete" => m.write \in {"read-write", "full"}

CheckNetworkAccess(m, a) ==
  /\ ~a.denied /\ ~a.sensitive
  /\ m.egress # "none"
  /\ m.egress = "allowlist" => a.listed
  /\ a.port

(* Slip: only the sandbox is looked at. *)
ShellUnlessSandboxed(m, a) == ~a.sensitive /\ ~a.denied /\ (m.exec = "sandboxed" => a.listed)

CheckShellAccess(m, a) ==
  /\ ~a.sensitive /\ ~a.denied
  /\ m.exec # "none"
  /\ m.exec = "sandboxed" => a.listed

CheckCredentialAccess(m, a) ==
  /\ m.env # "none"
  /\ ~a.denied
  /\ a.sensitive => m.env = "all_env"
  /\ m.env = "env_allowlist" => a.listed

CheckPaymentAccess(m, a) == a.amount <= m.spend /\ a.listed /\ a.amount <= m.above

Allowed(m, a) ==
  CASE a.op \in {"read", "write", "delete"} -> CheckFilesystemAccess(m, a)
    [] a.op = "connect"                     -> CheckNetworkAccess(m, a)
    [] a.op = "exec"                        -> CheckShellAccess(m, a)
    [] a.op = "env"                         -> CheckCredentialAccess(m, a)
    [] a.op = "pay"                         -> CheckPaymentAccess(m, a)
-----------------------------------------------------------------------------
PolInit ==
  /\ polManifest \in Manifests /\ polPolicy \in Policies
  /\ polScore = 0
  /\ polAction = "none"

EvaluatePolicy(score) ==
  /\ polScore' = score
  /\ polAction' = Evaluate(score, polManifest, polPolicy)
  /\ UNCHANGED <<polManifest, polPolicy>>

PolNext == \E score \in Scores : EvaluatePolicy(score)

PolSpec == PolInit /\ [][PolNext]_polVars
-----------------------------------------------------------------------------
(* Policy and checks agree on what a manifest grants.  A tool that is not    *)
(* blocked by a policy that denies shell or network is refused every command *)
(* or connection, whatever the overrides say.  And a tool whose manifest     *)
(* reaches another's levels in the eyes of the policy is allowed all that    *)
(* the other is, but for what the policy does not compare, credential files  *)
(* and the amount above which a payment needs approval, and for sensitive    *)
(* variables, which only all_env may read though file_access counts as more. *)
ChecksFollowPolicy ==
  /\ polAction \in {"ALLOW", "REQUIRE_APPROVAL"} =>
       \A a \in Accesses : Allowed(polManifest, a) =>
         /\ a.op = "exec" => "shell.exec" \notin polPolicy.denied
         /\ a.op = "connect" => "network.egress" \notin polPolicy.denied
  /\ polAction # "none" => \A m \in Manifests : MatchCapabilities(polManifest, m) =>
       \A a \in Accesses : Allowed(m, a) =>
         \/ Allowed(polManifest, a)
         \/ a.op = "env" /\ a.sensitive /\ polManifest.env = "file_access"
         \/ a.op = "read" /\ a.sensitive /\ polManifest.files = "none"
         \/ a.op = "pay" /\ a.amount > polManifest.above

Strictness(action) ==
  CASE action = "BLOCK" -> 2 [] action = "REQUIRE_APPROVAL" -> 1 [] action = "ALLOW" -> 0

(* Under the default policies, and these with overrides of their own, a tool *)
(* whose score rises is never decided more strictly than before, also where  *)
(* the score falls between two ranges.                                       *)
MoreTrustNeverStricter ==
  [][[polPolicy EXCEPT !.overrides = << >>] \in DefaultPolicies
       /\ polAction # "none" /\ polScore' >= polScore
       => Strictness(polAction') <= Strictness(polAction)]_polVars
=============================================================================
