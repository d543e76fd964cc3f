----------------------------- MODULE MCLibrary -----------------------------
(***************************************************************************)
(* Instance for TLC of the components that share no state with another:    *)
(* focus chooses the one that runs, the others stay as they begin.  The    *)
(* behaviours are those of each component alone.                           *)
(***************************************************************************)
EXTENDS SupabaseNonceStore, KeyRotation, Approvals, RevocationGate, TokenBucket,
        RevocationLog, AuditTrail, Tenants, VerificationPipeline, RequestLimit,
        ThresholdSignatures, OrgPolicy

VARIABLE focus

Components ==
  {"nonces", "rotation", "approvals", "gate", "bucket", "log", "trail", "tenants",
   "pipeline", "limit", "signatures", "policy"}

libVars == <<focus, clock, supVars, rotOwn, aprOwn, gateOwn, tbOwn, rlogOwn, alogVars, tenVars,
             vpOwn, limVars, msigVars, polVars>>

(* The policy verifyAnyFormat of the server asks for                         *)
Lenient == [min |-> 1, required |-> {}, closed |-> FALSE]

(* A component that does not run begins in one of its initial states.        *)
LibInit ==
  /\ focus \in Components
  /\ ClockInit /\ RotInit /\ AprInit /\ GateInit /\ AlogInit /\ TenInit /\ VpInit /\ LimInit
  /\ SupInit  /\ (focus # "nonces" => genuine = [c \in Calls |-> TRUE])
  /\ TbInit   /\ (focus # "bucket" => ~tbShared)
  /\ RlogInit /\ (focus # "log" => rlogKey)
  /\ MsigInit /\ (focus # "signatures" => msigKnown = {} /\ msigPolicy = Lenient)
  /\ PolInit  /\ (focus # "policy" => polManifest = Nothing /\ polPolicy.min = 0 /\ polPolicy.overrides = << >>)

(* What a component leaves alone                                            *)
Others(component) ==
  /\ component # "nonces"    => UNCHANGED supVars
  /\ component # "rotation"  => UNCHANGED rotOwn
  /\ component # "approvals" => UNCHANGED aprOwn
  /\ component # "gate"      => UNCHANGED gateOwn
  /\ component # "bucket"    => UNCHANGED tbOwn
  /\ component # "log"       => UNCHANGED rlogOwn
  /\ component # "trail"     => UNCHANGED alogVars
  /\ component # "tenants"   => UNCHANGED tenVars
  /\ component # "pipeline"  => UNCHANGED vpOwn
  /\ component # "limit"     => UNCHANGED limVars
  /\ component # "signatures" => UNCHANGED msigVars
  /\ component # "policy"    => UNCHANGED polVars
  /\ component \in {"nonces", "trail", "tenants", "signatures", "policy"} => UNCHANGED clock

LibNext ==
  /\ \/ focus = "nonces" /\ Next
     \/ focus = "rotation" /\ RotNext
     \/ focus = "approvals" /\ AprNext
     \/ focus = "gate" /\ GateNext
     \/ focus = "bucket" /\ TbNext
     \/ focus = "log" /\ RlogNext
     \/ focus = "trail" /\ AlogNext
     \/ focus = "tenants" /\ TenNext
     \/ focus = "pipeline" /\ VpNext
     \/ focus = "limit" /\ LimNext
     \/ focus = "signatures" /\ MsigNext
     \/ focus = "policy" /\ PolNext
  /\ Others(focus)
  /\ UNCHANGED focus

LibSpec == LibInit /\ [][LibNext]_libVars
-----------------------------------------------------------------------------
(* Credentials: one of each format that passes what its format asks, and     *)
(* each with one thing changed                                               *)
Shapes ==
  {{"atc_version"}, {"card_id", "payload", "signature", "algorithm"},
   {"card_id", "payload", "signature"}, {"agent_id", "trust"}, {"zta_version"},
   {"capabilities", "version", "url", "name"}, {"capabilities", "version", "url"},
   {"protocolVersion", "tools", "serverInfo"}, {"iss", "sub", "iat"}, {"name"}}

Passing(shape) ==
  [input |-> "object", fields |-> shape, sig |-> "good", issuer |-> "ca", keyId |-> TRUE,
   agentKey |-> TRUE, binding |-> "good", issued |-> {0}, expires |-> {2}, revoked |-> FALSE,
   evidence |-> "good", score |-> 7]

Variants(c) ==
  {c, [c EXCEPT !.input = "text"], [c EXCEPT !.input = "junk"], [c EXCEPT !.sig = "bad"],
   [c EXCEPT !.sig = "none"], [c EXCEPT !.issuer = "unknown"], [c EXCEPT !.keyId = FALSE],
   [c EXCEPT !.agentKey = FALSE], [c EXCEPT !.binding = "bad"], [c EXCEPT !.revoked = TRUE],
   [c EXCEPT !.evidence = "bad"], [c EXCEPT !.score = 3], [c EXCEPT !.expires = {0}],
   [c EXCEPT !.expires = {}, !.issued = {}]}

SomeCredentials == UNION {Variants(Passing(s)) : s \in Shapes}

Strict ==
  [format |-> "any", caKey |-> TRUE, issuers |-> {"ca", "unknown"}, pop |-> "good",
   needPop |-> TRUE, needBinding |-> TRUE, maxAge |-> 1, minScore |-> 5]

SomeContexts ==
  {Strict, [Strict EXCEPT !.format = "atc-v3"], [Strict EXCEPT !.caKey = FALSE],
   [Strict EXCEPT !.issuers = {}], [Strict EXCEPT !.pop = "none"],
   [Strict EXCEPT !.needPop = FALSE], [Strict EXCEPT !.maxAge = 0]}
-----------------------------------------------------------------------------
(* Lenient and stricter policies                                             *)
SomeSigPolicies ==
  {Lenient, [Lenient EXCEPT !.closed = TRUE], [Lenient EXCEPT !.min = 2],
   [min |-> 2, required |-> {"s1"}, closed |-> TRUE]}

(* Manifests: nothing, and each group of levels that belong together         *)
SomeManifests ==
  {Nothing, [read |-> "full", write |-> "full", egress |-> "all", exec |-> "unrestricted",
             env |-> "all_env", files |-> "file_access", spend |-> 2, above |-> 1],
   [Nothing EXCEPT !.spend = 2], [Nothing EXCEPT !.spend = 1, !.above = 2]}
    \union {[Nothing EXCEPT !.read = r, !.write = w] :
              r \in {"none", "read"}, w \in {"none", "read", "read-write", "full"}}
    \union {[Nothing EXCEPT !.read = "read", !.egress = n, !.exec = x, !.env = "env_allowlist"] :
              n \in {"none", "allowlist", "all"}, x \in {"none", "sandboxed", "unrestricted"}}
    \union {[Nothing EXCEPT !.env = e, !.files = f] :
              e \in {"none", "env_allowlist", "all_env", "file_access"}, f \in {"none", "env_allowlist"}}

(* The default policies, and these with an override for every tool           *)
SomePolicies ==
  DefaultPolicies \union
    {[p EXCEPT !.overrides = <<[tool |-> "other", action |-> "BLOCK"], [tool |-> "*", action |-> a]>>] :
       p \in DefaultPolicies, a \in {"ALLOW", "BLOCK"}}
=============================================================================
