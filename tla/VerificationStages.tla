------------------------- MODULE VerificationStages -------------------------
(***************************************************************************)
(* The stages of verifyCredential (core/verification-pipeline.ts) on a     *)
(* credential and a context, but for the call of the revocation checker in *)
(* stage 09.  A credential is a record of what the stages read of it:      *)
(*   input      "object", "text" (a JSON string), or "junk"                *)
(*   fields     the top-level fields that are present                      *)
(*   sig        its first signature under the CA key: "good", "bad", "none"*)
(*   issuer     the issuer it names                                        *)
(*   keyId      does its signature name a key?                             *)
(*   agentKey   does it hold a public key of the agent?                    *)
(*   binding    its artifact binding: "good", "bad" (hash) or "none"       *)
(*   issued, expires            the dates of its lifecycle, each as a set  *)
(*              of at most one: empty when absent or not a date            *)
(*   revoked    its own flag                                               *)
(*   evidence   "good", "bad" (a hash differs) or "none"                   *)
(*   score      its trust score                                            *)
(* and a context one of what the caller gave:                              *)
(*   format     the format it expects, or "any"                            *)
(*   caKey      a CA public key?                                           *)
(*   issuers    policy.allowed_issuers, empty when not set                 *)
(*   pop        the PoP response: "good", "bad" or "none"                  *)
(*   needPop, needBinding       what the policy requires                   *)
(*   maxAge, minScore           policy.max_age_days, 0 for none; minimum   *)
(***************************************************************************)
EXTENDS Naturals, Sequences, SequencesExt

Has(c, F) == F \subseteq c.fields

(* The formats detectFormat tries in this order, and whether c has the      *)
(* fields of each                                                           *)
Candidates(c) ==
  << <<"atc-v3",   Has(c, {"atc_version"})>>,
     <<"atc-v2",   Has(c, {"card_id", "payload", "signature"})>>,
     <<"zta",      \/ Has(c, {"zta_version"})
                   \/ Has(c, {"agent_id", "trust"}) /\ "card_id" \notin c.fields>>,
     <<"a2a-card", /\ Has(c, {"capabilities", "version"})
                   /\ c.fields \intersect {"service_endpoint", "url"} # {}
                   /\ "signature" \notin c.fields>>,
     <<"mcp-card", Has(c, {"protocolVersion", "tools", "serverInfo"})>>,
     <<"eat-ai",   /\ Has(c, {"iss", "sub"})
                   /\ c.fields \intersect {"iat", "trust_score"} # {}>> >>

Format(c) ==
  LET found == SelectInSeq(Candidates(c), LAMBDA x : x[2])
  IN IF c.input # "object" \/ found = 0 THEN "none" ELSE Candidates(c)[found][1]

(* validateSchema, beyond what the detection of the format already asks;    *)
(* "algorithm" stands for signature.algorithm                               *)
Schema(c) ==
  Has(c, CASE Format(c) = "atc-v2"   -> {"algorithm"}
           [] Format(c) = "zta"      -> {"agent_id", "trust"}
           [] Format(c) = "a2a-card" -> {"name"}
           [] OTHER                  -> {})

Signed(c) == Format(c) \in {"atc-v2", "atc-v3"}
Carded(c) == Format(c) \in {"atc-v2", "atc-v3", "zta"}

(* extractIssuer and the other extractors: what a format does not have      *)
(* reads as unknown, absent or zero                                         *)
Issuer(c)   == IF Carded(c) \/ Format(c) = "eat-ai" THEN c.issuer ELSE "unknown"
KeyId(c)    == Signed(c) /\ c.keyId
AgentKey(c) == Carded(c) /\ c.agentKey
Binding(c)  == IF Signed(c) THEN c.binding ELSE "none"
Evidence(c) == IF Carded(c) THEN c.evidence ELSE "none"
Score(c)    == IF Carded(c) THEN c.score ELSE 0

(* 04: without a CA key only an MCP or A2A card goes on                     *)
Crypto(c, x) ==
  IF x.caKey THEN Signed(c) /\ c.sig = "good" ELSE Format(c) \in {"mcp-card", "a2a-card"}

(* 07: PoP                                                                  *)
Possession(c, x) == x.needPop => x.pop = "good" /\ AgentKey(c)

(* 09 up to the revocation checker.  A date that is absent is not looked    *)
(* at, and every comparison with one that does not parse is false.          *)
Lifecycle(c, x, now) ==
  Carded(c) => /\ \A t \in c.expires : t >= now
               /\ x.maxAge # 0 => \A t \in c.issued : now <= t + x.maxAge
               /\ ~c.revoked

(* The stages before the revocation checker is awaited, and those after it  *)
Before(c, x, now) ==
  << <<"01_PARSE",       c.input # "junk">>,
     <<"02_DETECT",      Format(c) # "none" /\ x.format \in {"any", Format(c)}>>,
     <<"03_SCHEMA",      Schema(c)>>,
     <<"04_CRYPTO",      Crypto(c, x)>>,
     <<"05_ISSUER",      Issuer(c) \in x.issuers>>,
     <<"06_KEY_BINDING", KeyId(c) \/ Format(c) = "atc-v2">>,
     <<"07_POP",         Possession(c, x)>>,
     <<"08_PROVENANCE",  x.needBinding => Binding(c) = "good">>,
     <<"09_LIFECYCLE",   Lifecycle(c, x, now)>> >>

After(c, x) ==
  << <<"10_EVIDENCE", Evidence(c) # "bad">>,
     <<"11_POLICY",   Score(c) >= x.minScore>> >>

(* The first of the stages that fails, or what they lead to                 *)
FirstFailure(stages, then) ==
  LET failed == SelectInSeq(stages, LAMBDA s : ~s[2])
  IN IF failed = 0 THEN then ELSE stages[failed][1]

(* verifyCredential without a revocation checker                            *)
Verdict(c, x, now) == FirstFailure(Before(c, x, now) \o After(c, x), "ALLOW")
=============================================================================
