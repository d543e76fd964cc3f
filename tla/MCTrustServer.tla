--------------------------- MODULE MCTrustServer ---------------------------
(***************************************************************************)
(* Instance for TLC of the trust server and of the challenge store in      *)
(* memory, which share no state: focus chooses the one that runs, the      *)
(* other stays as it begins.                                               *)
(***************************************************************************)
EXTENDS TrustServer, MemoryNonceStore

VARIABLE focus

bothVars == <<focus, srvVars, popVars>>

(* The one that does not run begins in one of its initial states.           *)
BothInit ==
  /\ focus \in {"server", "nonces"}
  /\ SrvInit /\ (focus # "server" => ~srvRemote)
  /\ PopInit /\ (focus # "nonces" => /\ genuine = [c \in Calls |-> TRUE]
                                    /\ nonce = [c \in Calls |-> "n1"])

BothNext ==
  /\ \/ focus = "server" /\ SrvNext /\ UNCHANGED popVars
     \/ focus = "nonces" /\ Next /\ UNCHANGED srvVars
  /\ UNCHANGED focus

(* The fairness of the server while it runs; the store has none.            *)
BothSpec == BothInit /\ [][BothNext]_bothVars /\ (focus = "server" => SrvFairness)
-----------------------------------------------------------------------------
Card3 ==
  [input |-> "object", fields |-> {"atc_version"}, sig |-> "good", issuer |-> "ca",
   keyId |-> TRUE, agentKey |-> TRUE, binding |-> "none", issued |-> {0}, expires |-> {1},
   revoked |-> FALSE, evidence |-> "good", score |-> 7]

Caller ==
  [format |-> "any", caKey |-> TRUE, issuers |-> {"ca"}, pop |-> "none", needPop |-> FALSE,
   needBinding |-> FALSE, maxAge |-> 0, minScore |-> 5]

Ask(client, route, key, args) ==
  [client |-> client, route |-> route, card |-> "card", key |-> key,
   input |-> [cred |-> Card3, ctx |-> Caller, args |-> args]]

SomeAsks ==
  {Ask("a1", "check", FALSE, "plain"), Ask("a1", "check", FALSE, "shell"),
   Ask("a1", "status", FALSE, "plain"), Ask("a2", "status", FALSE, "plain"),
   Ask("a2", "revoke", TRUE, "plain"), Ask("a2", "revoke", FALSE, "plain"),
   Ask("a2", "issue", TRUE, "plain")}
=============================================================================
