---------------------------- MODULE TrustServer ----------------------------
(***************************************************************************)
(* The trust server (packages/server/src/index.ts): requests arrive on     *)
(* connections, are counted, await their body and then the store, while    *)
(* the gateway's receipts are inserted without being awaited and           *)
(* GracefulShutdown (server/src/hardening.ts) drains the connections and   *)
(* ends the process.  The stores are in memory, or remote and outlive it.  *)
(***************************************************************************)
EXTENDS RequestLimit, VerificationStages, FiniteSets

CONSTANTS
  Requests,      \* requests, each sent at most once
  Asks,          \* what a request asks: [client, route, card, key, input]:
                 \* key is whether it carries the admin key, input the gateway
                 \* check's [cred, ctx, args]
  Cards,         \* credential ids
  Handlers,      \* how many shutdown handlers were added
  DrainTime,     \* shutdownTimeoutMs
  MaxRestarts    \* bound of the restarts

ASSUME ServerAssumption ==
  /\ Handlers \in Nat /\ DrainTime \in Nat /\ MaxRestarts \in Nat
  /\ \A ask \in Asks : ask.client \in Addresses /\ ask.card \in Cards

VARIABLES
  srvProc,        \* "up", "draining", "handlers" (running them), "ended"
  srvRemote,      \* are the stores remote?
  srvConns,       \* open connections: addresses
  srvAsk,         \* srvAsk[r]: what r asks, a set of at most one
  srvState,       \* srvState[r]: "unsent", "body", "store", "done", "lost"
  srvAnswer,      \* srvAnswer[r]: its answer
  srvRevoked,     \* cards the revocation store holds as revoked
  srvInserting,   \* requests whose receipt is on the way to a remote store
  srvReceipts,    \* requests whose receipt is in the store
  srvDrain,       \* drainStart
  srvLeft,        \* shutdown handlers still to run
  srvHung,        \* does the handler that runs never end?
  srvRestarts,    \* restarts so far
  srvLife,        \* srvLife[r]: the restarts when r was answered
  srvAcked,       \* cards whose revocation was answered with 200, by a store
                  \* that has not been lost since
  srvKnown        \* srvKnown[r]: srvAcked when r arrived

srvOwn == <<srvProc, srvRemote, srvConns, srvAsk, srvState, srvAnswer, srvRevoked, srvInserting,
            srvReceipts, srvDrain, srvLeft, srvHung, srvRestarts, srvLife, srvAcked, srvKnown>>
srvProcess == <<srvProc, srvDrain, srvLeft, srvHung, srvRestarts>>
srvStores  == <<srvRevoked, srvInserting, srvReceipts, srvAcked>>
srvReqs    == <<srvAsk, srvState, srvAnswer, srvLife, srvKnown>>
srvVars == <<clock, limVars, srvOwn>>

SrvInit ==
  /\ ClockInit /\ LimInit
  /\ srvProc = "up" /\ srvRemote \in BOOLEAN /\ srvConns = {}
  /\ srvAsk = [r \in Requests |-> {}]
  /\ srvState = [r \in Requests |-> "unsent"]
  /\ srvAnswer = [r \in Requests |-> "none"]
  /\ srvRevoked = {} /\ srvInserting = {} /\ srvReceipts = {}
  /\ srvDrain = 0 /\ srvLeft = 0 /\ srvHung = FALSE /\ srvRestarts = 0
  /\ srvLife = [r \in Requests |-> 0]
  /\ srvAcked = {}
  /\ srvKnown = [r \in Requests |-> {}]

Running == srvProc # "ended"

Connect(a) ==
  /\ srvProc = "up" /\ a \notin srvConns
  /\ srvConns' = srvConns \union {a}
  /\ UNCHANGED <<clock, limVars, srvProcess, srvStores, srvReqs, srvRemote>>

Disconnect(a) ==
  /\ a \in srvConns
  /\ srvConns' = srvConns \ {a}
  /\ UNCHANGED <<clock, limVars, srvProcess, srvStores, srvReqs, srvRemote>>

-----------------------------------------------------------------------------
(* Requests                                                                 *)

Await(r, what) ==
  /\ srvState' = [srvState EXCEPT ![r] = what]
  /\ UNCHANGED <<srvAnswer, srvLife>>

Answer(r, answer) ==
  /\ srvState' = [srvState EXCEPT ![r] = "done"]
  /\ srvAnswer' = [srvAnswer EXCEPT ![r] = answer]
  /\ srvLife' = [srvLife EXCEPT ![r] = srvRestarts]

StatusOf(card) == IF card \in srvRevoked THEN "revoked" ELSE "unknown"

(* The admin key is compared before the body is read; a status is read from *)
(* a store in memory at once.                                               *)
Route(r, ask) ==
  CASE ~ask.key /\ ask.route \in {"issue", "revoke"} -> Answer(r, "401")
    [] ask.route = "status" /\ ~srvRemote            -> Answer(r, StatusOf(ask.card))
    [] ask.route = "status" /\ srvRemote             -> Await(r, "store")
    [] OTHER                                         -> Await(r, "body")

Arrive(r, ask) ==
  /\ srvState[r] = "unsent" /\ srvProc \in {"up", "draining"} /\ ask.client \in srvConns
  /\ srvAsk' = [srvAsk EXCEPT ![r] = {ask}]
  /\ srvKnown' = [srvKnown EXCEPT ![r] = srvAcked]
  /\ CheckRateLimit(ask.client)
  /\ IF Admits(ask.client) THEN Route(r, ask) ELSE Answer(r, "429")
  /\ UNCHANGED <<clock, srvProcess, srvStores, srvRemote, srvConns>>

(* check of TrustGateway: the pipeline, then the dangerous arguments        *)
Decision(input) ==
  IF Verdict(input.cred, input.ctx, clock) = "ALLOW" /\ input.args = "plain" THEN "ALLOW" ELSE "DENY"

(* The receipt is generated and handed to the store, whose insert is not    *)
(* awaited, before ALLOW is answered                                        *)
GatewayCheck(r, ask) ==
  /\ Answer(r, Decision(ask.input))
  /\ IF Decision(ask.input) = "ALLOW"
     THEN IF srvRemote THEN srvInserting' = srvInserting \union {r} /\ UNCHANGED srvReceipts
          ELSE srvReceipts' = srvReceipts \union {r} /\ UNCHANGED srvInserting
     ELSE UNCHANGED <<srvInserting, srvReceipts>>
  /\ UNCHANGED <<srvRevoked, srvAcked>>

(* Slip: the revocation is answered while the store is still at it. *)
RevokeUnawaited(r, ask) ==
  /\ Answer(r, "200")
  /\ srvAcked' = srvAcked \union {ask.card}
  /\ srvRevoked' = IF srvRemote THEN srvRevoked ELSE srvRevoked \union {ask.card}
  /\ UNCHANGED <<srvInserting, srvReceipts>>

(* setStatus: at once in memory, awaited in a remote store                  *)
RevokeCard(r, ask) ==
  /\ IF srvRemote
     THEN Await(r, "store") /\ UNCHANGED <<srvRevoked, srvAcked>>
     ELSE /\ Answer(r, "200")
          /\ srvRevoked' = srvRevoked \union {ask.card}
          /\ srvAcked' = srvAcked \union {ask.card}
  /\ UNCHANGED <<srvInserting, srvReceipts>>

(* The body has been read, or it broke off or is no JSON: a revocation goes *)
(* on without it, every other route fails                                   *)
BodyEnds(r, whole) ==
  /\ Running /\ srvState[r] = "body"
  /\ \E ask \in srvAsk[r] :
       \/ ask.route = "revoke" /\ RevokeCard(r, ask)
       \/ ask.route # "revoke" /\ ~whole /\ Answer(r, "500") /\ UNCHANGED srvStores
       \/ ask.route = "check" /\ whole /\ GatewayCheck(r, ask)
       \/ ask.route = "issue" /\ whole /\ Answer(r, "201") /\ UNCHANGED srvStores
  /\ UNCHANGED <<clock, limVars, srvProcess, srvRemote, srvConns, srvAsk, srvKnown>>

(* A remote store carries out an update whose answer is still on the way.   *)
StoreApplies(r) ==
  /\ Running /\ srvState[r] = "store"
  /\ \E ask \in srvAsk[r] : ask.route = "revoke" /\ srvRevoked' = srvRevoked \union {ask.card}
  /\ UNCHANGED <<clock, limVars, srvProcess, srvRemote, srvConns, srvReqs, srvInserting,
                 srvReceipts, srvAcked>>

(* It answers, or with an error, which the handler answers with 500         *)
StoreAnswers(r) ==
  /\ Running /\ srvState[r] = "store"
  /\ \E ask \in srvAsk[r] :
       \/ /\ ask.route = "status"
          /\ Answer(r, StatusOf(ask.card))
          /\ UNCHANGED <<srvRevoked, srvAcked>>
       \/ /\ ask.route = "revoke"
          /\ Answer(r, "200")
          /\ srvRevoked' = srvRevoked \union {ask.card}
          /\ srvAcked' = srvAcked \union {ask.card}
       \/ Answer(r, "500") /\ UNCHANGED <<srvRevoked, srvAcked>>
  /\ UNCHANGED <<clock, limVars, srvProcess, srvRemote, srvConns, srvAsk, srvKnown,
                 srvInserting, srvReceipts>>

ReceiptStored(r) ==
  /\ Running /\ r \in srvInserting
  /\ srvInserting' = srvInserting \ {r}
  /\ srvReceipts' = srvReceipts \union {r}
  /\ UNCHANGED <<clock, limVars, srvProcess, srvRemote, srvConns, srvReqs, srvRevoked, srvAcked>>

-----------------------------------------------------------------------------
(* The process                                                              *)

(* What was awaited is lost, an insert on the way may still land, and stores *)
(* in memory are gone.                                                       *)
ProcessEnds ==
  /\ srvProc' = "ended"
  /\ srvConns' = {}
  /\ srvState' = [r \in Requests |-> IF srvState[r] \in {"body", "store"} THEN "lost" ELSE srvState[r]]
  /\ srvInserting' = {}
  /\ \E landed \in SUBSET srvInserting :
       srvReceipts' = IF srvRemote THEN srvReceipts \union landed ELSE {}
  /\ srvRevoked' = IF srvRemote THEN srvRevoked ELSE {}
  /\ srvAcked' = IF srvRemote THEN srvAcked ELSE {}
  /\ limCount' = [a \in Addresses |-> 0]
  /\ limStart' = [a \in Addresses |-> 0]
  /\ limLog' = [a \in Addresses |-> << >>]
  /\ UNCHANGED <<clock, srvRemote, srvAsk, srvAnswer, srvLife, srvKnown, srvDrain, srvLeft,
                 srvHung, srvRestarts>>

(* Slip: an insert that fails is only logged. *)
InsertLogged(r) ==
  /\ Running /\ r \in srvInserting
  /\ srvInserting' = srvInserting \ {r}
  /\ UNCHANGED <<clock, limVars, srvProcess, srvRemote, srvConns, srvReqs, srvRevoked,
                 srvReceipts, srvAcked>>

(* The insert of a receipt fails: nobody handles the rejection, which ends  *)
(* the process                                                              *)
InsertFails(r) == Running /\ r \in srvInserting /\ ProcessEnds

Killed == Running /\ ProcessEnds

Restart ==
  /\ srvProc = "ended" /\ srvRestarts < MaxRestarts
  /\ srvProc' = "up"
  /\ srvRestarts' = srvRestarts + 1
  /\ srvHung' = FALSE
  /\ UNCHANGED <<clock, limVars, srvStores, srvReqs, srvRemote, srvConns, srvDrain, srvLeft>>

(* shutdown, at the first signal; the clock's bound leaves time to drain    *)
Signal ==
  /\ srvProc = "up" /\ clock + DrainTime <= MaxClock
  /\ srvProc' = "draining"
  /\ srvDrain' = clock
  /\ UNCHANGED <<clock, limVars, srvStores, srvReqs, srvRemote, srvConns, srvLeft, srvHung, srvRestarts>>

(* Slip: the drain has no time limit. *)
DrainWaits ==
  /\ srvProc = "draining" /\ srvConns = {}
  /\ srvProc' = "handlers"
  /\ srvLeft' = Handlers
  /\ UNCHANGED <<clock, limVars, srvStores, srvReqs, srvRemote, srvConns, srvDrain, srvHung, srvRestarts>>

(* The connections that linger are destroyed; their requests run on.        *)
DrainEnds ==
  /\ srvProc = "draining"
  /\ srvConns = {} \/ clock - srvDrain >= DrainTime
  /\ srvConns' = {}
  /\ srvProc' = "handlers"
  /\ srvLeft' = Handlers
  /\ UNCHANGED <<clock, limVars, srvStores, srvReqs, srvRemote, srvDrain, srvHung, srvRestarts>>

(* A handler returns or throws, which is the same; or it never ends.        *)
HandlerRuns ==
  /\ srvProc = "handlers" /\ srvLeft > 0 /\ ~srvHung
  /\ \/ srvLeft' = srvLeft - 1 /\ UNCHANGED srvHung
     \/ srvHung' = TRUE /\ UNCHANGED srvLeft
  /\ UNCHANGED <<clock, limVars, srvStores, srvReqs, srvRemote, srvConns, srvProc, srvDrain, srvRestarts>>

(* process.exit                                                             *)
Exit == srvProc = "handlers" /\ srvLeft = 0 /\ ProcessEnds

ServerTime == TimePasses /\ UNCHANGED <<limVars, srvOwn>>

SrvNext ==
  \/ \E a \in Addresses : Connect(a) \/ Disconnect(a)
  \/ \E r \in Requests :
       \/ \E ask \in Asks : Arrive(r, ask)
       \/ \E whole \in BOOLEAN : BodyEnds(r, whole)
       \/ StoreApplies(r) \/ StoreAnswers(r) \/ ReceiptStored(r) \/ InsertFails(r)
  \/ Killed \/ Restart
  \/ Signal \/ DrainEnds \/ HandlerRuns \/ Exit
  \/ ServerTime

(* Time passes, and the loop of shutdown, its handlers and the exit run     *)
SrvFairness ==
  /\ WF_srvVars(ServerTime)
  /\ WF_srvVars(DrainEnds)
  /\ WF_srvVars(HandlerRuns)
  /\ WF_srvVars(Exit)

SrvSpec == SrvInit /\ [][SrvNext]_srvVars /\ SrvFairness
-----------------------------------------------------------------------------
(* Once a revocation has been answered with 200, every status asked for      *)
(* afterwards is "revoked" or an error, as long as the store is not lost: no *)
(* order of the store's answers, and no restart over a remote store, brings  *)
(* the card back.                                                            *)
RevocationIsSeen ==
  \A r \in Requests : \A ask \in srvAsk[r] :
    ask.route = "status" /\ ask.card \in srvKnown[r]
      => srvAnswer[r] \in {"none", "revoked", "429", "500"}

(* An ALLOW of the gateway has its receipt in the store or on the way there, *)
(* though nobody awaits it: a receipt that is not stored takes the process   *)
(* that answered with it, and a process that ends takes those on the way.    *)
AllowLeavesReceipt ==
  \A r \in Requests : srvAnswer[r] = "ALLOW" =>
    \/ r \in srvReceipts \union srvInserting
    \/ srvProc = "ended" \/ srvLife[r] < srvRestarts

(* A shutdown ends: lingering connections do not hold it up beyond the drain *)
(* time.  Only a shutdown handler that never ends does, for they are awaited *)
(* without a time limit.                                                     *)
ShutdownEnds == srvProc = "draining" ~> srvProc = "ended" \/ srvHung
=============================================================================
