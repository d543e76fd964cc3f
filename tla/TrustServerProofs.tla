-------------------------- MODULE TrustServerProofs --------------------------
(***************************************************************************)
(* What the trust server's answers promise, proved for every set of        *)
(* requests, any number of restarts and every order in which stores        *)
(* answer, fail and lose what was on its way to them.                      *)
(***************************************************************************)
EXTENDS TrustServer, TLAPS

SrvAnswers == {"none", "401", "429", "500", "200", "201", "revoked", "unknown", "ALLOW", "DENY"}

SrvTypes ==
  /\ srvRemote \in BOOLEAN
  /\ srvAsk \in [Requests -> SUBSET Asks]
  /\ srvState \in [Requests -> {"unsent", "body", "store", "done", "lost"}]
  /\ srvAnswer \in [Requests -> SrvAnswers]
  /\ srvAcked \subseteq Cards
  /\ srvRestarts \in Nat
  /\ srvLife \in [Requests -> Nat]
  /\ srvKnown \in [Requests -> SUBSET Cards]

(* A request asks one thing, once, and has no answer before it is answered; *)
(* what was acknowledged is in the store.                                   *)
ReqInv ==
  /\ SrvTypes
  /\ srvAcked \subseteq srvRevoked
  /\ \A r \in Requests :
       /\ srvState[r] # "done" => srvAnswer[r] = "none"
       /\ srvState[r] = "unsent" => srvAsk[r] = {}
       /\ srvLife[r] <= srvRestarts
       /\ \A a, b \in srvAsk[r] : a = b

(* A status still to be read, of a card whose revocation was acknowledged    *)
(* before the request, will be read as revoked.                              *)
Pinned ==
  \A r \in Requests : \A ask \in srvAsk[r] :
    srvState[r] = "store" /\ ask.route = "status" /\ ask.card \in srvKnown[r]
      => srvRemote /\ ask.card \in srvRevoked

SrvInv == ReqInv /\ Pinned /\ RevocationIsSeen /\ AllowLeavesReceipt

LEMMA SrvInvInit == SrvInit => SrvInv
BY DEF SrvInit, SrvInv, ReqInv, SrvTypes, SrvAnswers, Pinned, RevocationIsSeen, AllowLeavesReceipt
-----------------------------------------------------------------------------
(* One request                                                              *)

(* What a step of request r may do: to its own state, and to stores that    *)
(* only grow.                                                               *)
ReqStep(r) ==
  /\ \A q \in Requests \ {r} :
       /\ srvState'[q] = srvState[q] /\ srvAnswer'[q] = srvAnswer[q] /\ srvLife'[q] = srvLife[q]
       /\ srvAsk'[q] = srvAsk[q] /\ srvKnown'[q] = srvKnown[q]
  /\ UNCHANGED <<srvProc, srvRemote, srvRestarts>>
  /\ srvRevoked \subseteq srvRevoked' /\ srvAcked' \subseteq srvRevoked'
  /\ srvReceipts \union srvInserting \subseteq srvReceipts' \union srvInserting'

(* A step of r that keeps the invariant for r keeps it for all.             *)
LEMMA ReqStepKeeps ==
  ASSUME SrvInv, SrvTypes', NEW r \in Requests, ReqStep(r),
         srvState'[r] # "done" => srvAnswer'[r] = "none",
         srvState'[r] # "unsent",
         srvLife'[r] <= srvRestarts,
         \A a, b \in srvAsk'[r] : a = b,
         \A ask \in srvAsk'[r] : ask.route = "status" /\ ask.card \in srvKnown'[r] =>
           /\ srvState'[r] = "store" => srvRemote /\ ask.card \in srvRevoked'
           /\ srvAnswer'[r] \in {"none", "revoked", "429", "500"},
         srvAnswer'[r] = "ALLOW" => r \in srvReceipts' \union srvInserting'
  PROVE  SrvInv'
<1>1. SrvTypes /\ ReqInv /\ Pinned /\ RevocationIsSeen /\ AllowLeavesReceipt
  BY DEF SrvInv, ReqInv
<1>2. ReqInv'
  <2>1. ASSUME NEW q \in Requests
        PROVE  /\ srvState'[q] # "done" => srvAnswer'[q] = "none"
               /\ srvState'[q] = "unsent" => srvAsk'[q] = {}
               /\ srvLife'[q] <= srvRestarts'
               /\ \A a, b \in srvAsk'[q] : a = b
    BY <1>1 DEF ReqStep, ReqInv
  <2>2. srvAcked' \subseteq srvRevoked'
    BY DEF ReqStep
  <2>3. QED
    BY <2>1, <2>2 DEF ReqInv
<1>3. Pinned'
  <2> SUFFICES ASSUME NEW q \in Requests, NEW ask \in srvAsk'[q], srvState'[q] = "store",
                      ask.route = "status", ask.card \in srvKnown'[q]
               PROVE  srvRemote' /\ ask.card \in srvRevoked'
    BY DEF Pinned
  <2>1. QED
    BY <1>1 DEF ReqStep, Pinned
<1>4. RevocationIsSeen'
  <2> SUFFICES ASSUME NEW q \in Requests, NEW ask \in srvAsk'[q],
                      ask.route = "status", ask.card \in srvKnown'[q]
               PROVE  srvAnswer'[q] \in {"none", "revoked", "429", "500"}
    BY DEF RevocationIsSeen
  <2>1. QED
    BY <1>1 DEF ReqStep, RevocationIsSeen
<1>5. AllowLeavesReceipt'
  <2> SUFFICES ASSUME NEW q \in Requests, srvAnswer'[q] = "ALLOW",
                      srvProc' # "ended", ~(srvLife'[q] < srvRestarts')
               PROVE  q \in srvReceipts' \union srvInserting'
    BY DEF AllowLeavesReceipt
  <2>1. QED
    BY <1>1 DEF ReqStep, AllowLeavesReceipt
<1>6. QED
  BY <1>2, <1>3, <1>4, <1>5 DEF SrvInv

(* The two ways a step leaves its own request, read off the functions.      *)
LEMMA AnswerShows ==
  ASSUME SrvTypes, NEW r \in Requests, NEW answer \in SrvAnswers, Answer(r, answer)
  PROVE  /\ srvState'[r] = "done" /\ srvAnswer'[r] = answer /\ srvLife'[r] = srvRestarts
         /\ \A q \in Requests \ {r} :
              srvState'[q] = srvState[q] /\ srvAnswer'[q] = srvAnswer[q] /\ srvLife'[q] = srvLife[q]
         /\ srvState' \in [Requests -> {"unsent", "body", "store", "done", "lost"}]
         /\ srvAnswer' \in [Requests -> SrvAnswers]
         /\ srvLife' \in [Requests -> Nat]
BY DEF Answer, SrvTypes

LEMMA AwaitShows ==
  ASSUME SrvTypes, NEW r \in Requests, NEW what \in {"body", "store"}, Await(r, what)
  PROVE  /\ srvState'[r] = what
         /\ UNCHANGED <<srvAnswer, srvLife>>
         /\ \A q \in Requests \ {r} : srvState'[q] = srvState[q]
         /\ srvState' \in [Requests -> {"unsent", "body", "store", "done", "lost"}]
BY DEF Await, SrvTypes

LEMMA ArriveStep ==
  ASSUME SrvInv, NEW r \in Requests, NEW ask \in Asks, Arrive(r, ask)
  PROVE  SrvInv'
<1>1. SrvTypes /\ ReqInv
  BY DEF SrvInv, ReqInv
<1>2. /\ srvState[r] = "unsent" /\ srvAnswer[r] = "none"
      /\ srvAsk' = [srvAsk EXCEPT ![r] = {ask}] /\ srvKnown' = [srvKnown EXCEPT ![r] = srvAcked]
      /\ UNCHANGED <<srvProc, srvRemote, srvRestarts, srvRevoked, srvInserting, srvReceipts, srvAcked>>
  BY <1>1 DEF Arrive, ReqInv, srvProcess, srvStores
<1>3. srvAsk'[r] = {ask} /\ srvKnown'[r] = srvAcked /\ srvAcked \subseteq srvRevoked
  BY <1>1, <1>2 DEF ReqInv, SrvTypes
<1>4. srvAsk' \in [Requests -> SUBSET Asks] /\ srvKnown' \in [Requests -> SUBSET Cards]
  BY <1>1, <1>2 DEF SrvTypes
<1>5. \A q \in Requests \ {r} : srvAsk'[q] = srvAsk[q] /\ srvKnown'[q] = srvKnown[q]
  BY <1>1, <1>2 DEF SrvTypes
<1>6. \/ Answer(r, "429")
      \/ Answer(r, "401") /\ ask.route # "status"
      \/ Answer(r, StatusOf(ask.card))
      \/ Await(r, "body")
      \/ Await(r, "store") /\ srvRemote
  BY DEF Arrive, Route
<1>7. StatusOf(ask.card) \in SrvAnswers /\ {"429", "401"} \subseteq SrvAnswers
      /\ (ask.card \in srvAcked => StatusOf(ask.card) = "revoked") /\ StatusOf(ask.card) # "ALLOW"
  BY <1>3 DEF StatusOf, SrvAnswers
<1>8. ASSUME NEW answer \in SrvAnswers, Answer(r, answer), answer # "ALLOW",
             ask.route = "status" /\ ask.card \in srvAcked => answer \in {"revoked", "429", "500"}
      PROVE  SrvInv'
  <2>1. ReqStep(r)
    BY <1>1, <1>2, <1>3, <1>5, <1>8, AnswerShows DEF ReqStep
  <2>2. SrvTypes'
    BY <1>1, <1>2, <1>4, <1>8, AnswerShows DEF SrvTypes
  <2>3. srvState'[r] = "done" /\ srvAnswer'[r] = answer /\ srvLife'[r] = srvRestarts
    BY <1>1, <1>8, AnswerShows
  <2>4. srvRestarts \in Nat
    BY <1>1 DEF SrvTypes
  <2>5. QED
    BY <1>3, <1>8, <2>1, <2>2, <2>3, <2>4, ReqStepKeeps
<1>9. ASSUME NEW what \in {"body", "store"}, Await(r, what), what = "store" => srvRemote
      PROVE  SrvInv'
  <2>1. ReqStep(r)
    BY <1>1, <1>2, <1>3, <1>5, <1>9, AwaitShows DEF ReqStep
  <2>2. SrvTypes'
    BY <1>1, <1>2, <1>4, <1>9, AwaitShows DEF SrvTypes
  <2>3. srvState'[r] = what /\ srvAnswer'[r] = "none" /\ srvLife'[r] = srvLife[r]
    BY <1>1, <1>2, <1>9, AwaitShows
  <2>4. srvLife[r] <= srvRestarts
    BY <1>1 DEF ReqInv
  <2>5. QED
    BY <1>2, <1>3, <1>9, <2>1, <2>2, <2>3, <2>4, ReqStepKeeps
<1>10. QED
  BY <1>6, <1>7, <1>8, <1>9

(* What a request that has arrived does next: it is answered, or it awaits  *)
(* the store; what it asks stays.                                           *)
LEMMA OneAnswered ==
  ASSUME SrvInv, NEW r \in Requests, NEW answer \in SrvAnswers, Answer(r, answer),
         UNCHANGED <<srvProc, srvRemote, srvRestarts, srvAsk, srvKnown>>,
         srvRevoked \subseteq srvRevoked', srvAcked' \subseteq srvRevoked', srvAcked' \subseteq Cards,
         srvReceipts \union srvInserting \subseteq srvReceipts' \union srvInserting',
         \A ask \in srvAsk[r] : ask.route = "status" /\ ask.card \in srvKnown[r]
           => answer \in {"revoked", "429", "500"},
         answer = "ALLOW" => r \in srvReceipts' \union srvInserting'
  PROVE  SrvInv'
<1>1. SrvTypes /\ ReqInv
  BY DEF SrvInv, ReqInv
<1>2. srvState'[r] = "done" /\ srvAnswer'[r] = answer /\ srvLife'[r] = srvRestarts
  BY <1>1, AnswerShows
<1>3. ReqStep(r)
  BY <1>1, AnswerShows DEF ReqStep
<1>4. SrvTypes'
  BY <1>1, AnswerShows DEF SrvTypes
<1>5. srvRestarts \in Nat /\ \A a, b \in srvAsk[r] : a = b
  BY <1>1 DEF SrvTypes, ReqInv
<1>6. QED
  BY <1>2, <1>3, <1>4, <1>5, ReqStepKeeps

LEMMA DecisionType == ASSUME NEW input PROVE Decision(input) \in {"ALLOW", "DENY"}
BY DEF Decision

LEMMA BodyStep ==
  ASSUME SrvInv, NEW r \in Requests, NEW whole \in BOOLEAN, BodyEnds(r, whole)
  PROVE  SrvInv'
<1>1. SrvTypes /\ ReqInv /\ srvAcked \subseteq srvRevoked
  BY DEF SrvInv, ReqInv
<1>2. /\ UNCHANGED <<srvProc, srvRemote, srvRestarts, srvAsk, srvKnown>> /\ srvState[r] = "body"
  BY DEF BodyEnds, srvProcess
<1>3. PICK ask \in srvAsk[r] :
        \/ ask.route = "revoke" /\ RevokeCard(r, ask)
        \/ ask.route # "revoke" /\ Answer(r, "500") /\ UNCHANGED srvStores
        \/ ask.route = "check" /\ GatewayCheck(r, ask)
        \/ ask.route = "issue" /\ Answer(r, "201") /\ UNCHANGED srvStores
  BY DEF BodyEnds
<1>4. \A a \in srvAsk[r] : a = ask
  BY <1>1 DEF ReqInv
<1>5. ask.card \in Cards /\ {"500", "201", "200", "ALLOW", "DENY"} \subseteq SrvAnswers
  BY <1>1, ServerAssumption DEF SrvTypes, ServerAssumption, SrvAnswers
<1>6. CASE ask.route = "revoke" /\ RevokeCard(r, ask)
  <2>1. CASE srvRemote
    <3>1. Await(r, "store") /\ UNCHANGED <<srvRevoked, srvAcked, srvInserting, srvReceipts>>
      BY <1>6, <2>1 DEF RevokeCard
    <3>2. ReqStep(r)
      BY <1>1, <1>2, <3>1, AwaitShows DEF ReqStep
    <3>3. SrvTypes'
      BY <1>1, <1>2, <3>1, AwaitShows DEF SrvTypes
    <3>4. srvState'[r] = "store" /\ srvAnswer'[r] = "none" /\ srvLife'[r] = srvLife[r]
      BY <1>1, <1>2, <3>1, AwaitShows DEF ReqInv
    <3>5. srvLife[r] <= srvRestarts
      BY <1>1 DEF ReqInv
    <3>6. QED
      BY <1>2, <1>4, <1>6, <3>2, <3>3, <3>4, <3>5, ReqStepKeeps
  <2>2. CASE ~srvRemote
    <3>1. /\ Answer(r, "200") /\ UNCHANGED <<srvInserting, srvReceipts>>
          /\ srvRevoked' = srvRevoked \union {ask.card} /\ srvAcked' = srvAcked \union {ask.card}
      BY <1>6, <2>2 DEF RevokeCard
    <3>2. srvAcked' \subseteq Cards /\ srvAcked' \subseteq srvRevoked'
      BY <1>1, <1>5, <3>1 DEF SrvTypes
    <3>3. QED
      BY <1>2, <1>4, <1>5, <1>6, <3>1, <3>2, OneAnswered
  <2>3. QED
    BY <2>1, <2>2
<1>7. ASSUME NEW answer \in {"500", "201"}, Answer(r, answer), UNCHANGED srvStores,
             answer = "201" => ask.route = "issue"
      PROVE  SrvInv'
  <2>1. UNCHANGED <<srvRevoked, srvInserting, srvReceipts, srvAcked>> /\ srvAcked \subseteq Cards
    BY <1>1, <1>7 DEF srvStores, SrvTypes
  <2>2. QED
    BY <1>1, <1>2, <1>4, <1>5, <1>7, <2>1, OneAnswered
<1>8. CASE ask.route = "check" /\ GatewayCheck(r, ask)
  <2> DEFINE d == Decision(ask.input)
  <2>1. d \in {"ALLOW", "DENY"}
    BY DecisionType
  <2>2. /\ Answer(r, d) /\ UNCHANGED <<srvRevoked, srvAcked>> /\ srvAcked \subseteq Cards
        /\ srvReceipts \union srvInserting \subseteq srvReceipts' \union srvInserting'
        /\ d = "ALLOW" => r \in srvReceipts' \union srvInserting'
    BY <1>1, <1>8 DEF GatewayCheck, SrvTypes
  <2> HIDE DEF d
  <2>3. QED
    BY <1>1, <1>2, <1>4, <1>5, <1>8, <2>1, <2>2, OneAnswered
<1>9. QED
  BY <1>3, <1>6, <1>7, <1>8

LEMMA StoreStep ==
  ASSUME SrvInv, NEW r \in Requests, StoreAnswers(r)
  PROVE  SrvInv'
<1>1. SrvTypes /\ ReqInv /\ Pinned /\ srvAcked \subseteq srvRevoked
  BY DEF SrvInv, ReqInv
<1>2. /\ UNCHANGED <<srvProc, srvRemote, srvRestarts, srvAsk, srvKnown, srvInserting, srvReceipts>>
      /\ srvState[r] = "store"
  BY DEF StoreAnswers, srvProcess
<1>3. PICK ask \in srvAsk[r] :
        \/ /\ ask.route = "status" /\ Answer(r, StatusOf(ask.card))
           /\ UNCHANGED <<srvRevoked, srvAcked>>
        \/ /\ ask.route = "revoke" /\ Answer(r, "200")
           /\ srvRevoked' = srvRevoked \union {ask.card} /\ srvAcked' = srvAcked \union {ask.card}
        \/ Answer(r, "500") /\ UNCHANGED <<srvRevoked, srvAcked>>
  BY DEF StoreAnswers
<1>4. \A a \in srvAsk[r] : a = ask
  BY <1>1 DEF ReqInv
<1>5. /\ ask.card \in Cards /\ srvAcked \subseteq Cards
      /\ StatusOf(ask.card) \in {"revoked", "unknown"} /\ {"revoked", "unknown", "500", "200"} \subseteq SrvAnswers
  BY <1>1, ServerAssumption DEF SrvTypes, ServerAssumption, SrvAnswers, StatusOf
<1>6. CASE /\ ask.route = "status" /\ Answer(r, StatusOf(ask.card))
           /\ UNCHANGED <<srvRevoked, srvAcked>>
  <2>1. ask.card \in srvKnown[r] => StatusOf(ask.card) = "revoked"
    BY <1>1, <1>2, <1>6 DEF Pinned, StatusOf
  <2>2. QED
    BY <1>1, <1>2, <1>4, <1>5, <1>6, <2>1, OneAnswered
<1>7. CASE /\ ask.route = "revoke" /\ Answer(r, "200")
           /\ srvRevoked' = srvRevoked \union {ask.card} /\ srvAcked' = srvAcked \union {ask.card}
  BY <1>1, <1>2, <1>4, <1>5, <1>7, OneAnswered
<1>8. CASE Answer(r, "500") /\ UNCHANGED <<srvRevoked, srvAcked>>
  BY <1>1, <1>2, <1>4, <1>5, <1>8, OneAnswered
<1>9. QED
  BY <1>3, <1>6, <1>7, <1>8
-----------------------------------------------------------------------------
(* The process and the stores                                               *)

LEMMA EndStep ==
  ASSUME SrvInv, ProcessEnds
  PROVE  SrvInv'
<1>1. SrvTypes /\ ReqInv /\ Pinned /\ RevocationIsSeen
  BY DEF SrvInv, ReqInv
<1>2. /\ UNCHANGED <<srvRemote, srvAsk, srvAnswer, srvLife, srvKnown, srvRestarts>>
      /\ srvProc' = "ended"
      /\ srvRevoked' = (IF srvRemote THEN srvRevoked ELSE {})
      /\ srvAcked' = (IF srvRemote THEN srvAcked ELSE {})
      /\ srvState' = [q \in Requests |-> IF srvState[q] \in {"body", "store"} THEN "lost" ELSE srvState[q]]
  BY DEF ProcessEnds
<1>3. \A q \in Requests :
        srvState'[q] = IF srvState[q] \in {"body", "store"} THEN "lost" ELSE srvState[q]
  BY <1>2
<1>4. SrvTypes'
  <2>1. srvState' \in [Requests -> {"unsent", "body", "store", "done", "lost"}]
    BY <1>1, <1>2 DEF SrvTypes
  <2>2. QED
    BY <1>1, <1>2, <2>1 DEF SrvTypes
<1>5. ReqInv'
  BY <1>1, <1>2, <1>3, <1>4 DEF ReqInv
<1>6. Pinned'
  BY <1>3 DEF Pinned
<1>7. RevocationIsSeen'
  BY <1>1, <1>2 DEF RevocationIsSeen
<1>8. AllowLeavesReceipt'
  BY <1>2 DEF AllowLeavesReceipt
<1>9. QED
  BY <1>5, <1>6, <1>7, <1>8 DEF SrvInv

(* Steps that leave the requests alone and lose nothing of the stores.      *)
LEMMA QuietStep ==
  ASSUME SrvInv, UNCHANGED <<srvRemote, srvAcked, srvAsk, srvState, srvAnswer, srvLife, srvKnown>>,
         srvRevoked \subseteq srvRevoked',
         srvReceipts \union srvInserting \subseteq srvReceipts' \union srvInserting',
         \/ srvRestarts' = srvRestarts /\ (srvProc = "ended" => srvProc' = "ended")
         \/ srvRestarts' = srvRestarts + 1
  PROVE  SrvInv'
<1>1. SrvTypes /\ ReqInv /\ Pinned /\ RevocationIsSeen /\ AllowLeavesReceipt
  BY DEF SrvInv, ReqInv
<1>2. SrvTypes'
  BY <1>1 DEF SrvTypes
<1>3. srvRestarts \in Nat /\ srvRestarts' \in Nat /\ srvRestarts <= srvRestarts'
      /\ srvLife \in [Requests -> Nat] /\ \A r \in Requests : srvLife[r] <= srvRestarts
  BY <1>1 DEF SrvTypes, ReqInv
<1>4. \A r \in Requests : srvLife[r] <= srvRestarts'
  BY <1>3
<1>5. ReqInv'
  BY <1>1, <1>2, <1>4 DEF ReqInv
<1>6. Pinned' /\ RevocationIsSeen'
  BY <1>1 DEF Pinned, RevocationIsSeen
<1>7. AllowLeavesReceipt'
  <2> SUFFICES ASSUME NEW r \in Requests, srvAnswer[r] = "ALLOW",
                      srvProc' # "ended", ~(srvLife[r] < srvRestarts')
               PROVE  r \in srvReceipts' \union srvInserting'
    BY DEF AllowLeavesReceipt
  <2>1. srvRestarts' = srvRestarts /\ srvProc # "ended"
    BY <1>3
  <2>2. QED
    BY <1>1, <2>1 DEF AllowLeavesReceipt
<1>8. QED
  BY <1>5, <1>6, <1>7 DEF SrvInv

LEMMA SrvInvNext == SrvInv /\ [SrvNext]_srvVars => SrvInv'
<1> SUFFICES ASSUME SrvInv, [SrvNext]_srvVars PROVE SrvInv'
  OBVIOUS
<1>1. ASSUME NEW a \in Addresses, Connect(a) \/ Disconnect(a) PROVE SrvInv'
  BY <1>1, QuietStep DEF Connect, Disconnect, srvProcess, srvStores, srvReqs
<1>2. ASSUME NEW r \in Requests, NEW ask \in Asks, Arrive(r, ask) PROVE SrvInv'
  BY <1>2, ArriveStep
<1>3. ASSUME NEW r \in Requests, NEW whole \in BOOLEAN, BodyEnds(r, whole) PROVE SrvInv'
  BY <1>3, BodyStep
<1>4. ASSUME NEW r \in Requests, StoreApplies(r) PROVE SrvInv'
  BY <1>4, QuietStep DEF StoreApplies, srvProcess, srvReqs
<1>5. ASSUME NEW r \in Requests, StoreAnswers(r) PROVE SrvInv'
  BY <1>5, StoreStep
<1>6. ASSUME NEW r \in Requests, ReceiptStored(r) PROVE SrvInv'
  BY <1>6, QuietStep DEF ReceiptStored, srvProcess, srvReqs
<1>7. CASE ProcessEnds
  BY <1>7, EndStep
<1>8. CASE Restart
  BY <1>8, QuietStep DEF Restart, srvStores, srvReqs
<1>9. CASE Signal \/ DrainEnds \/ HandlerRuns
  BY <1>9, QuietStep DEF Signal, DrainEnds, HandlerRuns, srvStores, srvReqs
<1>10. CASE ServerTime \/ UNCHANGED srvVars
  BY <1>10, QuietStep DEF ServerTime, srvOwn, srvVars
<1>11. QED
  BY <1>1, <1>2, <1>3, <1>4, <1>5, <1>6, <1>7, <1>8, <1>9, <1>10
     DEF SrvNext, InsertFails, Killed, Exit

LEMMA SrvInductive == SrvSpec => []SrvInv
<1>1. SrvInit => SrvInv
  BY SrvInvInit
<1>2. SrvInv /\ [SrvNext]_srvVars => SrvInv'
  BY SrvInvNext
<1>3. QED
  BY <1>1, <1>2, PTL DEF SrvSpec
-----------------------------------------------------------------------------
(* RevocationSeen: a status asked for after a revocation was acknowledged    *)
(* is never answered otherwise, whichever order the store answers in and    *)
(* however often the process restarts over a store that lives on.  The      *)
(* invariant is that what was acknowledged is in the store, and that a      *)
(* status still to be read is one a remote store will answer.               *)
THEOREM RevocationSeen == SrvSpec => []RevocationIsSeen
<1>1. SrvInv => RevocationIsSeen
  BY DEF SrvInv
<1>2. QED
  BY <1>1, SrvInductive, PTL

(* ReceiptOfAllow: an ALLOW whose receipt is neither stored nor on the way  *)
(* was answered by a process that has ended.                                *)
THEOREM ReceiptOfAllow == SrvSpec => []AllowLeavesReceipt
<1>1. SrvInv => AllowLeavesReceipt
  BY DEF SrvInv
<1>2. QED
  BY <1>1, SrvInductive, PTL
-----------------------------------------------------------------------------
(* The request limit: of the admitted requests, the last m are those of the *)
(* window in use, whose first is its start; those before it that lie within *)
(* a window of the start are fewer than the limit.                          *)

InWindow(count) == IF count < Limit THEN count ELSE Limit

Counted(log, count, start, t) ==
  /\ log \in Seq(Nat) /\ count \in Nat /\ start \in Nat /\ start <= t
  /\ \A i \in 1 .. Len(log) : log[i] <= t
  /\ \A i, j \in 1 .. Len(log) : i <= j => log[i] <= log[j]
  /\ count = 0 => Len(log) = 0
  /\ InWindow(count) <= Len(log)
  /\ count > 0 => log[Len(log) - InWindow(count) + 1] = start
  /\ \A i \in 1 .. Len(log) : i <= Len(log) - InWindow(count) /\ start - log[i] <= Window
       => Len(log) - InWindow(count) - i + 1 <= Limit - 1
  /\ \A i, j \in 1 .. Len(log) : i <= j /\ log[j] - log[i] <= Window => j - i + 1 < 2 * Limit

(* A sequence of times after one more                                       *)
LEMMA Appended ==
  ASSUME NEW log \in Seq(Nat), NEW t \in Nat
  PROVE  /\ Append(log, t) \in Seq(Nat) /\ Len(Append(log, t)) = Len(log) + 1 /\ Len(log) \in Nat
         /\ Append(log, t)[Len(log) + 1] = t
         /\ \A i \in 1 .. Len(log) : Append(log, t)[i] = log[i]
OBVIOUS

LEMMA WindowStarts ==
  ASSUME NEW log, NEW count, NEW start, NEW t \in Nat, Counted(log, count, start, t),
         count = 0 \/ t - start > Window
  PROVE  Counted(Append(log, t), 1, t, t)
<1> DEFINE n == Len(log)
           m == InWindow(count)
           l == Append(log, t)
<1>1. log \in Seq(Nat) /\ count \in Nat /\ start \in Nat /\ Limit \in Nat /\ Limit >= 1 /\ Window \in Nat
  BY LimitAssumption DEF Counted, LimitAssumption
<1>2. /\ l \in Seq(Nat) /\ Len(l) = n + 1 /\ n \in Nat /\ l[n + 1] = t
      /\ \A i \in 1 .. n : l[i] = log[i] /\ log[i] \in Nat
  BY <1>1, Appended
<1>3. InWindow(1) = 1 /\ m \in Nat /\ m <= Limit /\ (count > 0 => m >= 1)
  BY <1>1 DEF InWindow
<1>4. /\ \A i \in 1 .. n : log[i] <= t
      /\ \A i, j \in 1 .. n : i <= j => log[i] <= log[j]
      /\ m <= n /\ (count = 0 => n = 0) /\ (count > 0 => log[n - m + 1] = start)
      /\ \A i, j \in 1 .. n : i <= j /\ log[j] - log[i] <= Window => j - i + 1 < 2 * Limit
  BY DEF Counted
<1> HIDE DEF n, m, l
<1>5. ASSUME NEW i \in 1 .. n, t - log[i] <= Window
      PROVE  n - i + 1 <= Limit - 1
  <2>1. count > 0 /\ t - start > Window /\ m >= 1
    BY <1>1, <1>3, <1>4, <1>5
  <2>2. log[i] > start /\ log[i] \in Nat
    BY <1>1, <1>2, <1>5, <2>1
  <2>3. n - m + 1 \in 1 .. n /\ log[n - m + 1] = start
    BY <1>2, <1>3, <1>4, <2>1
  <2>4. ~(i <= n - m + 1)
    BY <1>1, <1>4, <2>2, <2>3
  <2>5. QED
    BY <1>1, <1>2, <1>3, <2>4
<1>6. \A i \in 1 .. Len(l) : l[i] <= t
  BY <1>2, <1>4
<1>7. \A i, j \in 1 .. Len(l) : i <= j => l[i] <= l[j]
  BY <1>2, <1>4
<1>8. \A i \in 1 .. Len(l) : i <= Len(l) - 1 /\ t - l[i] <= Window => Len(l) - 1 - i + 1 <= Limit - 1
  BY <1>2, <1>5
<1>9. ASSUME NEW i \in 1 .. Len(l), NEW j \in 1 .. Len(l), i <= j, l[j] - l[i] <= Window
      PROVE  j - i + 1 < 2 * Limit
  <2>1. CASE j <= n
    BY <1>2, <1>4, <1>9, <2>1
  <2>2. CASE j = n + 1 /\ i <= n
    <3>1. i \in 1 .. n /\ t - log[i] <= Window
      BY <1>2, <1>9, <2>2
    <3>2. n - i + 1 <= Limit - 1
      BY <1>5, <3>1
    <3>3. QED
      BY <1>1, <1>2, <2>2, <3>1, <3>2
  <2>3. CASE i = n + 1 /\ j = n + 1
    BY <1>1, <1>2, <2>3
  <2>4. QED
    BY <1>2, <1>9, <2>1, <2>2, <2>3
<1>10. l[Len(l) - 1 + 1] = t /\ 1 <= Len(l)
  BY <1>2
<1>11. Counted(l, 1, t, t)
  BY <1>2, <1>3, <1>6, <1>7, <1>8, <1>9, <1>10 DEF Counted
<1>12. QED
  BY <1>11 DEF l

LEMMA WindowGoesOn ==
  ASSUME NEW log, NEW count, NEW start, NEW t \in Nat, Counted(log, count, start, t),
         count # 0, ~(t - start > Window), count < Limit
  PROVE  Counted(Append(log, t), count + 1, start, t)
<1> DEFINE n == Len(log)
           l == Append(log, t)
<1>1. log \in Seq(Nat) /\ count \in Nat \ {0} /\ start \in Nat /\ Limit \in Nat /\ Window \in Nat
      /\ start <= t
  BY LimitAssumption DEF Counted, LimitAssumption
<1>2. /\ l \in Seq(Nat) /\ Len(l) = n + 1 /\ n \in Nat /\ l[n + 1] = t
      /\ \A i \in 1 .. n : l[i] = log[i] /\ log[i] \in Nat
  BY <1>1, Appended
<1>3. InWindow(count) = count /\ InWindow(count + 1) = count + 1
  BY <1>1 DEF InWindow
<1>4. /\ \A i \in 1 .. n : log[i] <= t
      /\ \A i, j \in 1 .. n : i <= j => log[i] <= log[j]
      /\ count <= n /\ log[n - count + 1] = start
      /\ \A i \in 1 .. n : i <= n - count /\ start - log[i] <= Window => n - count - i + 1 <= Limit - 1
      /\ \A i, j \in 1 .. n : i <= j /\ log[j] - log[i] <= Window => j - i + 1 < 2 * Limit
  BY <1>1, <1>3 DEF Counted
<1> HIDE DEF n, l
<1>5. \A i \in 1 .. Len(l) : l[i] <= t
  BY <1>2, <1>4
<1>6. \A i, j \in 1 .. Len(l) : i <= j => l[i] <= l[j]
  BY <1>2, <1>4
<1>7. /\ Len(l) - (count + 1) = n - count /\ count + 1 <= n + 1
      /\ n - count + 1 \in 1 .. n /\ n - count \in Nat
  BY <1>1, <1>2, <1>4
<1>8. l[n - count + 1] = start
  BY <1>2, <1>4, <1>7
<1>8b. l[Len(l) - (count + 1) + 1] = start
  BY <1>7, <1>8
<1>9. \A i \in 1 .. Len(l) : i <= Len(l) - (count + 1) /\ start - l[i] <= Window
        => Len(l) - (count + 1) - i + 1 <= Limit - 1
  <2> SUFFICES ASSUME NEW i \in 1 .. Len(l), i <= n - count, start - l[i] <= Window
               PROVE  n - count - i + 1 <= Limit - 1
    BY <1>7
  <2>1. i \in 1 .. n
    BY <1>1, <1>2
  <2>2. l[i] = log[i]
    BY <1>2, <2>1
  <2>3. QED
    BY <1>4, <2>1, <2>2
<1>10. ASSUME NEW i \in 1 .. Len(l), NEW j \in 1 .. Len(l), i <= j, l[j] - l[i] <= Window
       PROVE  j - i + 1 < 2 * Limit
  <2>1. CASE j <= n
    BY <1>2, <1>4, <1>10, <2>1
  <2>2. CASE j = n + 1 /\ i > n - count
    BY <1>1, <1>2, <2>2
  <2>3. CASE j = n + 1 /\ i <= n - count
    <3>1. i \in 1 .. n /\ t - log[i] <= Window
      BY <1>1, <1>2, <1>10, <2>3
    <3>2. start - log[i] <= Window
      BY <1>1, <1>2, <3>1
    <3>3. n - count - i + 1 <= Limit - 1
      BY <1>4, <2>3, <3>1, <3>2
    <3>4. QED
      BY <1>1, <1>2, <2>3, <3>1, <3>3
  <2>4. QED
    BY <1>1, <1>2, <1>10, <2>1, <2>2, <2>3
<1>11. /\ InWindow(count + 1) <= Len(l) /\ count + 1 # 0 /\ count + 1 \in Nat
       /\ l[Len(l) - InWindow(count + 1) + 1] = start
  BY <1>1, <1>2, <1>3, <1>7, <1>8b
<1>12. \A i \in 1 .. Len(l) : i <= Len(l) - InWindow(count + 1) /\ start - l[i] <= Window
         => Len(l) - InWindow(count + 1) - i + 1 <= Limit - 1
  BY <1>3, <1>9
<1>13. Counted(l, count + 1, start, t)
  BY <1>1, <1>2, <1>5, <1>6, <1>10, <1>11, <1>12 DEF Counted
<1>14. QED
  BY <1>13 DEF l

LEMMA WindowFull ==
  ASSUME NEW log, NEW count, NEW start, NEW t, Counted(log, count, start, t), ~(count < Limit)
  PROVE  Counted(log, count + 1, start, t)
<1>1. count \in Nat /\ Limit \in Nat /\ Limit >= 1 /\ count >= Limit
  BY LimitAssumption DEF Counted, LimitAssumption
<1>2. InWindow(count + 1) = InWindow(count) /\ count + 1 \in Nat /\ count + 1 > 0 /\ count > 0
  BY <1>1 DEF InWindow
<1>3. QED
  BY <1>2 DEF Counted

LEMMA CountedLater ==
  ASSUME NEW log, NEW count, NEW start, NEW t \in Nat, NEW u \in Nat, t <= u,
         Counted(log, count, start, t)
  PROVE  Counted(log, count, start, u)
<1>1. log \in Seq(Nat) /\ start \in Nat /\ start <= u
  BY DEF Counted
<1>2. \A i \in 1 .. Len(log) : log[i] \in Nat /\ log[i] <= t
  BY <1>1 DEF Counted
<1>3. \A i \in 1 .. Len(log) : log[i] <= u
  BY <1>2
<1>4. QED
  BY <1>1, <1>3 DEF Counted

LimInv ==
  /\ clock \in Nat
  /\ limCount \in [Addresses -> Nat] /\ limStart \in [Addresses -> Nat]
  /\ limLog \in [Addresses -> Seq(Nat)]
  /\ \A a \in Addresses : Counted(limLog[a], limCount[a], limStart[a], clock)

LEMMA CheckKeeps ==
  ASSUME LimInv, NEW a \in Addresses, CheckRateLimit(a), UNCHANGED clock
  PROVE  LimInv'
<1> DEFINE count == IF WindowOver(a) THEN 1 ELSE limCount[a] + 1
           start == IF WindowOver(a) THEN clock ELSE limStart[a]
           log   == IF Admits(a) THEN Append(limLog[a], clock) ELSE limLog[a]
<1>1. clock \in Nat /\ Counted(limLog[a], limCount[a], limStart[a], clock) /\ Limit \in Nat
  BY LimitAssumption DEF LimInv, LimitAssumption
<1>2. /\ limCount' = [limCount EXCEPT ![a] = count] /\ limStart' = [limStart EXCEPT ![a] = start]
      /\ limLog' = [limLog EXCEPT ![a] = log]
  BY DEF CheckRateLimit
<1>3. Counted(log, count, start, clock)
  <2>1. CASE WindowOver(a)
    BY <1>1, <2>1, WindowStarts DEF WindowOver, Admits
  <2>2. CASE ~WindowOver(a) /\ limCount[a] < Limit
    BY <1>1, <2>2, WindowGoesOn DEF WindowOver, Admits
  <2>3. CASE ~WindowOver(a) /\ ~(limCount[a] < Limit)
    BY <1>1, <2>3, WindowFull DEF WindowOver, Admits
  <2>4. QED
    BY <2>1, <2>2, <2>3
<1> HIDE DEF count, start, log
<1>4. log \in Seq(Nat) /\ count \in Nat /\ start \in Nat
  BY <1>3 DEF Counted
<1>5. /\ limCount' \in [Addresses -> Nat] /\ limStart' \in [Addresses -> Nat]
      /\ limLog' \in [Addresses -> Seq(Nat)]
  BY <1>2, <1>4 DEF LimInv
<1>6. limCount'[a] = count /\ limStart'[a] = start /\ limLog'[a] = log
  BY <1>2 DEF LimInv
<1>7. \A b \in Addresses : b # a =>
        limCount'[b] = limCount[b] /\ limStart'[b] = limStart[b] /\ limLog'[b] = limLog[b]
  BY <1>2 DEF LimInv
<1>8. ASSUME NEW b \in Addresses PROVE Counted(limLog'[b], limCount'[b], limStart'[b], clock)
  BY <1>3, <1>6, <1>7 DEF LimInv
<1>9. QED
  BY <1>1, <1>5, <1>8 DEF LimInv

LEMMA LimFresh ==
  /\ ClockInit /\ LimInit => LimInv
  /\ \A t \in Nat : Counted(<< >>, 0, 0, t)
<1>1. Limit \in Nat \ {0} /\ Window \in Nat
  BY LimitAssumption DEF LimitAssumption
<1>2. InWindow(0) = 0
  BY <1>1 DEF InWindow
<1>3. \A t \in Nat : Counted(<< >>, 0, 0, t)
  BY <1>1, <1>2 DEF Counted
<1>4. ASSUME ClockInit, LimInit PROVE LimInv
  <2>1. Counted(<< >>, 0, 0, 0)
    BY <1>3
  <2>2. QED
    BY <1>4, <2>1 DEF ClockInit, LimInit, LimInv
<1>5. QED
  BY <1>3, <1>4

LEMMA LimTime ==
  ASSUME LimInv, TimePasses, UNCHANGED limVars
  PROVE  LimInv'
<1>1. clock \in Nat /\ clock' \in Nat /\ clock <= clock'
  BY DEF TimePasses, LimInv
<1>2. UNCHANGED <<limCount, limStart, limLog>>
  BY DEF limVars
<1>3. \A a \in Addresses : Counted(limLog[a], limCount[a], limStart[a], clock')
  BY <1>1, CountedLater DEF LimInv
<1>4. QED
  BY <1>1, <1>2, <1>3 DEF LimInv

LEMMA LimBounds == LimInv => UnderTwiceLimit
BY DEF LimInv, Counted, UnderTwiceLimit

(* LimitTwice: any span of a window's length admits fewer than twice the    *)
(* limit of an address, wherever its windows begin.                         *)
THEOREM LimitTwice == LimSpec => []UnderTwiceLimit
<1>1. ClockInit /\ LimInit => LimInv
  BY LimFresh
<1>2. LimInv /\ [LimNext]_<<clock, limVars>> => LimInv'
  <2> SUFFICES ASSUME LimInv, [LimNext]_<<clock, limVars>> PROVE LimInv'
    OBVIOUS
  <2>1. ASSUME NEW a \in Addresses, CheckRateLimit(a) /\ UNCHANGED clock PROVE LimInv'
    BY <2>1, CheckKeeps
  <2>2. CASE TimePasses /\ UNCHANGED limVars
    BY <2>2, LimTime
  <2>3. CASE UNCHANGED <<clock, limVars>>
    BY <2>3 DEF limVars, LimInv
  <2>4. QED
    BY <2>1, <2>2, <2>3 DEF LimNext
<1>3. QED
  BY <1>1, <1>2, LimBounds, PTL DEF LimSpec

(* ServerLimits: the same of the limit inside the server, whichever way its *)
(* requests end and as long as its process lives: the counters are memory   *)
(* of the process, and no step of a request, a store or a shutdown touches  *)
(* them but the arrival of a request.                                       *)
THEOREM ServerLimits == SrvSpec => []UnderTwiceLimit
<1>1. SrvInit => LimInv
  BY LimFresh DEF SrvInit
<1>2. LimInv /\ [SrvNext]_srvVars => LimInv'
  <2> SUFFICES ASSUME LimInv, [SrvNext]_srvVars PROVE LimInv'
    OBVIOUS
  <2>1. ASSUME NEW r \in Requests, NEW ask \in Asks, Arrive(r, ask) PROVE LimInv'
    <3>1. ask.client \in Addresses
      BY ServerAssumption DEF ServerAssumption
    <3>2. QED
      BY <2>1, <3>1, CheckKeeps DEF Arrive
  <2>2. CASE ProcessEnds
    <3>1. clock' = clock /\ clock \in Nat
      BY <2>2 DEF ProcessEnds, LimInv
    <3>2. /\ limCount' = [a \in Addresses |-> 0] /\ limStart' = [a \in Addresses |-> 0]
          /\ limLog' = [a \in Addresses |-> << >>]
      BY <2>2 DEF ProcessEnds
    <3>3. QED
      BY <3>1, <3>2, LimFresh DEF LimInv
  <2>3. CASE TimePasses /\ UNCHANGED limVars
    BY <2>3, LimTime
  <2>4. CASE UNCHANGED <<clock, limVars>>
    BY <2>4 DEF limVars, LimInv
  <2>5. ASSUME NEW r \in Requests, NEW whole \in BOOLEAN,
               BodyEnds(r, whole) \/ StoreApplies(r) \/ StoreAnswers(r) \/ ReceiptStored(r)
        PROVE  UNCHANGED <<clock, limVars>>
    BY <2>5 DEF BodyEnds, StoreApplies, StoreAnswers, ReceiptStored
  <2>6. ASSUME NEW a \in Addresses, Connect(a) \/ Disconnect(a)
        PROVE  UNCHANGED <<clock, limVars>>
    BY <2>6 DEF Connect, Disconnect
  <2>7. Restart \/ Signal \/ DrainEnds \/ HandlerRuns \/ UNCHANGED srvVars
          => UNCHANGED <<clock, limVars>>
    BY DEF Restart, Signal, DrainEnds, HandlerRuns, srvVars
  <2>8. QED
    BY <2>1, <2>2, <2>3, <2>4, <2>5, <2>6, <2>7
       DEF SrvNext, InsertFails, Killed, Exit, ServerTime
<1>3. QED
  BY <1>1, <1>2, LimBounds, PTL DEF SrvSpec
=============================================================================
