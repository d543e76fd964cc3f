--------------------------- MODULE RevocationCheck ---------------------------
(***************************************************************************)
(* Stage 09 of verifyCredential (core/verification-pipeline.ts) over       *)
(* CompositeRevocationChecker (core/revocation.ts): a CRL, an OCSP         *)
(* responder or a status list is asked, through a cache, whether a         *)
(* credential is revoked.  A check is suspended while it fetches, and      *)
(* answers may arrive late and out of order.                               *)
(***************************************************************************)
EXTENDS Naturals, FiniteSets

CONSTANTS
  Creds,      \* credentials
  Calls,      \* invocations of verifyCredential, each made at most once
  Cards,      \* what credentials may say of their lifecycle
  Setups,     \* how the checker may be deployed
  CacheTtl,   \* cacheTtlMs, and the ttl of a status list
  CrlLife,    \* next_update - this_update of the CRLs the CA issues
  MaxTime     \* bound of the clock

Methods == {"CRL", "OCSP", "BITSTRING_STATUS_LIST", "AUTO"}
Card    == [method: Methods, url: {"none", "crl", "ocsp"}, index: BOOLEAN,
            list: BOOLEAN, expires: 0 .. MaxTime + 1, inline: BOOLEAN]
Setup   == [responder: BOOLEAN, keyed: BOOLEAN, failClosed: BOOLEAN]

ASSUME RevocationAssumption ==
  /\ Creds \cap {"CRL", "LIST"} = {}
  /\ Cards \subseteq Card
  /\ Setups \subseteq Setup
  /\ CacheTtl \in Nat
  /\ CrlLife \in Nat
  /\ MaxTime \in Nat

VARIABLES
  now,       \* the clock
  setup,     \* an OCSP checker? with the responder's key? fail closed?
  card,      \* card[x]: the lifecycle block of credential x
  status,    \* status[x]: what the registry says of x
  revoked,   \* history: revoked[x], since when x is revoked, as a set
  crl,       \* the CRL the CA has published
  cache,     \* cache[k]: the document kept under k, as a set of at most one
  pc,        \* pc[c]: where verification c stands
  cred,      \* cred[c]: the credential it verifies
  began,     \* began[c], ended[c]: when its check began and ended
  ended,
  mail,      \* mail[c]: the answer on its way to c, as a set of at most one
  used,      \* history: used[c], the document its answer rests on, as a set
  answer,    \* answer[c]: what the checker returned
  verdict    \* verdict[c]: ALLOW or DENY

vars == <<now, setup, card, status, revoked, crl, cache, pc, cred, began, ended,
          mail, used, answer, verdict>>
world == <<setup, card, cred>>

Status   == {"good", "revoked", "unknown"}
Replied  == Status \cup {"other"}   \* what an OCSP body may hold, unchecked
Verdicts == {"none", "allow", "deny"}
Keys     == {"CRL", "LIST"} \cup Creds   \* one URL each; OCSP keeps one per credential

(* A document: the status it gives, the next_update of a CRL, its           *)
(* signature, when the fetch for it began and ended, and whether it answers *)
(* that fetch (not so an OCSP answer with the nonce of another request)     *)
Signatures == {"valid", "invalid", "absent"}
Crl == [status: [Creds -> Status], next: Nat]
Doc == [status: [Creds -> Replied], next: Nat, signature: Signatures,
        asked: Nat, at: Nat, own: BOOLEAN]
-----------------------------------------------------------------------------
(* The method the composite checker selects for the fields of a credential. *)
(* Its AUTO case for an OCSP address comes after that for any address, and  *)
(* is never reached.                                                        *)
Checker(k) ==
  IF k.method = "CRL" \/ (k.method = "AUTO" /\ k.url # "none" /\ ~k.index) THEN "CRL"
  ELSE IF k.method = "OCSP" THEN "OCSP"
  ELSE IF k.method = "BITSTRING_STATUS_LIST" \/ (k.method = "AUTO" /\ k.list /\ k.index)
  THEN "LIST" ELSE "NONE"

By(c)  == Checker(card[cred[c]])
Key(c) == IF By(c) = "OCSP" THEN cred[c] ELSE By(c)

(* Fields or a checker that are missing make the answer "unknown" at once   *)
Answerable(c) ==
  LET k == card[cred[c]] IN
  \/ By(c) = "CRL" /\ k.url # "none"
  \/ By(c) = "OCSP" /\ setup.responder
  \/ By(c) = "LIST" /\ k.list /\ k.index

(* Slip: an entry as old as the ttl is used. *)
FreshAtTheEdge(d) == now <= d.at + CacheTtl

Fresh(d) == now < d.at + CacheTtl

(* What a check finds in the cache; OCSP leaves it alone when answers are   *)
(* verified with the responder's key                                        *)
Cached(c) ==
  IF By(c) = "OCSP" /\ setup.keyed THEN {} ELSE {d \in cache[Key(c)] : Fresh(d)}

(* Slip: next_update is not looked at. *)
VerifiedForever(c, d) == d.signature = "valid"

(* verifyCRL, with its date.  The signature of a status list, and that of   *)
(* an OCSP answer when the key is known, are verified if there is one.      *)
Verified(c, d) ==
  \/ By(c) = "CRL" /\ d.signature = "valid" /\ now <= d.next
  \/ By(c) = "OCSP" /\ (setup.keyed => d.signature # "invalid")
  \/ By(c) = "LIST" /\ d.signature # "invalid"

AnswerIn(c, d) == IF Verified(c, d) THEN d.status[cred[c]] ELSE "unknown"

(* What is kept: any CRL, a status list that verifies, an OCSP "good"       *)
Keeps(c, d) ==
  \/ By(c) = "CRL"
  \/ By(c) = "OCSP" /\ d.status[cred[c]] = "good"
  \/ By(c) = "LIST" /\ Verified(c, d)

Remember(c, d) == [cache EXCEPT ![Key(c)] = IF Keeps(c, d) THEN {d} ELSE @]

(* Slip: only a revoked credential is refused. *)
PassesUnlessRevoked(s) == s # "revoked"

(* The lifecycle stage passes: two statuses are refused, and one that is    *)
(* missing or none of the three is not among them.                          *)
Passes(s) == s # "revoked" /\ (s = "unknown" => ~setup.failClosed)
-----------------------------------------------------------------------------
Init ==
  /\ now = 0
  /\ setup \in Setups
  /\ card \in [Creds -> Cards]
  /\ status \in [Creds -> {"good", "unknown"}]
  /\ revoked = [x \in Creds |-> {}]
  /\ crl = [status |-> [x \in Creds |-> "good"], next |-> CrlLife]
  /\ cache = [k \in Keys |-> {}]
  /\ pc = [c \in Calls |-> "idle"]
  /\ cred \in [Calls -> Creds]
  /\ began = [c \in Calls |-> 0]
  /\ ended = [c \in Calls |-> 0]
  /\ mail = [c \in Calls |-> {}]
  /\ used = [c \in Calls |-> {}]
  /\ answer = [c \in Calls |-> "none"]
  /\ verdict = [c \in Calls |-> "none"]

(* InMemoryRevocationStore.setStatus                                        *)
SetStatus(x) ==
  /\ \E s \in Status \ {status[x]} :
       /\ status' = [status EXCEPT ![x] = s]
       /\ revoked' = [revoked EXCEPT ![x] = IF s = "revoked" THEN {now} ELSE {}]
  /\ UNCHANGED <<world, now, crl, cache, pc, began, ended, mail, used, answer, verdict>>

Listed == [x \in Creds |-> IF status[x] = "revoked" THEN "revoked" ELSE "good"]

(* The CA issues a CRL of everything revoked so far                         *)
Publish ==
  /\ crl' = [status |-> Listed, next |-> now + CrlLife]
  /\ crl' # crl
  /\ UNCHANGED <<world, now, status, revoked, cache, pc, began, ended, mail, used,
                 answer, verdict>>

(* The check of c ends with answer s, resting on the documents D; the later *)
(* stages may still refuse                                                  *)
Conclude(c, s, D) ==
  /\ pc' = [pc EXCEPT ![c] = "done"]
  /\ ended' = [ended EXCEPT ![c] = now]
  /\ answer' = [answer EXCEPT ![c] = s]
  /\ used' = [used EXCEPT ![c] = D]
  /\ verdict' \in {[verdict EXCEPT ![c] = v] :
                     v \in {"deny"} \cup (IF Passes(s) THEN {"allow"} ELSE {})}
  /\ mail' = [mail EXCEPT ![c] = {}]

(* An earlier stage fails, or the credential expired or says it is revoked  *)
Refuse(c) ==
  /\ pc[c] = "idle"
  /\ pc' = [pc EXCEPT ![c] = "done"]
  /\ verdict' = [verdict EXCEPT ![c] = "deny"]
  /\ UNCHANGED <<world, now, status, revoked, crl, cache, began, ended, mail, used, answer>>

(* The lifecycle stage up to the fetch: the dates and the inline flag, the  *)
(* dispatch, the cache                                                      *)
Check(c) ==
  /\ pc[c] = "idle"
  /\ now <= card[cred[c]].expires   \* MaxTime + 1: no date, or none that parses
  /\ ~card[cred[c]].inline
  /\ began' = [began EXCEPT ![c] = now]
  /\ \/ ~Answerable(c) /\ Conclude(c, "unknown", {})
     \/ Answerable(c) /\ \E d \in Cached(c) : Conclude(c, AnswerIn(c, d), {d})
     \/ /\ Answerable(c) /\ Cached(c) = {}
        /\ pc' = [pc EXCEPT ![c] = "fetching"]
        /\ UNCHANGED <<ended, mail, used, answer, verdict>>
  /\ UNCHANGED <<world, now, status, revoked, crl, cache>>

(* What the source of c may say now: the CRL published last; the registry   *)
(* (handleOCSPRequest), or a status no one validates; the registry as a list *)
Says(c) ==
  CASE By(c) = "CRL" -> {crl.status}
    [] By(c) = "OCSP" -> {status, [x \in Creds |-> "other"]}
    [] OTHER -> {Listed}

Reply(c, s, g) ==
  [status |-> s, next |-> IF By(c) = "CRL" THEN crl.next ELSE 0,
   signature |-> g, asked |-> began[c], at |-> 0, own |-> TRUE]

(* The source answers; the answer travels.  There is no CRL at an OCSP      *)
(* address.                                                                 *)
SourceAnswers(c, s, g) ==
  /\ pc[c] = "fetching" /\ mail[c] = {}
  /\ By(c) = "CRL" => card[cred[c]].url = "crl"
  /\ mail' = [mail EXCEPT ![c] = {Reply(c, s, g)}]
  /\ UNCHANGED <<world, now, status, revoked, crl, cache, pc, began, ended, used,
                 answer, verdict>>

(* The answer arrives: it is kept, with the time of its arrival, and used   *)
Arrive(c) ==
  /\ pc[c] = "fetching"
  /\ \E m \in mail[c] : LET d == [m EXCEPT !.at = now] IN
       /\ cache' = Remember(c, d)
       /\ Conclude(c, AnswerIn(c, d), {d})
  /\ UNCHANGED <<world, now, status, revoked, crl, began>>

(* An OCSP answer made for another request, however long ago, is refused    *)
(* for its nonce, but has been kept by then if it says good.  Its signature *)
(* is never looked at: with the responder's key the cache is not read.      *)
NonceDiffers(c, s) ==
  /\ pc[c] = "fetching" /\ By(c) = "OCSP"
  /\ cache' = Remember(c, [status |-> [x \in Creds |-> s], next |-> 0,
                           signature |-> "absent", asked |-> began[c], at |-> now,
                           own |-> FALSE])
  /\ Conclude(c, "unknown", {})
  /\ UNCHANGED <<world, now, status, revoked, crl, began>>

(* No connection, an HTTP error, or a body that is no JSON                  *)
FetchFails(c) ==
  /\ pc[c] = "fetching"
  /\ Conclude(c, "unknown", {})
  /\ UNCHANGED <<world, now, status, revoked, crl, cache, began>>

Tick ==
  /\ now < MaxTime
  /\ now' = now + 1
  /\ UNCHANGED <<world, status, revoked, crl, cache, pc, began, ended, mail, used,
                 answer, verdict>>

Settled == (\A c \in Calls : pc[c] = "done") /\ UNCHANGED vars

Next ==
  \/ \E x \in Creds : SetStatus(x)
  \/ Publish
  \/ \E c \in Calls :
       \/ Refuse(c)
       \/ Check(c)
       \/ \E g \in Signatures : \E s \in Says(c) : SourceAnswers(c, s, g)
       \/ Arrive(c)
       \/ \E s \in Replied : NonceDiffers(c, s)
       \/ FetchFails(c)
  \/ Tick
  \/ Settled

Spec == Init /\ [][Next]_vars
-----------------------------------------------------------------------------
(* Properties                                                               *)

(* Every variable has its type, and a cache keeps one document per key.     *)
TypeOK ==
  /\ now \in 0 .. MaxTime
  /\ setup \in Setup
  /\ card \in [Creds -> Card]
  /\ status \in [Creds -> Status]
  /\ revoked \in [Creds -> SUBSET Nat]
  /\ crl \in Crl
  /\ cache \in [Keys -> SUBSET Doc]
  /\ \A k \in Keys : \A d, e \in cache[k] : d = e
  /\ pc \in [Calls -> {"idle", "fetching", "done"}]
  /\ cred \in [Calls -> Creds]
  /\ began \in [Calls -> Nat] /\ ended \in [Calls -> Nat]
  /\ mail \in [Calls -> SUBSET Doc] /\ used \in [Calls -> SUBSET Doc]
  /\ answer \in [Calls -> Replied \cup {"none"}]
  /\ verdict \in [Calls -> Verdicts]

(* However late a CRL arrives and however long it is cached, a credential   *)
(* is not reported good more than the life of a CRL after its revocation:   *)
(* verifyCRL looks at next_update each time the document is used.           *)
CrlBoundsStaleness ==
  \A c \in Calls : By(c) = "CRL" /\ answer[c] = "good" =>
    \A t \in revoked[cred[c]] : ended[c] <= t + CrlLife

(* An answer rests on a document the check itself asked for, or on one that *)
(* arrived less than a ttl before the check began.  A good answer of a      *)
(* status list, or of OCSP, is then never older than the fetch that brought *)
(* it.  The exception is an OCSP answer made for another request: the check *)
(* that fetched it refuses it, but a later one without the responder's key  *)
(* may find it in the cache and report a credential good that was revoked   *)
(* before either of them began.  With the key every answer is current.      *)
AnswersAreRecent ==
  \A c \in Calls : \A d \in used[c] :
    /\ d.asked # began[c] \/ ~d.own => began[c] < d.at + CacheTtl
    /\ By(c) # "CRL" /\ answer[c] = "good" /\ d.own =>
         \A t \in revoked[cred[c]] : d.asked <= t
    /\ By(c) = "OCSP" /\ setup.keyed => d.own /\ d.asked = began[c]
    /\ ~d.own => By(c) = "OCSP"

(* Fail closed: a credential is allowed only on a document that neither     *)
(* says revoked nor unknown and passed the checks of its method; a missing  *)
(* field, a failed fetch, a bad signature, a stale CRL or an unknown        *)
(* credential never lead to ALLOW.  CRLs and status lists say good then;    *)
(* an OCSP answer may also hold no status at all, or one that is none of    *)
(* the three, since only two of them are refused.                           *)
AllowRestsOnDocument ==
  \A c \in Calls : verdict[c] = "allow" /\ setup.failClosed =>
    \E d \in used[c] :
      /\ d.status[cred[c]] \in {"good", "other"}
      /\ d.status[cred[c]] = "other" => By(c) = "OCSP"
      /\ d.signature = "invalid" => By(c) = "OCSP" /\ ~setup.keyed
      /\ By(c) = "CRL" => d.signature = "valid" /\ ended[c] <= d.next
-----------------------------------------------------------------------------
(* Statements of the documents that the code does not keep                  *)

(* OCSPRequest: the nonce "prevents replay of a cached response": OCSP      *)
(* reports no credential good that was revoked before the document the      *)
(* answer rests on was asked for.                                           *)
NonceStopsReplay ==
  \A c \in Calls : By(c) = "OCSP" /\ answer[c] = "good" =>
    \A d \in used[c] : \A t \in revoked[cred[c]] : d.asked <= t
=============================================================================
