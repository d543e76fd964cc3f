-------------------------- MODULE RevocationProofs --------------------------
(***************************************************************************)
(* What RevocationCheck guarantees for every number of credentials and     *)
(* checks, every ttl and every life of a CRL; and what the pipeline that   *)
(* asks a checker allows.                                                  *)
(***************************************************************************)
EXTENDS RevocationCheck, VerificationPipeline, WellFoundedInduction, TLAPS

(* The type of the state, and what Conclude and Arrive put into it, are     *)
(* the ground of every other proof.                                         *)
LEMMA ConcludeType ==
  ASSUME TypeOK, NEW c \in Calls, NEW s \in Replied, NEW D \in SUBSET Doc,
         Conclude(c, s, D)
  PROVE  /\ pc' \in [Calls -> {"idle", "fetching", "done"}]
         /\ ended' \in [Calls -> Nat]
         /\ answer' \in [Calls -> Replied \cup {"none"}]
         /\ used' \in [Calls -> SUBSET Doc]
         /\ verdict' \in [Calls -> Verdicts]
         /\ mail' \in [Calls -> SUBSET Doc]
<1>1. now \in Nat
  BY RevocationAssumption DEF TypeOK
<1>2. PICK v \in {"deny", "allow"} : verdict' = [verdict EXCEPT ![c] = v]
  BY DEF Conclude
<1> QED
  BY <1>1, <1>2 DEF Conclude, TypeOK, Verdicts

(* A cached document has the type of a document, and the answer it gives is *)
(* in Replied.                                                               *)
LEMMA CachedType ==
  ASSUME TypeOK, NEW c \in Calls, Answerable(c), NEW d \in Cached(c)
  PROVE  d \in Doc /\ d \in cache[Key(c)] /\ Key(c) \in Keys
<1>1. Key(c) \in Keys
  BY DEF Key, Keys, Answerable, By, Checker, TypeOK
<1> QED
  BY <1>1 DEF Cached, TypeOK

LEMMA AnswerType ==
  ASSUME TypeOK, NEW c \in Calls, NEW d \in Doc
  PROVE  AnswerIn(c, d) \in Replied
BY DEF AnswerIn, Doc, Replied, Status, TypeOK

(* A document that arrives is the one sent, stamped with the time.          *)
LEMMA StampType ==
  ASSUME TypeOK, NEW m \in Doc
  PROVE  [m EXCEPT !.at = now] \in Doc
BY RevocationAssumption DEF TypeOK, Doc

(* What a source sends is a document, asked for when the check began.       *)
LEMMA SaysType ==
  ASSUME TypeOK, NEW c \in Calls, NEW s \in Says(c)
  PROVE  s \in [Creds -> Replied]
BY DEF Says, Crl, Listed, Status, Replied, TypeOK

LEMMA ReplyType ==
  ASSUME TypeOK, NEW c \in Calls, NEW s \in Says(c), NEW b \in Signatures
  PROVE  /\ Reply(c, s, b) \in Doc /\ Reply(c, s, b).asked = began[c]
         /\ Reply(c, s, b).own /\ Reply(c, s, b).status = s
         /\ By(c) = "CRL" => Reply(c, s, b).next = crl.next
BY SaysType DEF Reply, Doc, Crl, TypeOK

(* An OCSP answer made for another request is one as well.                  *)
Foreign(c, s) ==
  [status |-> [x \in Creds |-> s], next |-> 0, signature |-> "absent",
   asked |-> began[c], at |-> now, own |-> FALSE]

LEMMA ForeignType ==
  ASSUME TypeOK, NEW c \in Calls, NEW s \in Replied
  PROVE  /\ Foreign(c, s) \in Doc /\ Foreign(c, s).asked = began[c]
         /\ ~Foreign(c, s).own
BY RevocationAssumption DEF Foreign, Doc, Signatures, TypeOK

(* A cache in which a document is kept keeps its type.                      *)
LEMMA RememberType ==
  ASSUME TypeOK, NEW c \in Calls, NEW d \in Doc, cache' = Remember(c, d)
  PROVE  /\ cache' \in [Keys -> SUBSET Doc]
         /\ \A k \in Keys : \A e, f \in cache'[k] : e = f
<1>1. \A k \in Keys : cache'[k] \in {cache[k], {d}}
  BY DEF Remember, TypeOK
<1>2. DOMAIN cache' = Keys /\ cache' = [k \in Keys |-> cache'[k]]
  BY DEF Remember, TypeOK
<1>3. cache' \in [Keys -> SUBSET Doc]
  BY <1>1, <1>2 DEF TypeOK
<1>4. \A k \in Keys : \A e, f \in cache'[k] : e = f
  BY <1>1 DEF TypeOK
<1> QED
  BY <1>3, <1>4

(* Every step keeps the type.                                               *)
LEMMA TypeStep == TypeOK /\ [Next]_vars => TypeOK'
<1> SUFFICES ASSUME TypeOK, [Next]_vars PROVE TypeOK'
  OBVIOUS
<1> USE RevocationAssumption
<1>1. ASSUME NEW x \in Creds, SetStatus(x) PROVE TypeOK'
  <2>1. PICK s \in Status :
          /\ status' = [status EXCEPT ![x] = s]
          /\ revoked' = [revoked EXCEPT ![x] = IF s = "revoked" THEN {now} ELSE {}]
    BY <1>1 DEF SetStatus
  <2>2. status' \in [Creds -> Status] /\ revoked' \in [Creds -> SUBSET Nat]
    BY <2>1 DEF TypeOK, Status
  <2> QED
    BY <1>1, <2>2 DEF SetStatus, TypeOK, world
<1>2. ASSUME Publish PROVE TypeOK'
  <2>1. crl' \in Crl
    BY <1>2 DEF Publish, Listed, Crl, Status, TypeOK
  <2> QED
    BY <1>2, <2>1 DEF Publish, TypeOK, world
<1>3. ASSUME NEW c \in Calls, Refuse(c) PROVE TypeOK'
  BY <1>3 DEF Refuse, TypeOK, world, Verdicts
<1>4. ASSUME NEW c \in Calls, Check(c) PROVE TypeOK'
  <2>1. began' \in [Calls -> Nat]
    BY <1>4 DEF Check, TypeOK
  <2>2. CASE ~Answerable(c) /\ Conclude(c, "unknown", {})
    <3>1. "unknown" \in Replied /\ {} \in SUBSET Doc
      BY DEF Replied, Status
    <3> QED
      BY <1>4, <2>1, <2>2, <3>1, ConcludeType DEF Check, TypeOK, world
  <2>3. CASE Answerable(c) /\ \E d \in Cached(c) : Conclude(c, AnswerIn(c, d), {d})
    <3>1. PICK d \in Cached(c) : Conclude(c, AnswerIn(c, d), {d})
      BY <2>3
    <3>2. d \in Doc /\ AnswerIn(c, d) \in Replied
      BY <2>3, CachedType, AnswerType
    <3> QED
      BY <1>4, <2>1, <3>1, <3>2, ConcludeType DEF Check, TypeOK, world
  <2>4. CASE /\ pc' = [pc EXCEPT ![c] = "fetching"]
             /\ UNCHANGED <<ended, mail, used, answer, verdict>>
    BY <1>4, <2>1, <2>4 DEF Check, TypeOK, world
  <2> QED
    BY <1>4, <2>2, <2>3, <2>4 DEF Check
<1>5. ASSUME NEW c \in Calls, NEW b \in Signatures, NEW s \in Says(c), SourceAnswers(c, s, b)
      PROVE  TypeOK'
  BY <1>5, ReplyType DEF SourceAnswers, TypeOK, world
<1>7. ASSUME NEW c \in Calls, Arrive(c) PROVE TypeOK'
  <2>1. PICK m \in mail[c] :
          /\ cache' = Remember(c, [m EXCEPT !.at = now])
          /\ Conclude(c, AnswerIn(c, [m EXCEPT !.at = now]), {[m EXCEPT !.at = now]})
    BY <1>7 DEF Arrive
  <2> DEFINE d == [m EXCEPT !.at = now]
  <2>2. d \in Doc
    BY StampType DEF TypeOK
  <2>3. AnswerIn(c, d) \in Replied /\ {d} \in SUBSET Doc
    BY <2>2, AnswerType
  <2>4. cache' = Remember(c, d) /\ Conclude(c, AnswerIn(c, d), {d})
    BY <2>1
  <2> HIDE DEF d
  <2>5. /\ pc' \in [Calls -> {"idle", "fetching", "done"}]
        /\ ended' \in [Calls -> Nat]
        /\ answer' \in [Calls -> Replied \cup {"none"}]
        /\ used' \in [Calls -> SUBSET Doc]
        /\ verdict' \in [Calls -> Verdicts]
        /\ mail' \in [Calls -> SUBSET Doc]
    BY <2>3, <2>4, ConcludeType
  <2>6. cache' \in [Keys -> SUBSET Doc] /\ \A k \in Keys : \A e, f \in cache'[k] : e = f
    BY <2>2, <2>4, RememberType
  <2> QED
    BY <1>7, <2>5, <2>6 DEF Arrive, TypeOK, world
<1>8. ASSUME NEW c \in Calls, NEW s \in Replied, NonceDiffers(c, s) PROVE TypeOK'
  <2>1. "unknown" \in Replied /\ {} \in SUBSET Doc
    BY DEF Replied, Status
  <2>2. cache' \in [Keys -> SUBSET Doc] /\ \A k \in Keys : \A e, f \in cache'[k] : e = f
    <3>1. cache' = Remember(c, Foreign(c, s))
      BY <1>8 DEF NonceDiffers, Foreign
    <3> QED
      BY <3>1, ForeignType, RememberType
  <2> QED
    BY <1>8, <2>1, <2>2, ConcludeType DEF NonceDiffers, TypeOK, world
<1>9. ASSUME NEW c \in Calls, FetchFails(c) PROVE TypeOK'
  <2>1. "unknown" \in Replied /\ {} \in SUBSET Doc
    BY DEF Replied, Status
  <2> QED
    BY <1>9, <2>1, ConcludeType DEF FetchFails, TypeOK, world
<1>10. ASSUME Tick PROVE TypeOK'
  BY <1>10 DEF Tick, TypeOK, world
<1>11. ASSUME UNCHANGED vars PROVE TypeOK'
  BY <1>11 DEF vars, TypeOK
<1> QED
  BY <1>1, <1>2, <1>3, <1>4, <1>5, <1>7, <1>8, <1>9, <1>10, <1>11 DEF Next, Settled

LEMMA TypeInit == Init => TypeOK
BY RevocationAssumption
   DEF Init, TypeOK, Status, Replied, Verdicts, Crl, Doc

(* The state of every check, cache and registry keeps its type.             *)
THEOREM CheckTypeCorrect == Spec => []TypeOK
BY TypeInit, TypeStep, PTL DEF Spec
-----------------------------------------------------------------------------
(* The inductive invariant.  Times of the past are in the past, the history *)
(* agrees with the registry, a check that has not concluded has nothing to  *)
(* show, and what is in the mail answers the fetch under way.               *)
Bookkeeping ==
  /\ \A c \in Calls : began[c] <= now /\ ended[c] <= now
  /\ \A x \in Creds : status[x] # "revoked" => revoked[x] = {}
  /\ \A c \in Calls : pc[c] # "done" =>
       used[c] = {} /\ answer[c] = "none" /\ verdict[c] = "none"
  /\ \A c \in Calls : \A d \in mail[c] : pc[c] = "fetching" /\ d.asked = began[c] /\ d.own

(* A CRL lists what was revoked when it was issued, and lives for CrlLife.  *)
CrlSoundAt(d, n, R) ==
  /\ d.next <= n + CrlLife
  /\ \A x \in Creds : d.status[x] # "revoked" =>
       \A t \in R[x] : d.next <= t + CrlLife

CrlSound(d) == CrlSoundAt(d, now, revoked)

CrlsSound ==
  /\ CrlSound(crl)
  /\ \A d \in cache["CRL"] : CrlSound(d)
  /\ \A c \in Calls : By(c) = "CRL" => \A d \in mail[c] : CrlSound(d)

(* An answer to the request it came for, and not one made for another,      *)
(* knows everything revoked before it was asked for.                        *)
LiveSoundAt(d, n, R) ==
  /\ d.asked <= n
  /\ \A x \in Creds : d.status[x] = "good" /\ d.own =>
       \A t \in R[x] : d.asked <= t

LiveSound(d) == LiveSoundAt(d, now, revoked)

LivesSound ==
  /\ \A k \in Keys \ {"CRL"} : \A d \in cache[k] : LiveSound(d)
  /\ \A c \in Calls : By(c) # "CRL" => \A d \in mail[c] : LiveSound(d)

(* CRLs and status lists answer the request they came for, with one of the  *)
(* three statuses.                                                          *)
PlainDoc(d) == d.own /\ d.status \in [Creds -> Status]

Plain ==
  /\ \A k \in {"CRL", "LIST"} : \A d \in cache[k] : PlainDoc(d)
  /\ \A c \in Calls : By(c) # "OCSP" => \A d \in mail[c] : PlainDoc(d)

(* A live answer that a check rests on was asked for before now.            *)
UsedAsked == \A c \in Calls : By(c) # "CRL" => \A d \in used[c] : d.asked <= now

(* A check that concludes had not concluded, or concludes now for the first *)
(* time: what it has to show afterwards.                                    *)
LEMMA ConcludeShows ==
  ASSUME TypeOK, NEW c \in Calls, NEW s \in Replied, NEW D \in SUBSET Doc,
         Conclude(c, s, D)
  PROVE  /\ pc'[c] = "done" /\ ended'[c] = now /\ answer'[c] = s /\ used'[c] = D
         /\ mail'[c] = {}
         /\ verdict'[c] = "allow" => Passes(s)
         /\ \A b \in Calls \ {c} :
              /\ pc'[b] = pc[b] /\ ended'[b] = ended[b] /\ answer'[b] = answer[b]
              /\ used'[b] = used[b] /\ mail'[b] = mail[b] /\ verdict'[b] = verdict[b]
<1>1. PICK v \in {"deny"} \cup (IF Passes(s) THEN {"allow"} ELSE {}) :
        verdict' = [verdict EXCEPT ![c] = v]
  BY DEF Conclude
<1>2. v = "allow" => Passes(s)
  OBVIOUS
<1> HIDE DEF Passes
<1> QED
  BY <1>1, <1>2 DEF Conclude, TypeOK

(* Every step of a check that is not the source's answer concludes the      *)
(* check, begins its fetch, or refuses the credential.                      *)
LEMMA CheckCases ==
  ASSUME TypeOK, NEW c \in Calls, Check(c)
  PROVE  \/ Conclude(c, "unknown", {})
         \/ \E d \in Cached(c) : Answerable(c) /\ Conclude(c, AnswerIn(c, d), {d})
         \/ pc' = [pc EXCEPT ![c] = "fetching"] /\ UNCHANGED <<ended, mail, used, answer, verdict>>
BY DEF Check

LEMMA BookkeepingStep == TypeOK /\ Bookkeeping /\ [Next]_vars => Bookkeeping'
<1> SUFFICES ASSUME TypeOK, Bookkeeping, [Next]_vars PROVE Bookkeeping'
  OBVIOUS
<1> USE RevocationAssumption
<1>0. now \in Nat /\ \A c \in Calls : began[c] \in Nat /\ ended[c] \in Nat
  BY DEF TypeOK
<1>a. "unknown" \in Replied /\ {} \in SUBSET Doc
  BY DEF Replied, Status
<1>1. ASSUME NEW x \in Creds, SetStatus(x) PROVE Bookkeeping'
  <2>1. PICK s \in Status :
          /\ status' = [status EXCEPT ![x] = s]
          /\ revoked' = [revoked EXCEPT ![x] = IF s = "revoked" THEN {now} ELSE {}]
    BY <1>1 DEF SetStatus
  <2>2. \A y \in Creds : status'[y] # "revoked" => revoked'[y] = {}
    BY <1>1, <2>1 DEF Bookkeeping, TypeOK, SetStatus
  <2> QED
    BY <1>1, <2>2 DEF SetStatus, Bookkeeping
<1>2. CASE Publish
  BY <1>2 DEF Publish, Bookkeeping
<1>3. ASSUME NEW c \in Calls, Refuse(c) PROVE Bookkeeping'
  BY <1>3 DEF Refuse, Bookkeeping, TypeOK
<1>4. ASSUME NEW c \in Calls, Check(c) PROVE Bookkeeping'
  <2>1. /\ pc[c] = "idle" /\ began' = [began EXCEPT ![c] = now] /\ UNCHANGED <<now, status, revoked>>
    BY <1>4 DEF Check
  <2>2. ASSUME NEW s \in Replied, NEW D \in SUBSET Doc, Conclude(c, s, D) PROVE Bookkeeping'
    <3>1. /\ pc'[c] = "done" /\ ended'[c] = now /\ mail'[c] = {}
          /\ \A b \in Calls \ {c} :
               /\ pc'[b] = pc[b] /\ ended'[b] = ended[b] /\ answer'[b] = answer[b]
               /\ used'[b] = used[b] /\ mail'[b] = mail[b] /\ verdict'[b] = verdict[b]
      BY <2>2, ConcludeShows
    <3>2. \A b \in Calls : began'[b] = IF b = c THEN now ELSE began[b]
      BY <2>1 DEF TypeOK
    <3>3. \A b \in Calls : began'[b] <= now' /\ ended'[b] <= now'
      BY <1>0, <2>1, <3>1, <3>2 DEF Bookkeeping
    <3>4. \A b \in Calls : pc'[b] # "done" =>
            used'[b] = {} /\ answer'[b] = "none" /\ verdict'[b] = "none"
      BY <3>1 DEF Bookkeeping
    <3>5. \A b \in Calls : \A d \in mail'[b] : pc'[b] = "fetching" /\ d.asked = began'[b] /\ d.own
      BY <3>1, <3>2 DEF Bookkeeping
    <3> QED
      BY <2>1, <3>3, <3>4, <3>5 DEF Bookkeeping
  <2>3. CASE \E d \in Cached(c) : Answerable(c) /\ Conclude(c, AnswerIn(c, d), {d})
    <3>1. PICK d \in Cached(c) : Answerable(c) /\ Conclude(c, AnswerIn(c, d), {d})
      BY <2>3
    <3> QED
      BY <2>2, <3>1, CachedType, AnswerType
  <2>4. CASE pc' = [pc EXCEPT ![c] = "fetching"] /\ UNCHANGED <<ended, mail, used, answer, verdict>>
    BY <1>0, <2>1, <2>4 DEF Bookkeeping, TypeOK
  <2> QED
    BY <1>4, <1>a, <2>2, <2>3, <2>4, CheckCases
<1>5. ASSUME NEW c \in Calls, NEW b \in Signatures, NEW s \in Says(c), SourceAnswers(c, s, b)
      PROVE  Bookkeeping'
  <2> DEFINE D == Reply(c, s, b)
  <2>1. mail' = [mail EXCEPT ![c] = {D}] /\ D.asked = began[c] /\ D.own
    BY <1>5, ReplyType DEF SourceAnswers
  <2>2. pc[c] = "fetching" /\ UNCHANGED <<now, status, revoked, pc, began, ended, used, answer, verdict>>
    BY <1>5 DEF SourceAnswers
  <2> HIDE DEF D
  <2>3. \A e \in Calls : mail'[e] = IF e = c THEN {D} ELSE mail[e]
    BY <2>1 DEF TypeOK
  <2>4. \A e \in Calls : \A d \in mail'[e] : pc'[e] = "fetching" /\ d.asked = began'[e] /\ d.own
    BY <2>1, <2>2, <2>3 DEF Bookkeeping
  <2> QED
    BY <2>2, <2>4 DEF Bookkeeping
<1>6. ASSUME NEW c \in Calls, NEW s \in Replied, NEW D \in SUBSET Doc, Conclude(c, s, D),
             UNCHANGED <<now, status, revoked, began>>
      PROVE Bookkeeping'
  BY <1>0, <1>6, ConcludeShows DEF Bookkeeping
<1>7. ASSUME NEW c \in Calls, Arrive(c) PROVE Bookkeeping'
  <2>1. PICK m \in mail[c] :
          Conclude(c, AnswerIn(c, [m EXCEPT !.at = now]), {[m EXCEPT !.at = now]})
    BY <1>7 DEF Arrive
  <2> DEFINE d == [m EXCEPT !.at = now]
  <2>2. d \in Doc
    BY StampType DEF TypeOK
  <2>3. Conclude(c, AnswerIn(c, d), {d})
    BY <2>1
  <2> HIDE DEF d
  <2>4. AnswerIn(c, d) \in Replied /\ {d} \in SUBSET Doc
    BY <2>2, AnswerType
  <2>5. UNCHANGED <<now, status, revoked, began>>
    BY <1>7 DEF Arrive
  <2> QED
    BY <1>6, <2>3, <2>4, <2>5
<1>8. ASSUME NEW c \in Calls, FetchFails(c) PROVE Bookkeeping'
  BY <1>6, <1>8, <1>a DEF FetchFails
<1>9. ASSUME NEW c \in Calls, NEW s \in Replied, NonceDiffers(c, s) PROVE Bookkeeping'
  BY <1>6, <1>9, <1>a DEF NonceDiffers
<1>10. CASE Tick
  BY <1>0, <1>10 DEF Tick, Bookkeeping
<1>11. CASE UNCHANGED vars
  BY <1>11 DEF vars, Bookkeeping
<1> QED
  BY <1>1, <1>2, <1>3, <1>4, <1>5, <1>7, <1>8, <1>9, <1>10, <1>11 DEF Next, Settled
-----------------------------------------------------------------------------
(* Time does not run back, and revocations are made now.                    *)
LEMMA Past ==
  ASSUME TypeOK, [Next]_vars
  PROVE  /\ now \in Nat /\ now' \in Nat /\ now <= now'
         /\ \A x \in Creds : revoked'[x] \in {revoked[x], {now}, {}}
<1> USE RevocationAssumption
<1>1. now \in Nat /\ now' \in Nat /\ now <= now'
  <2>1. now' = now \/ now' = now + 1
    BY DEF Next, SetStatus, Publish, Refuse, Check, SourceAnswers, Arrive,
           NonceDiffers, FetchFails, Tick, Settled, vars
  <2> QED
    BY <2>1 DEF TypeOK
<1>2. ASSUME NEW x \in Creds, SetStatus(x)
      PROVE  \A y \in Creds : revoked'[y] \in {revoked[y], {now}, {}}
  <2>1. PICK s \in Status :
          revoked' = [revoked EXCEPT ![x] = IF s = "revoked" THEN {now} ELSE {}]
    BY <1>2 DEF SetStatus
  <2> QED
    BY <2>1 DEF TypeOK
<1> QED
  BY <1>1, <1>2 DEF Next, Publish, Refuse, Check, SourceAnswers, Arrive, NonceDiffers, FetchFails,
              Tick, Settled, vars

(* A document stays sound when a credential is revoked later, and when time *)
(* passes.                                                                  *)
LEMMA CrlSoundStays ==
  ASSUME TypeOK, [Next]_vars, NEW d, d.next \in Nat, CrlSound(d)
  PROVE  CrlSoundAt(d, now', revoked')
BY Past, RevocationAssumption DEF CrlSound, CrlSoundAt, TypeOK

LEMMA LiveSoundStays ==
  ASSUME TypeOK, [Next]_vars, NEW d, d.asked \in Nat, LiveSound(d)
  PROVE  LiveSoundAt(d, now', revoked')
BY Past DEF LiveSound, LiveSoundAt, TypeOK

(* What the sources say is sound at the time they say it.                   *)
LEMMA ListedSound ==
  ASSUME TypeOK, Bookkeeping, NEW x \in Creds, Listed[x] # "revoked" \/ status[x] # "revoked"
  PROVE  revoked[x] = {}
BY DEF Listed, Bookkeeping

LEMMA ReplySound ==
  ASSUME TypeOK, Bookkeeping, CrlsSound, NEW c \in Calls, NEW s \in Says(c), NEW b \in Signatures
  PROVE  /\ By(c) = "CRL" => CrlSound(Reply(c, s, b))
         /\ By(c) # "CRL" => LiveSound(Reply(c, s, b))
<1>1. CASE By(c) = "CRL"
  <2>1. s = crl.status /\ Reply(c, s, b).status = s /\ Reply(c, s, b).next = crl.next
    BY <1>1, ReplyType DEF Says
  <2> QED
    BY <1>1, <2>1 DEF CrlsSound, CrlSound, CrlSoundAt
<1>2. CASE By(c) # "CRL"
  <2>1. Reply(c, s, b).asked <= now /\ Reply(c, s, b).status = s
    BY ReplyType DEF Bookkeeping
  <2>2. \A x \in Creds : s[x] = "good" => revoked[x] = {}
    BY <1>2, ListedSound DEF Says
  <2> QED
    BY <1>2, <2>1, <2>2 DEF LiveSound, LiveSoundAt
<1> QED
  BY <1>1, <1>2

LEMMA ReplyPlain ==
  ASSUME TypeOK, NEW c \in Calls, By(c) # "OCSP", NEW s \in Says(c), NEW b \in Signatures
  PROVE  PlainDoc(Reply(c, s, b))
<1>1. s \in [Creds -> Status]
  BY DEF Says, Crl, Listed, Status, TypeOK
<1> QED
  BY <1>1, ReplyType DEF PlainDoc

LEMMA ForeignSound ==
  ASSUME TypeOK, Bookkeeping, NEW c \in Calls, NEW s \in Replied
  PROVE  LiveSound(Foreign(c, s))
BY ForeignType DEF LiveSound, LiveSoundAt, Bookkeeping

(* A cached document was found under the key of the method.                 *)
LEMMA KeyOfMethod ==
  ASSUME TypeOK, NEW c \in Calls
  PROVE  /\ Key(c) = "CRL" <=> By(c) = "CRL"
         /\ By(c) = "OCSP" => Key(c) \notin {"CRL", "LIST"}
         /\ By(c) # "OCSP" => Key(c) = By(c)
BY RevocationAssumption DEF Key, By, Checker, TypeOK

(* A step changes the mail and the caches only with what a source said.     *)
Emptied(c) == mail' = [mail EXCEPT ![c] = {}]

Sent(c, b) == \E s \in Says(c) : mail' = [mail EXCEPT ![c] = {Reply(c, s, b)}]

Delivers(c, m) ==
  /\ cache' = Remember(c, [m EXCEPT !.at = now])
  /\ Emptied(c)

Misled(c, s) ==
  /\ By(c) = "OCSP" /\ cache' = Remember(c, Foreign(c, s))
  /\ Emptied(c)

Moved ==
  \/ UNCHANGED <<mail, cache>>
  \/ cache' = cache /\ \E c \in Calls : Emptied(c)
  \/ cache' = cache /\ \E c \in Calls : \E b \in Signatures : Sent(c, b)
  \/ \E c \in Calls : \E m \in mail[c] : Delivers(c, m)
  \/ \E c \in Calls : \E s \in Replied : Misled(c, s)

LEMMA MailMoves == ASSUME [Next]_vars PROVE Moved
<1>1. ASSUME NEW c \in Calls, Check(c) PROVE cache' = cache /\ (Emptied(c) \/ mail' = mail)
  BY <1>1 DEF Check, Conclude, Emptied
<1>2. ASSUME NEW c \in Calls, Arrive(c) PROVE \E m \in mail[c] : Delivers(c, m)
  BY <1>2 DEF Arrive, Conclude, Delivers, Emptied
<1>7. ASSUME NEW c \in Calls, NEW s \in Replied, NonceDiffers(c, s) PROVE Misled(c, s)
  BY <1>7 DEF NonceDiffers, Conclude, Misled, Foreign, Emptied
<1>3. ASSUME NEW c \in Calls, FetchFails(c) PROVE cache' = cache /\ Emptied(c)
  BY <1>3 DEF FetchFails, Conclude, Emptied
<1>4. ASSUME NEW c \in Calls, NEW b \in Signatures, NEW s \in Says(c), SourceAnswers(c, s, b)
      PROVE  cache' = cache /\ Sent(c, b)
  BY <1>4 DEF SourceAnswers, Sent
<1>5. (\E x \in Creds : SetStatus(x)) \/ Publish \/ Tick \/ Settled
        \/ (\E c \in Calls : Refuse(c)) \/ UNCHANGED vars
      => Moved
  BY DEF Moved, SetStatus, Publish, Tick, Settled, Refuse, vars
<1>6. ASSUME NEW c \in Calls,
             \/ Check(c) \/ Arrive(c) \/ FetchFails(c)
             \/ \E s \in Replied : NonceDiffers(c, s)
             \/ \E b \in Signatures : \E s \in Says(c) : SourceAnswers(c, s, b)
      PROVE  Moved
  <2>1. CASE Check(c)
    BY <1>1, <2>1 DEF Moved
  <2>2. CASE Arrive(c)
    BY <1>2, <2>2 DEF Moved
  <2>3. CASE FetchFails(c)
    BY <1>3, <2>3 DEF Moved
  <2>4. CASE \E b \in Signatures : \E s \in Says(c) : SourceAnswers(c, s, b)
    BY <1>4, <2>4 DEF Moved
  <2>5. CASE \E s \in Replied : NonceDiffers(c, s)
    BY <1>7, <2>5 DEF Moved
  <2> QED
    BY <1>6, <2>1, <2>2, <2>3, <2>4, <2>5
<1> QED
  BY <1>5, <1>6 DEF Next

(* Stamping a document does not change what it says.                        *)
LEMMA StampSound ==
  ASSUME TypeOK, NEW m \in Doc
  PROVE  LET d == [m EXCEPT !.at = now] IN
         /\ d \in Doc /\ d.asked = m.asked /\ d.at = now /\ d.own = m.own
         /\ CrlSound(m) => CrlSound(d)
         /\ LiveSound(m) => LiveSound(d)
         /\ PlainDoc(m) => PlainDoc(d)
BY StampType DEF Doc, CrlSound, LiveSound, CrlSoundAt, LiveSoundAt, PlainDoc

LEMMA WorldStays ==
  ASSUME [Next]_vars, NEW c \in Calls
  PROVE  By(c)' = By(c) /\ cred' = cred /\ setup' = setup
BY DEF Next, SetStatus, Publish, Refuse, Check, SourceAnswers, Arrive, NonceDiffers, FetchFails,
       Tick, Settled, vars, world, By

Sources == CrlsSound /\ LivesSound /\ Plain

LEMMA SourcesStep ==
  ASSUME TypeOK, Bookkeeping, Sources, [Next]_vars
  PROVE  Sources'
<1> USE RevocationAssumption
<1> DEFINE Right(c, d) == /\ By(c) = "CRL" => CrlSound(d)
                          /\ By(c) # "CRL" => LiveSound(d)
                          /\ By(c) # "OCSP" => PlainDoc(d)
           Held(k, d)  == /\ k = "CRL" => CrlSound(d)
                          /\ k # "CRL" => LiveSound(d)
                          /\ k \in {"CRL", "LIST"} => PlainDoc(d)
<1>1. \A c \in Calls : \A d \in mail[c] : d \in Doc /\ Right(c, d)
  BY DEF TypeOK, Sources, CrlsSound, LivesSound, Plain
<1>2. \A k \in Keys : \A d \in cache[k] : d \in Doc /\ Held(k, d)
  BY DEF TypeOK, Sources, CrlsSound, LivesSound, Plain, Keys
<1>3. \A d \in Doc : d.next \in Nat /\ d.asked \in Nat
  BY DEF Doc
<1>4. CrlSound(crl)'
  <2>1. CASE Publish
    <3>1. crl' = [status |-> Listed, next |-> now + CrlLife] /\ now' = now /\ revoked' = revoked
      BY <2>1 DEF Publish
    <3>2. \A x \in Creds : Listed[x] # "revoked" => revoked[x] = {}
      BY ListedSound
    <3>3. crl'.next = now' + CrlLife /\ crl'.status = Listed
      BY <3>1
    <3> QED
      BY <3>1, <3>2, <3>3, Past DEF CrlSound, CrlSoundAt
  <2>2. CASE crl' = crl
    <3>1. PICK d : d = crl
      OBVIOUS
    <3>2. d.next \in Nat /\ CrlSound(d)
      BY <3>1 DEF TypeOK, Crl, Sources, CrlsSound
    <3>3. CrlSoundAt(d, now', revoked')
      BY <3>2, CrlSoundStays
    <3> QED
      BY <2>2, <3>1, <3>3 DEF CrlSound
  <2> QED
    BY <2>1, <2>2 DEF Next, SetStatus, Refuse, Check, SourceAnswers, Arrive, NonceDiffers, FetchFails,
                      Tick, Settled, vars
<1>5. /\ \A c \in Calls : \A d \in mail'[c] : d \in Doc /\ Right(c, d)
      /\ \A k \in Keys : \A d \in cache'[k] : d \in Doc /\ Held(k, d)
  <2>1. CASE UNCHANGED <<mail, cache>>
    BY <2>1, <1>1, <1>2
  <2>2. CASE cache' = cache /\ \E c \in Calls : Emptied(c)
    BY <2>2, <1>1, <1>2 DEF TypeOK, Emptied
  <2>3. ASSUME NEW c \in Calls, NEW b \in Signatures, cache' = cache,
               Sent(c, b)
        PROVE  <1>5!1 /\ <1>5!2
    <3>1. PICK s \in Says(c) : mail' = [mail EXCEPT ![c] = {Reply(c, s, b)}]
      BY <2>3 DEF Sent
    <3>2. Reply(c, s, b) \in Doc /\ Right(c, Reply(c, s, b))
      BY ReplyType, ReplySound, ReplyPlain DEF Sources
    <3> HIDE DEF Right, Held
    <3> QED
      BY <1>1, <1>2, <2>3, <3>1, <3>2 DEF TypeOK
  <2>4. ASSUME NEW c \in Calls, NEW m \in mail[c],
               Delivers(c, m)
        PROVE  <1>5!1 /\ <1>5!2
    <3> DEFINE d == [m EXCEPT !.at = now]
    <3>1. d \in Doc /\ Held(Key(c), d)
      BY <1>1, StampSound, KeyOfMethod DEF Bookkeeping
    <3>2. cache' = Remember(c, d) /\ mail' = [mail EXCEPT ![c] = {}]
      BY <2>4 DEF Delivers, Emptied
    <3> HIDE DEF d, Right, Held
    <3>3. \A k \in Keys : cache'[k] = cache[k] \/ (k = Key(c) /\ cache'[k] = {d})
      BY <3>2 DEF Remember, TypeOK
    <3> QED
      BY <1>1, <1>2, <3>1, <3>2, <3>3 DEF TypeOK
  <2>5. ASSUME NEW c \in Calls, NEW s \in Replied, Misled(c, s)
        PROVE  <1>5!1 /\ <1>5!2
    <3> DEFINE d == Foreign(c, s)
    <3>1. d \in Doc /\ Held(Key(c), d)
      BY <2>5, ForeignType, ForeignSound, KeyOfMethod DEF Misled
    <3>2. cache' = Remember(c, d) /\ mail' = [mail EXCEPT ![c] = {}]
      BY <2>5 DEF Misled, Emptied
    <3> HIDE DEF d, Right, Held
    <3>3. \A k \in Keys : cache'[k] = cache[k] \/ (k = Key(c) /\ cache'[k] = {d})
      BY <3>2 DEF Remember, TypeOK
    <3> QED
      BY <1>1, <1>2, <3>1, <3>2, <3>3 DEF TypeOK
  <2> HIDE DEF Right, Held
  <2> QED
    BY <2>1, <2>2, <2>3, <2>4, <2>5, MailMoves DEF Moved
<1>6. ASSUME NEW d \in Doc
      PROVE  /\ CrlSound(d) => CrlSoundAt(d, now', revoked')
             /\ LiveSound(d) => LiveSoundAt(d, now', revoked')
  BY <1>3, CrlSoundStays, LiveSoundStays
<1>7. \A c \in Calls : By(c)' = By(c)
  BY WorldStays
<1>8. CrlsSound'
  <2>1. ASSUME NEW d \in cache'["CRL"] PROVE CrlSoundAt(d, now', revoked')
    <3>1. d \in Doc /\ CrlSound(d)
      BY <1>5 DEF Keys
    <3> QED
      BY <1>6, <3>1
  <2>2. ASSUME NEW c \in Calls, By(c)' = "CRL", NEW d \in mail'[c]
        PROVE  CrlSoundAt(d, now', revoked')
    <3>1. d \in Doc /\ CrlSound(d)
      BY <1>5, <1>7, <2>2
    <3> QED
      BY <1>6, <3>1
  <2> QED
    BY <1>4, <2>1, <2>2 DEF CrlsSound, CrlSound
<1>9. LivesSound'
  <2>1. ASSUME NEW k \in Keys \ {"CRL"}, NEW d \in cache'[k]
        PROVE  LiveSoundAt(d, now', revoked')
    <3>1. d \in Doc /\ LiveSound(d)
      BY <1>5
    <3> QED
      BY <1>6, <3>1
  <2>2. ASSUME NEW c \in Calls, By(c)' # "CRL", NEW d \in mail'[c]
        PROVE  LiveSoundAt(d, now', revoked')
    <3>1. d \in Doc /\ LiveSound(d)
      BY <1>5, <1>7, <2>2
    <3> QED
      BY <1>6, <3>1
  <2> QED
    BY <2>1, <2>2 DEF LivesSound, LiveSound
<1>10. Plain'
  BY <1>5, <1>7 DEF Plain, Keys, PlainDoc
<1> QED
  BY <1>8, <1>9, <1>10 DEF Sources
-----------------------------------------------------------------------------
(* What a step means for one check: it shows what it showed before, or it   *)
(* concludes now, on nothing or on one sound document, fetched by itself or *)
(* fresh in the cache.                                                      *)
Same(c) ==
  /\ used'[c] = used[c] /\ answer'[c] = answer[c] /\ ended'[c] = ended[c]
  /\ verdict'[c] \in {verdict[c], "deny"}
  /\ used[c] # {} => began'[c] = began[c]

Own(c, d) == d.own /\ d.asked = began[c] /\ began'[c] = began[c]
Hit(c, d) == began'[c] = now /\ Fresh(d) /\ ~(By(c) = "OCSP" /\ setup.keyed)

Ground(c, d) ==
  /\ d \in Doc
  /\ By(c) = "CRL" => CrlSound(d)
  /\ By(c) # "CRL" => LiveSound(d)
  /\ By(c) # "OCSP" => PlainDoc(d)
  /\ Own(c, d) \/ Hit(c, d)

Now(c) ==
  /\ now' = now /\ revoked' = revoked
  /\ \/ Conclude(c, "unknown", {})
     \/ \E d : Ground(c, d) /\ Conclude(c, AnswerIn(c, d), {d})

LEMMA OthersSame ==
  ASSUME TypeOK, NEW c \in Calls, NEW b \in Calls \ {c},
         began'[b] = began[b],
         NEW s \in Replied, NEW D \in SUBSET Doc, Conclude(c, s, D)
  PROVE  Same(b)
BY ConcludeShows DEF Same

LEMMA Outcome ==
  ASSUME TypeOK, Bookkeeping, Sources, [Next]_vars, NEW b \in Calls
  PROVE  Same(b) \/ Now(b)
<1>a. "unknown" \in Replied /\ {} \in SUBSET Doc
  BY DEF Replied, Status
<1>b. \A d : Ground(b, d) => d \in Doc /\ AnswerIn(b, d) \in Replied
  BY AnswerType DEF Ground
<1>1. ASSUME NEW c \in Calls, Check(c) PROVE Same(b) \/ Now(b)
  <2>1. /\ now' = now /\ revoked' = revoked /\ began'[c] = now /\ pc[c] = "idle"
        /\ \A e \in Calls \ {c} : began'[e] = began[e]
    BY <1>1 DEF Check, TypeOK
  <2>2. CASE Conclude(c, "unknown", {})
    <3>1. CASE b = c
      BY <2>1, <2>2, <3>1 DEF Now
    <3>2. CASE b # c
      BY <1>a, <2>1, <2>2, <3>2, OthersSame
    <3> QED
      BY <3>1, <3>2
  <2>3. ASSUME NEW d \in Cached(c), Answerable(c), Conclude(c, AnswerIn(c, d), {d})
        PROVE  Same(b) \/ Now(b)
    <3>1. d \in Doc /\ d \in cache[Key(c)] /\ Key(c) \in Keys /\ AnswerIn(c, d) \in Replied
      BY <2>3, CachedType, AnswerType
    <3>2. CASE b = c
      <4>1. Hit(c, d)
        BY <2>1, <2>3 DEF Hit, Cached
      <4>2. (By(c) = "CRL" => CrlSound(d)) /\ (By(c) # "CRL" => LiveSound(d))
        BY <3>1, KeyOfMethod DEF Sources, CrlsSound, LivesSound
      <4>3. By(c) # "OCSP" => PlainDoc(d)
        BY <2>3, <3>1, KeyOfMethod DEF Sources, Plain, Answerable
      <4> QED
        BY <2>1, <2>3, <3>1, <3>2, <4>1, <4>2, <4>3 DEF Now, Ground
    <3>3. CASE b # c
      BY <2>1, <2>3, <3>1, <3>3, OthersSame
    <3> QED
      BY <3>2, <3>3
  <2>4. CASE UNCHANGED <<ended, mail, used, answer, verdict>>
    BY <2>1, <2>4 DEF Same, Bookkeeping
  <2> QED
    BY <1>1, <2>2, <2>3, <2>4, CheckCases
<1>2. ASSUME NEW c \in Calls, NEW m \in mail[c], Arrive(c),
             Conclude(c, AnswerIn(c, [m EXCEPT !.at = now]), {[m EXCEPT !.at = now]})
      PROVE  Same(b) \/ Now(b)
  <2> DEFINE d == [m EXCEPT !.at = now]
  <2>1. /\ d \in Doc /\ d.asked = began[c] /\ d.own
        /\ (By(c) = "CRL" => CrlSound(d)) /\ (By(c) # "CRL" => LiveSound(d))
        /\ (By(c) # "OCSP" => PlainDoc(d))
    BY StampSound DEF TypeOK, Bookkeeping, Sources, CrlsSound, LivesSound, Plain
  <2>2. Conclude(c, AnswerIn(c, d), {d})
    BY <1>2
  <2> HIDE DEF d
  <2>3. now' = now /\ revoked' = revoked /\ began' = began
    BY <1>2 DEF Arrive
  <2>4. AnswerIn(c, d) \in Replied
    BY <2>1, AnswerType
  <2>5. CASE b = c
    BY <2>1, <2>2, <2>3, <2>5 DEF Now, Ground, Own
  <2>6. CASE b # c
    BY <2>1, <2>2, <2>3, <2>4, <2>6, OthersSame
  <2> QED
    BY <2>5, <2>6
<1>3. ASSUME NEW c \in Calls, FetchFails(c) \/ (\E s \in Replied : NonceDiffers(c, s))
      PROVE  Same(b) \/ Now(b)
  <2>1. now' = now /\ revoked' = revoked /\ began' = began /\ Conclude(c, "unknown", {})
    BY <1>3 DEF FetchFails, NonceDiffers
  <2>2. CASE b = c
    BY <2>1, <2>2 DEF Now
  <2>3. CASE b # c
    BY <1>a, <2>1, <2>3, OthersSame
  <2> QED
    BY <2>2, <2>3
<1>4. ASSUME NEW c \in Calls, Refuse(c) PROVE Same(b)
  BY <1>4 DEF Refuse, Same, TypeOK
<1>5. ASSUME UNCHANGED <<began, ended, used, answer, verdict>> PROVE Same(b)
  BY <1>5 DEF Same
<1> QED
  BY <1>1, <1>2, <1>3, <1>4, <1>5
     DEF Next, SetStatus, Publish, SourceAnswers, Arrive, Tick, Settled, vars
-----------------------------------------------------------------------------
(* A good answer comes from a document that verifies and says so.           *)
LEMMA GoodAnswer ==
  ASSUME NEW c \in Calls, NEW d, AnswerIn(c, d) = "good"
  PROVE  Verified(c, d) /\ d.status[cred[c]] = "good"
BY DEF AnswerIn

LEMMA CrlStep ==
  ASSUME TypeOK, Bookkeeping, Sources, CrlBoundsStaleness, [Next]_vars
  PROVE  CrlBoundsStaleness'
<1> SUFFICES ASSUME NEW c \in Calls, By(c)' = "CRL", answer'[c] = "good",
                    NEW t \in revoked'[cred'[c]]
             PROVE  ended'[c] <= t + CrlLife
  BY DEF CrlBoundsStaleness
<1> USE RevocationAssumption
<1>1. By(c) = "CRL" /\ cred' = cred /\ cred[c] \in Creds
  BY WorldStays DEF TypeOK
<1>2. t \in revoked[cred[c]] \/ t = now
  BY <1>1, Past
<1>3. t \in Nat /\ now \in Nat /\ ended[c] \in Nat /\ ended[c] <= now
  BY <1>1, <1>2 DEF TypeOK, Bookkeeping
<1>4. CASE Same(c)
  BY <1>1, <1>2, <1>3, <1>4 DEF Same, CrlBoundsStaleness
<1>5. CASE Now(c)
  <2>1. CASE Conclude(c, "unknown", {})
    BY <2>1, ConcludeShows DEF Replied, Status
  <2>2. ASSUME NEW d, Ground(c, d), Conclude(c, AnswerIn(c, d), {d})
        PROVE  ended'[c] <= t + CrlLife
    <3>1. d \in Doc /\ AnswerIn(c, d) \in Replied /\ CrlSound(d)
      BY <1>1, <2>2, AnswerType DEF Ground
    <3>2. ended'[c] = now /\ AnswerIn(c, d) = "good"
      BY <2>2, <3>1, ConcludeShows
    <3>3. now <= d.next /\ d.status[cred[c]] = "good"
      BY <1>1, <3>2, GoodAnswer DEF Verified
    <3>4. t \in revoked[cred[c]]
      BY <1>1, <1>5 DEF Now
    <3>5. d.next <= t + CrlLife /\ d.next \in Nat
      BY <1>1, <3>1, <3>3, <3>4 DEF CrlSound, CrlSoundAt, Doc
    <3> QED
      BY <1>3, <3>2, <3>3, <3>5
  <2> QED
    BY <1>5, <2>1, <2>2 DEF Now
<1> QED
  BY <1>4, <1>5, Outcome

LEMMA RecentStep ==
  ASSUME TypeOK, Bookkeeping, Sources, UsedAsked, AnswersAreRecent, [Next]_vars
  PROVE  UsedAsked' /\ AnswersAreRecent'
<1> DEFINE Recent(c, d) ==
      /\ d.asked # began'[c] \/ ~d.own => began'[c] < d.at + CacheTtl
      /\ By(c) # "CRL" /\ answer'[c] = "good" /\ d.own =>
           \A t \in revoked'[cred[c]] : d.asked <= t
      /\ By(c) = "OCSP" /\ setup.keyed => d.own /\ d.asked = began'[c]
      /\ ~d.own => By(c) = "OCSP"
<1> SUFFICES ASSUME NEW c \in Calls, NEW d \in used'[c]
             PROVE  (By(c) # "CRL" => d.asked <= now') /\ Recent(c, d)
  BY WorldStays DEF UsedAsked, AnswersAreRecent
<1> USE RevocationAssumption
<1>1. now \in Nat /\ now' \in Nat /\ now <= now' /\ began[c] \in Nat /\ began[c] <= now
  BY Past DEF TypeOK, Bookkeeping
<1>2. CASE Same(c)
  <2>1. d \in used[c] /\ began'[c] = began[c] /\ answer'[c] = answer[c]
    BY <1>2 DEF Same
  <2>2. d \in Doc /\ (By(c) # "CRL" => d.asked <= now) /\ d.asked \in Nat
    BY <2>1 DEF TypeOK, UsedAsked, Doc
  <2>3. \A t \in revoked'[cred[c]] : t \in revoked[cred[c]] \/ t = now
    BY Past DEF TypeOK
  <2> QED
    BY <1>1, <2>1, <2>2, <2>3 DEF AnswersAreRecent
<1>3. CASE Now(c)
  <2>1. CASE Conclude(c, "unknown", {})
    BY <2>1, ConcludeShows DEF Replied, Status
  <2>2. ASSUME NEW e, Ground(c, e), Conclude(c, AnswerIn(c, e), {e})
        PROVE  (By(c) # "CRL" => d.asked <= now') /\ Recent(c, d)
    <3>1. e \in Doc /\ AnswerIn(c, e) \in Replied
      BY <2>2, AnswerType DEF Ground
    <3>2. d = e /\ answer'[c] = AnswerIn(c, d)
      BY <2>2, <3>1, ConcludeShows
    <3>3. /\ d.asked \in Nat /\ d.at \in Nat
          /\ By(c) # "CRL" => LiveSound(d)
          /\ ~d.own => By(c) = "OCSP"
          /\ Own(c, d) \/ Hit(c, d)
      BY <2>2, <3>1, <3>2 DEF Ground, Doc, PlainDoc
    <3>4. CASE By(c) # "CRL"
      <4>1. d.asked <= now /\ (AnswerIn(c, d) = "good" /\ d.own => \A t \in revoked[cred[c]] : d.asked <= t)
        BY <3>3, <3>4, GoodAnswer DEF LiveSound, LiveSoundAt, TypeOK
      <4>2. now' = now /\ revoked' = revoked
        BY <1>3 DEF Now
      <4>3. CASE Own(c, d)
        BY <1>1, <3>2, <3>3, <4>1, <4>2, <4>3 DEF Own
      <4>4. CASE Hit(c, d)
        <5>1. began'[c] = now /\ now < d.at + CacheTtl /\ ~(By(c) = "OCSP" /\ setup.keyed)
          BY <4>4 DEF Hit, Fresh
        <5> QED
          BY <1>1, <3>2, <3>3, <4>1, <4>2, <5>1
      <4> QED
        BY <3>3, <4>3, <4>4
    <3>5. CASE By(c) = "CRL"
      <4>1. CASE Own(c, d)
        BY <1>1, <3>3, <3>5, <4>1 DEF Own
      <4>2. CASE Hit(c, d)
        BY <1>1, <3>3, <3>5, <4>2 DEF Hit, Fresh
      <4> QED
        BY <3>3, <4>1, <4>2
    <3> QED
      BY <3>4, <3>5
  <2> QED
    BY <1>3, <2>1, <2>2 DEF Now
<1> QED
  BY <1>2, <1>3, Outcome

Backs(c, d) ==
  /\ d.status[cred[c]] \in {"good", "other"}
  /\ d.status[cred[c]] = "other" => By(c) = "OCSP"
  /\ d.signature = "invalid" => By(c) = "OCSP" /\ ~setup.keyed
  /\ By(c) = "CRL" => d.signature = "valid" /\ now <= d.next

LEMMA BackedAnswer ==
  ASSUME TypeOK, NEW c \in Calls, NEW d \in Doc, setup.failClosed, Passes(AnswerIn(c, d)),
         d.status[cred[c]] = "other" => By(c) = "OCSP"
  PROVE  Backs(c, d)
<1>1. AnswerIn(c, d) \in {"good", "other"}
  BY AnswerType DEF Passes, Replied, Status
<1>2. Verified(c, d) /\ d.status[cred[c]] = AnswerIn(c, d)
  BY <1>1 DEF AnswerIn
<1> QED
  BY <1>1, <1>2 DEF Verified, Backs

LEMMA AllowStep ==
  ASSUME TypeOK, Bookkeeping, Sources, AllowRestsOnDocument, [Next]_vars
  PROVE  AllowRestsOnDocument'
<1> SUFFICES ASSUME NEW c \in Calls, verdict'[c] = "allow", setup'.failClosed
             PROVE  \E d \in used'[c] :
                      /\ d.status[cred'[c]] \in {"good", "other"}
                      /\ d.status[cred'[c]] = "other" => By(c)' = "OCSP"
                      /\ d.signature = "invalid" => By(c)' = "OCSP" /\ ~setup'.keyed
                      /\ By(c)' = "CRL" => d.signature = "valid" /\ ended'[c] <= d.next
  BY DEF AllowRestsOnDocument
<1>1. By(c)' = By(c) /\ cred' = cred /\ setup' = setup
  BY WorldStays
<1>2. CASE Same(c)
  BY <1>1, <1>2 DEF Same, AllowRestsOnDocument
<1>3. CASE Now(c)
  <2>1. CASE Conclude(c, "unknown", {})
    <3>1. Passes("unknown")
      BY <2>1, ConcludeShows DEF Replied, Status
    <3> QED
      BY <1>1, <3>1 DEF Passes
  <2>2. ASSUME NEW d, Ground(c, d), Conclude(c, AnswerIn(c, d), {d})
        PROVE  \E e \in used'[c] : Backs(c, e) /\ ended'[c] = now
    <3>1. d \in Doc /\ AnswerIn(c, d) \in Replied
      BY <2>2, AnswerType DEF Ground
    <3>2. used'[c] = {d} /\ ended'[c] = now /\ Passes(AnswerIn(c, d))
      BY <2>2, <3>1, ConcludeShows
    <3>3. d.status[cred[c]] = "other" => By(c) = "OCSP"
      BY <2>2 DEF Ground, PlainDoc, Status, TypeOK
    <3> QED
      BY <1>1, <3>1, <3>2, <3>3, BackedAnswer
  <2> QED
    BY <1>1, <1>3, <2>1, <2>2 DEF Now, Backs
<1> QED
  BY <1>2, <1>3, Outcome
-----------------------------------------------------------------------------
(* The inductive invariant on which the three properties rest.              *)
Sound == TypeOK /\ Bookkeeping /\ Sources

LEMMA SoundInit == Init => Sound
<1> SUFFICES ASSUME Init PROVE Sound
  OBVIOUS
<1> USE RevocationAssumption
<1>1. Bookkeeping
  BY DEF Init, Bookkeeping
<1>2. CrlsSound
  BY DEF Init, CrlsSound, CrlSound, CrlSoundAt, Keys
<1>3. LivesSound
  BY DEF Init, LivesSound
<1>4. Plain
  BY DEF Init, Plain, Keys
<1> QED
  BY <1>1, <1>2, <1>3, <1>4, TypeInit DEF Sound, Sources

LEMMA SoundStep == Sound /\ [Next]_vars => Sound'
BY TypeStep, BookkeepingStep, SourcesStep DEF Sound

LEMMA SoundHolds == Spec => []Sound
BY SoundInit, SoundStep, PTL DEF Spec

(* A credential is not reported good by a CRL for longer than the life of a *)
(* CRL after its revocation, whatever is cached and however late it comes.  *)
THEOREM CrlStalenessBounded == Spec => []CrlBoundsStaleness
<1>1. Init => CrlBoundsStaleness
  BY DEF Init, CrlBoundsStaleness
<1>2. Sound /\ CrlBoundsStaleness /\ [Next]_vars => CrlBoundsStaleness'
  BY CrlStep DEF Sound
<1> QED
  BY <1>1, <1>2, SoundHolds, PTL DEF Spec

(* Answers fetched by the check itself are as old as their fetch, cached     *)
(* ones arrived within the ttl.  One made for another request, which may be *)
(* of any age, is found under OCSP only, and never with the key.            *)
THEOREM RecentAnswers == Spec => []AnswersAreRecent
<1>1. Init => UsedAsked /\ AnswersAreRecent
  BY DEF Init, UsedAsked, AnswersAreRecent
<1>2. Sound /\ UsedAsked /\ AnswersAreRecent /\ [Next]_vars
        => (UsedAsked /\ AnswersAreRecent)'
  BY RecentStep DEF Sound
<1> QED
  BY <1>1, <1>2, SoundHolds, PTL DEF Spec

(* Fail closed: no ALLOW without a document that passed the checks of its    *)
(* method and says neither revoked nor unknown.                             *)
THEOREM AllowIsBacked == Spec => []AllowRestsOnDocument
<1>1. Init => AllowRestsOnDocument
  BY DEF Init, AllowRestsOnDocument
<1>2. Sound /\ AllowRestsOnDocument /\ [Next]_vars => AllowRestsOnDocument'
  BY AllowStep DEF Sound
<1> QED
  BY <1>1, <1>2, SoundHolds, PTL DEF Spec
-----------------------------------------------------------------------------
(* The pipeline: a verification that waits for the checker has passed every  *)
(* stage before it, and one that is allowed every stage.                     *)

LEMMA HasLeast ==
  ASSUME NEW S \in SUBSET Nat, S # {}
  PROVE  \E m \in S : \A n \in S : m <= n
<1> DEFINE R == {p \in Nat \X Nat : p[1] < p[2]}
<1>1. IsWellFoundedOn(R, Nat)
  BY NatLessThanWellFounded DEF OpToRel
<1>2. S \subseteq Nat /\ S # {}
  OBVIOUS
<1>3. \E m \in S : \A n \in S : ~(<<n, m>> \in R)
  <2> HIDE DEF R
  <2>1. QED
    BY <1>1, <1>2, WFMin, Zenon
<1>4. \E m \in S : \A n \in S : ~(n < m)
  BY <1>3
<1>5. QED
  BY <1>4

LEMMA LeastIsIn ==
  ASSUME NEW S \in SUBSET Nat, S # {}
  PROVE  Min(S) \in S
<1>1. PICK m \in S : \A n \in S : m <= n
  BY HasLeast
<1>2. (CHOOSE x \in S : \A y \in S : x <= y) \in S
  BY <1>1
<1>3. QED
  BY <1>2 DEF Min

AllPass(stages) == \A i \in 1 .. Len(stages) : stages[i][2]

LEMMA NoneFailed ==
  ASSUME NEW s, Len(s) \in Nat, NEW then, NEW w, FirstFailure(s, then) = w,
         \A i \in 1 .. Len(s) : s[i][1] # w
  PROVE  then = w /\ AllPass(s)
<1>1. CASE {i \in 1 .. Len(s) : ~s[i][2]} = {}
  BY <1>1 DEF FirstFailure, SelectInSeq, AllPass
<1>2. CASE {i \in 1 .. Len(s) : ~s[i][2]} # {}
  <2> DEFINE I == {i \in 1 .. Len(s) : ~s[i][2]}
  <2>1. I \in SUBSET Nat /\ I # {}
    BY <1>2
  <2> HIDE DEF I
  <2>2. Min(I) \in I
    BY <2>1, LeastIsIn
  <2>3. FirstFailure(s, then) = s[Min(I)][1]
    BY <1>2, <2>2 DEF FirstFailure, SelectInSeq, I
  <2>4. QED
    BY <2>2, <2>3 DEF I
<1>3. QED
  BY <1>1, <1>2

(* A format that was detected has its fields.                               *)
LEMMA Detected ==
  ASSUME NEW c, Signed(c)
  PROVE  c.fields \intersect {"atc_version", "card_id"} # {}
<1> DEFINE I == {i \in 1 .. Len(Candidates(c)) : Candidates(c)[i][2]}
<1>1. Len(Candidates(c)) = 6
  BY DEF Candidates
<1>2. Format(c) \in {"atc-v2", "atc-v3"}
  BY DEF Signed
<1>3. I # {}
  BY <1>2 DEF Format, SelectInSeq
<1>4. I \in SUBSET Nat
  BY <1>1
<1>5. Min(I) \in I
  <2> HIDE DEF I
  <2>1. QED
    BY <1>3, <1>4, LeastIsIn
<1>6. Format(c) = Candidates(c)[Min(I)][1]
  BY <1>2, <1>3, <1>5 DEF Format, SelectInSeq
<1>7. PICK i \in 1 .. 6 : i = Min(I) /\ Candidates(c)[i][2]
  BY <1>1, <1>5
<1>8. Candidates(c)[i][1] \in {"atc-v2", "atc-v3"}
  BY <1>2, <1>6, <1>7
<1>9. /\ Candidates(c)[3][1] = "zta" /\ Candidates(c)[4][1] = "a2a-card"
      /\ Candidates(c)[5][1] = "mcp-card" /\ Candidates(c)[6][1] = "eat-ai"
      /\ Candidates(c)[1][2] = Has(c, {"atc_version"})
      /\ Candidates(c)[2][2] = Has(c, {"card_id", "payload", "signature"})
  BY DEF Candidates
<1>10. Has(c, {"atc_version"}) \/ Has(c, {"card_id", "payload", "signature"})
  <2>1. i = 1 \/ i = 2 \/ i = 3 \/ i = 4 \/ i = 5 \/ i = 6
    BY <1>7
  <2>2. i = 1 \/ i = 2
    BY <1>8, <1>9, <2>1
  <2>3. QED
    BY <1>7, <1>9, <2>2
<1>11. QED
  BY <1>10 DEF Has

Presented == [cred : VpCredentials, ctx : VpContexts, closed : BOOLEAN, at : Nat]

Earned(a) ==
  /\ a.ctx.caKey /\ a.cred.sig = "good" /\ a.cred.issuer \in a.ctx.issuers
  /\ a.cred.fields \intersect {"atc_version", "card_id"} # {}
  /\ ~a.cred.revoked /\ \A t \in a.cred.expires : t >= a.at
  /\ a.ctx.maxAge # 0 => \A t \in a.cred.issued : a.at <= t + a.ctx.maxAge
  /\ a.ctx.needPop => a.ctx.pop = "good" /\ a.cred.agentKey

(* What the stages before the checker establish                             *)
LEMMA StagesEstablish ==
  ASSUME NEW a, AllPass(Before(a.cred, a.ctx, a.at))
  PROVE  Earned(a)
<1> DEFINE c == a.cred
           x == a.ctx
           b == Before(c, x, a.at)
<1>1. Len(b) = 9
  BY DEF Before
<1>2. b[4][2] /\ b[5][2] /\ b[6][2] /\ b[7][2] /\ b[9][2]
  BY <1>1 DEF AllPass
<1>3. /\ Crypto(c, x) /\ Issuer(c) \in x.issuers /\ (KeyId(c) \/ Format(c) = "atc-v2")
      /\ Possession(c, x) /\ Lifecycle(c, x, a.at)
  BY <1>2 DEF Before
<1> HIDE DEF b, c, x
<1>4. Signed(c)
  BY <1>3 DEF KeyId, Signed
<1>5. Carded(c)
  BY <1>4 DEF Signed, Carded
<1>6. x.caKey /\ c.sig = "good"
  BY <1>3, <1>4 DEF Crypto, Signed
<1>7. c.issuer \in x.issuers
  BY <1>3, <1>5 DEF Issuer
<1>8. /\ ~c.revoked /\ \A t \in c.expires : t >= a.at
      /\ x.maxAge # 0 => \A t \in c.issued : a.at <= t + x.maxAge
  BY <1>3, <1>5 DEF Lifecycle
<1>9. x.needPop => x.pop = "good" /\ c.agentKey
  BY <1>3, <1>5 DEF Possession, AgentKey
<1>10. c.fields \intersect {"atc_version", "card_id"} # {}
  BY <1>4, Detected
<1>11. QED
  BY <1>6, <1>7, <1>8, <1>9, <1>10 DEF Earned, c, x

PipeInv ==
  /\ clock \in Nat
  /\ vpAsked \in [VpRuns -> SUBSET Presented]
  /\ vpState = [r \in VpRuns |-> vpState[r]] /\ vpAnswer = [r \in VpRuns |-> vpAnswer[r]]
  /\ \A r \in VpRuns :
       /\ vpState[r] = "new" => vpAnswer[r] = "none"
       /\ vpState[r] = "checking" =>
            \A a \in vpAsked[r] : AllPass(Before(a.cred, a.ctx, a.at))
       /\ vpState[r] = "ALLOW" =>
            \E a \in vpAsked[r] : /\ Earned(a) /\ vpAnswer[r] # "revoked"
                                  /\ vpAnswer[r] = "unknown" => ~a.closed

LEMMA StageNames ==
  ASSUME NEW c, NEW x, NEW t
  PROVE  /\ Len(Before(c, x, t)) = 9 /\ Len(After(c, x)) = 2
         /\ \A i \in 1 .. 9 : Before(c, x, t)[i][1] \notin {"ALLOW", "checking", "new"}
         /\ \A i \in 1 .. 2 : After(c, x)[i][1] \notin {"ALLOW", "checking", "new"}
<1> DEFINE b == Before(c, x, t)
           a == After(c, x)
<1>1. /\ Len(b) = 9 /\ Len(a) = 2
      /\ b[1][1] = "01_PARSE" /\ b[2][1] = "02_DETECT" /\ b[3][1] = "03_SCHEMA"
      /\ b[4][1] = "04_CRYPTO" /\ b[5][1] = "05_ISSUER" /\ b[6][1] = "06_KEY_BINDING"
      /\ b[7][1] = "07_POP" /\ b[8][1] = "08_PROVENANCE" /\ b[9][1] = "09_LIFECYCLE"
      /\ a[1][1] = "10_EVIDENCE" /\ a[2][1] = "11_POLICY"
  BY DEF Before, After
<1> HIDE DEF b, a
<1>2. ASSUME NEW i \in 1 .. 9 PROVE b[i][1] \notin {"ALLOW", "checking", "new"}
  <2>1. i = 1 \/ i = 2 \/ i = 3 \/ i = 4 \/ i = 5 \/ i = 6 \/ i = 7 \/ i = 8 \/ i = 9
    OBVIOUS
  <2>2. QED
    BY <1>1, <2>1
<1>3. ASSUME NEW i \in 1 .. 2 PROVE a[i][1] \notin {"ALLOW", "checking", "new"}
  <2>1. i = 1 \/ i = 2
    OBVIOUS
  <2>2. QED
    BY <1>1, <2>1
<1>4. QED
  BY <1>1, <1>2, <1>3 DEF a, b

(* Without a checker the stages are decided in one go.                      *)
LEMMA VerdictEstablishes ==
  ASSUME NEW c, NEW x, NEW t, NEW w \in {"ALLOW", "checking", "new"}, Verdict(c, x, t) = w
  PROVE  w = "ALLOW" /\ AllPass(Before(c, x, t))
<1> DEFINE b == Before(c, x, t)
           a == After(c, x)
           l == b \o a
<1>1. /\ Len(b) = 9 /\ Len(a) = 2
      /\ \A i \in 1 .. 9 : b[i][1] # w
      /\ \A i \in 1 .. 2 : a[i][1] # w
  BY StageNames
<1>2. Len(l) = 11 /\ (\A i \in 1 .. 9 : l[i] = b[i]) /\ \A i \in 10 .. 11 : l[i] = a[i - 9]
  BY <1>1 DEF Before, After
<1>3. FirstFailure(l, "ALLOW") = w
  BY DEF Verdict
<1> HIDE DEF l, a, b
<1>4. ASSUME NEW i \in 1 .. 11 PROVE l[i][1] # w
  <2>1. CASE i \in 1 .. 9
    BY <1>1, <1>2, <2>1
  <2>2. CASE i \in 10 .. 11
    <3>1. i - 9 \in 1 .. 2
      BY <2>2
    <3>2. a[i - 9][1] # w
      BY <1>1, <3>1
    <3>3. l[i] = a[i - 9]
      BY <1>2, <2>2
    <3>4. QED
      BY <3>2, <3>3
  <2>3. QED
    BY <2>1, <2>2
<1>5. Len(l) \in Nat /\ \A i \in 1 .. Len(l) : l[i][1] # w
  BY <1>2, <1>4
<1>6. "ALLOW" = w /\ AllPass(l)
  BY <1>3, <1>5, NoneFailed
<1>7. AllPass(b)
  BY <1>1, <1>2, <1>6 DEF AllPass
<1>8. QED
  BY <1>6, <1>7 DEF b

LEMMA AskedKeeps ==
  ASSUME PipeInv, NEW q \in VpRuns, NEW c \in VpCredentials, NEW x \in VpContexts,
         NEW closed \in BOOLEAN, NEW checker \in BOOLEAN,
         VerifyCredential(q, c, x, closed, checker)
  PROVE  PipeInv'
<1> DEFINE p == [cred |-> c, ctx |-> x, closed |-> closed, at |-> clock]
           w == IF checker THEN FirstFailure(Before(c, x, clock), "checking") ELSE Verdict(c, x, clock)
<1>1. p \in Presented /\ p.cred = c /\ p.ctx = x /\ p.at = clock /\ p.closed = closed
  BY DEF Presented, PipeInv
<1>2. /\ vpState[q] = "new" /\ vpAsked' = [vpAsked EXCEPT ![q] = {p}]
      /\ vpState' = [vpState EXCEPT ![q] = w] /\ UNCHANGED <<clock, vpAnswer>>
  BY DEF VerifyCredential
<1>3. Len(Before(c, x, clock)) = 9
      /\ \A i \in 1 .. 9 : Before(c, x, clock)[i][1] \notin {"ALLOW", "checking", "new"}
  BY StageNames
<1>4. w \in {"ALLOW", "checking", "new"} => w # "new" /\ AllPass(Before(c, x, clock))
  <2>1. CASE checker
    <3>1. ASSUME w \in {"ALLOW", "checking", "new"}
          PROVE  "checking" = w /\ AllPass(Before(c, x, clock))
      <4>1. FirstFailure(Before(c, x, clock), "checking") = w
        BY <2>1
      <4> HIDE DEF w
      <4>2. \A i \in 1 .. Len(Before(c, x, clock)) : Before(c, x, clock)[i][1] # w
        BY <1>3, <3>1
      <4>3. Len(Before(c, x, clock)) \in Nat
        BY <1>3
      <4>4. QED
        BY <4>1, <4>2, <4>3, NoneFailed
    <3>2. QED
      BY <3>1
  <2>2. CASE ~checker
    <3>1. w = Verdict(c, x, clock)
      BY <2>2
    <3> HIDE DEF w
    <3>2. QED
      BY <3>1, VerdictEstablishes
  <2>3. QED
    BY <2>1, <2>2
<1> HIDE DEF p, w
<1>5. /\ vpAsked' \in [VpRuns -> SUBSET Presented] /\ vpAsked'[q] = {p} /\ vpState'[q] = w
      /\ \A r \in VpRuns : r # q => vpAsked'[r] = vpAsked[r] /\ vpState'[r] = vpState[r]
      /\ vpState' = [r \in VpRuns |-> vpState'[r]]
  BY <1>1, <1>2 DEF PipeInv
<1>6. w \in {"ALLOW", "checking"} => AllPass(Before(p.cred, p.ctx, p.at)) /\ Earned(p)
  BY <1>1, <1>4, StagesEstablish
<1>7. vpAnswer[q] = "none"
  BY <1>2 DEF PipeInv
<1>8. ASSUME NEW r \in VpRuns
      PROVE  /\ vpState'[r] = "new" => vpAnswer'[r] = "none"
             /\ vpState'[r] = "checking" =>
                  \A a \in vpAsked'[r] : AllPass(Before(a.cred, a.ctx, a.at))
             /\ vpState'[r] = "ALLOW" =>
                  \E a \in vpAsked'[r] : /\ Earned(a) /\ vpAnswer'[r] # "revoked"
                                         /\ vpAnswer'[r] = "unknown" => ~a.closed
  <2>1. CASE r = q
    BY <1>2, <1>5, <1>6, <1>7, <2>1
  <2>2. CASE r # q
    BY <1>2, <1>5, <2>2 DEF PipeInv
  <2>3. QED
    BY <2>1, <2>2
<1>9. clock' \in Nat /\ vpAnswer' = [r \in VpRuns |-> vpAnswer'[r]]
  BY <1>2 DEF PipeInv
<1>10. QED
  BY <1>5, <1>8, <1>9 DEF PipeInv

LEMMA AnsweredKeeps ==
  ASSUME PipeInv, NEW q \in VpRuns, NEW reply \in {"good", "revoked", "unknown", "other"},
         CheckerAnswers(q, reply)
  PROVE  PipeInv'
<1>1. PICK p \in vpAsked[q] :
        vpState' = [vpState EXCEPT ![q] =
          IF Unrevoked(reply, p.closed) THEN FirstFailure(After(p.cred, p.ctx), "ALLOW")
          ELSE "09_LIFECYCLE"]
  BY DEF CheckerAnswers
<1> DEFINE w == IF Unrevoked(reply, p.closed) THEN FirstFailure(After(p.cred, p.ctx), "ALLOW")
                ELSE "09_LIFECYCLE"
<1>2. /\ vpState[q] = "checking" /\ vpAnswer' = [vpAnswer EXCEPT ![q] = reply]
      /\ UNCHANGED <<clock, vpAsked>>
  BY DEF CheckerAnswers
<1>3. Earned(p)
  BY <1>2, StagesEstablish DEF PipeInv
<1>4. w = "ALLOW" => Unrevoked(reply, p.closed)
  OBVIOUS
<1>5. w # "new" /\ w # "checking"
  <2>1. ASSUME w \in {"new", "checking"} PROVE FALSE
    <3>1. FirstFailure(After(p.cred, p.ctx), "ALLOW") = w
      BY <2>1
    <3> HIDE DEF w
    <3>2. Len(After(p.cred, p.ctx)) = 2 /\ \A i \in 1 .. 2 : After(p.cred, p.ctx)[i][1] # w
      BY <2>1, StageNames
    <3>3. Len(After(p.cred, p.ctx)) \in Nat
          /\ \A i \in 1 .. Len(After(p.cred, p.ctx)) : After(p.cred, p.ctx)[i][1] # w
      BY <3>2
    <3>4. "ALLOW" = w
      BY <3>1, <3>3, NoneFailed
    <3>5. QED
      BY <2>1, <3>4
  <2>2. QED
    BY <2>1
<1>6. vpState' = [vpState EXCEPT ![q] = w]
  BY <1>1
<1> HIDE DEF w
<1>7. /\ vpState'[q] = w /\ vpAnswer'[q] = reply
      /\ \A r \in VpRuns : r # q => vpState'[r] = vpState[r] /\ vpAnswer'[r] = vpAnswer[r]
      /\ vpState' = [r \in VpRuns |-> vpState'[r]] /\ vpAnswer' = [r \in VpRuns |-> vpAnswer'[r]]
  BY <1>2, <1>6 DEF PipeInv
<1>8. ASSUME NEW r \in VpRuns
      PROVE  /\ vpState'[r] = "new" => vpAnswer'[r] = "none"
             /\ vpState'[r] = "checking" =>
                  \A a \in vpAsked'[r] : AllPass(Before(a.cred, a.ctx, a.at))
             /\ vpState'[r] = "ALLOW" =>
                  \E a \in vpAsked'[r] : /\ Earned(a) /\ vpAnswer'[r] # "revoked"
                                         /\ vpAnswer'[r] = "unknown" => ~a.closed
  <2>1. CASE r = q
    <3>1. w = "ALLOW" => reply # "revoked" /\ (reply = "unknown" => ~p.closed)
      BY <1>4 DEF Unrevoked
    <3>3. QED
      BY <1>1, <1>2, <1>3, <1>5, <1>7, <2>1, <3>1
  <2>2. CASE r # q
    BY <1>2, <1>7, <2>2 DEF PipeInv
  <2>3. QED
    BY <2>1, <2>2
<1>9. QED
  BY <1>2, <1>7, <1>8 DEF PipeInv

(* AllowEarned: for every credential and context and however long the        *)
(* checker takes, ALLOW is decided only for a card that was signed by the CA, *)
(* of a listed issuer, neither revoked nor, as far as its dates exist and     *)
(* parse, expired or too old when asked, and that the reply did not refuse. *)
THEOREM AllowEarned == VpSpec => []AllowIsEarned
<1>1. ClockInit /\ VpInit => PipeInv
  BY DEF ClockInit, VpInit, PipeInv
<1>2. PipeInv /\ [VpNext]_vpVars => PipeInv'
  <2> SUFFICES ASSUME PipeInv, [VpNext]_vpVars PROVE PipeInv'
    OBVIOUS
  <2>1. CASE TimePasses /\ UNCHANGED vpOwn
    <3>1. clock' \in Nat /\ UNCHANGED <<vpAsked, vpState, vpAnswer>>
      BY <2>1 DEF TimePasses, vpOwn, PipeInv
    <3>2. QED
      BY <3>1 DEF PipeInv
  <2>2. CASE UNCHANGED vpVars
    <3>1. UNCHANGED <<clock, vpAsked, vpState, vpAnswer>>
      BY <2>2 DEF vpVars, vpOwn
    <3>2. QED
      BY <3>1 DEF PipeInv
  <2>3. QED
    BY <2>1, <2>2, AskedKeeps, AnsweredKeeps DEF VpNext
<1>3. PipeInv => AllowIsEarned
  BY DEF PipeInv, AllowIsEarned, Earned
<1>4. QED
  BY <1>1, <1>2, <1>3, PTL DEF VpSpec
=============================================================================
