--------------------------- MODULE WebhookDelivery ---------------------------
(***************************************************************************)
(* WebhookManager (webhooks/src/index.ts).  emit tells the subscribers an  *)
(* event matches, one after the other, with up to three tries for each;    *)
(* several emits run at once, and subscriptions come and go meanwhile.  A  *)
(* post whose answer is late or lost may still reach the subscriber.       *)
(***************************************************************************)
EXTENDS Naturals, Sequences, FiniteSets, SequencesExt

CONSTANTS
  Subs,      \* subscription ids, each given once
  Events,    \* calls of emit, each made at most once
  Wants,     \* which subscriptions the types and filters may let events meet
  MaxLog     \* maxLogSize

ASSUME WebhookAssumption ==
  /\ Wants \subseteq [Events -> SUBSET Subs]
  /\ MaxLog \in Nat \ {0}

VARIABLES
  subs,       \* the subscriptions, in the order of the Map
  taken,      \* the ids given so far
  wants,      \* wants[e]: the subscriptions whose types and filters e meets
  signable,   \* signable[e]: can e be serialised and signed?
  phase,      \* phase[e]: where emit stands
  matching,   \* matching[e]: whom it tells, taken once when it begins
  pos,        \* pos[e]: the subscriber it is telling
  tries,      \* tries[e]: the tries made with this subscriber (i)
  attempts,   \* attempts[e]: webhookEvent.attempts
  delivered,  \* delivered[e], failed[e]: the counts emit returns
  failed,
  net,        \* posts sent and not received
  got,        \* posts the subscribers received
  log         \* deliveryLog

whVars == <<subs, taken, wants, signable, phase, matching, pos, tries, attempts,
            delivered, failed, net, got, log>>
shape == <<wants, signable>>
books == <<attempts, delivered, failed, log>>

Phases   == {"idle", "posting", "waiting", "done", "thrown"}
Post     == [event : Events, sub : Subs, try : 0 .. 2]
Delivery == [event : Events, status : {"delivered", "failed"}]
-----------------------------------------------------------------------------
Subscriber(e) == matching[e][pos[e]]

PostTo(e, s, i) == [event |-> e, sub |-> s, try |-> i]

(* The elements of s that are in T, in their order                          *)
Keep(s, T) ==
  LET kept[i \in 0 .. Len(s)] ==
        IF i = 0 THEN <<>>
        ELSE IF s[i] \in T THEN Append(kept[i - 1], s[i]) ELSE kept[i - 1]
  IN  kept[Len(s)]

(* Slip: two tries are made. *)
OverAfterTwo(e, ok) == ok \/ tries[e] = 1

(* Slip: the loop is not left after a success. *)
OverAfterThree(e, ok) == tries[e] = 2

(* emit is through with the subscriber it is telling                        *)
Over(e, ok) == ok \/ tries[e] = 2

Logged(x) == LET l == Append(log, x) IN IF Len(l) > MaxLog THEN Tail(l) ELSE l

(* The end of emit, with these counts                                       *)
Ends(e, d, f) ==
  LET x == [event |-> e, status |-> IF f = 0 \/ d > 0 THEN "delivered" ELSE "failed"] IN
  /\ phase' = [phase EXCEPT ![e] = "done"]
  /\ log' = Logged(x)
-----------------------------------------------------------------------------
WhInit ==
  /\ subs = <<>> /\ taken = {}
  /\ wants \in Wants
  /\ signable \in [Events -> BOOLEAN]
  /\ phase = [e \in Events |-> "idle"]
  /\ matching = [e \in Events |-> <<>>]
  /\ pos = [e \in Events |-> 1] /\ tries = [e \in Events |-> 0]
  /\ attempts = [e \in Events |-> <<>>]
  /\ delivered = [e \in Events |-> 0] /\ failed = [e \in Events |-> 0]
  /\ net = {} /\ got = {}
  /\ log = <<>>

Subscribe(s) ==
  /\ s \notin taken
  /\ subs' = Append(subs, s)
  /\ taken' = taken \cup {s}
  /\ UNCHANGED <<shape, books, phase, matching, pos, tries, net, got>>

Unsubscribe(s) ==
  /\ Contains(subs, s)
  /\ subs' = Keep(subs, Subs \ {s})
  /\ UNCHANGED <<shape, books, taken, phase, matching, pos, tries, net, got>>

(* emit up to its first post.  Signing is outside the try block of          *)
(* deliverOnce: when it throws, emit rejects and logs nothing.              *)
Emit(e) ==
  LET m == Keep(subs, wants[e]) IN
  /\ phase[e] = "idle"
  /\ matching' = [matching EXCEPT ![e] = m]
  /\ \/ /\ m = <<>>
        /\ Ends(e, 0, 0)
        /\ UNCHANGED net
     \/ /\ m # <<>> /\ ~signable[e]
        /\ phase' = [phase EXCEPT ![e] = "thrown"]
        /\ UNCHANGED <<log, net>>
     \/ /\ m # <<>> /\ signable[e]
        /\ phase' = [phase EXCEPT ![e] = "posting"]
        /\ net' = net \cup {PostTo(e, m[1], 0)}
        /\ UNCHANGED <<log>>
  /\ UNCHANGED <<shape, subs, taken, pos, tries, attempts, delivered, failed, got>>

(* A try is over: emit counts it, and sleeps before the next try, or posts  *)
(* to the next subscriber, or ends                                          *)
Attempted(e, ok) ==
  LET d == IF ok THEN delivered[e] + 1 ELSE delivered[e]
      f == IF ~ok /\ tries[e] = 2 THEN failed[e] + 1 ELSE failed[e] IN
  /\ phase[e] = "posting"
  /\ attempts' = [attempts EXCEPT ![e] = Append(@, [sub |-> Subscriber(e), ok |-> ok])]
  /\ delivered' = [delivered EXCEPT ![e] = d]
  /\ failed' = [failed EXCEPT ![e] = f]
  /\ \/ /\ ~Over(e, ok)
        /\ phase' = [phase EXCEPT ![e] = "waiting"]
        /\ tries' = [tries EXCEPT ![e] = @ + 1]
        /\ UNCHANGED <<pos, net, log>>
     \/ /\ Over(e, ok) /\ pos[e] < Len(matching[e])
        /\ pos' = [pos EXCEPT ![e] = @ + 1]
        /\ tries' = [tries EXCEPT ![e] = 0]
        /\ net' = net \cup {PostTo(e, matching[e][pos[e] + 1], 0)}
        /\ UNCHANGED <<phase, log>>
     \/ /\ Over(e, ok) /\ pos[e] = Len(matching[e])
        /\ Ends(e, d, f)
        /\ UNCHANGED <<pos, tries, net>>
  /\ UNCHANGED <<shape, subs, taken, matching, got>>

(* The subscriber receives a post, maybe after emit gave up on it           *)
Receive(p) ==
  /\ net' = net \ {p}
  /\ got' = got \cup {p}
  /\ UNCHANGED <<shape, books, subs, taken, phase, matching, pos, tries>>

(* The answer to the last post arrives, with a 2xx status or another        *)
Answered(e, ok) ==
  /\ phase[e] = "posting"
  /\ PostTo(e, Subscriber(e), tries[e]) \in got
  /\ Attempted(e, ok)

(* Slip: a try without an answer counts as a success. *)
FetchRejectsDelivered(e) == Attempted(e, TRUE)

(* Slip: no timeout: fetch ends only for a post that was received. *)
FetchRejectsReceived(e) ==
  /\ phase[e] = "posting"
  /\ PostTo(e, Subscriber(e), tries[e]) \in got
  /\ Attempted(e, FALSE)

(* fetch rejects: no connection, or AbortSignal.timeout, whether or not the *)
(* post was received                                                        *)
FetchRejects(e) == Attempted(e, FALSE)

(* The backoff is over                                                      *)
Wake(e) ==
  /\ phase[e] = "waiting"
  /\ phase' = [phase EXCEPT ![e] = "posting"]
  /\ net' = net \cup {PostTo(e, Subscriber(e), tries[e])}
  /\ UNCHANGED <<shape, books, subs, taken, matching, pos, tries, got>>

WhSettled == (\A e \in Events : phase[e] \in {"done", "thrown"}) /\ UNCHANGED whVars

WhNext ==
  \/ \E s \in Subs : Subscribe(s) \/ Unsubscribe(s)
  \/ \E e \in Events :
       \/ Emit(e)
       \/ \E ok \in BOOLEAN : Answered(e, ok)
       \/ FetchRejects(e)
       \/ Wake(e)
  \/ \E p \in net : Receive(p)
  \/ WhSettled

(* Timers fire: the timeout of a fetch and the sleep before a retry         *)
WhFairness == \A e \in Events : WF_whVars(FetchRejects(e)) /\ WF_whVars(Wake(e))

WhSpec == WhInit /\ [][WhNext]_whVars /\ WhFairness
-----------------------------------------------------------------------------
(* Properties                                                               *)

(* Every variable has its type; three tries are numbered 0 to 2.            *)
WhTypeOK ==
  /\ subs \in Seq(Subs) /\ taken \subseteq Subs
  /\ wants \in [Events -> SUBSET Subs] /\ signable \in [Events -> BOOLEAN]
  /\ phase \in [Events -> Phases]
  /\ matching \in [Events -> Seq(Subs)]
  /\ pos \in [Events -> Nat \ {0}] /\ tries \in [Events -> 0 .. 2]
  /\ attempts \in [Events -> Seq([sub : Subs, ok : BOOLEAN])]
  /\ delivered \in [Events -> Nat] /\ failed \in [Events -> Nat]
  /\ net \subseteq Post /\ got \subseteq Post
  /\ log \in Seq(Delivery)

TriesWith(e, s) == {i \in DOMAIN attempts[e] : attempts[e][i].sub = s}
Told(e, s)      == \E i \in DOMAIN attempts[e] : attempts[e][i] = [sub |-> s, ok |-> TRUE]

(* When emit returns it has told, or tried three times to tell, every       *)
(* subscriber that matched, whoever else failed, subscribed or left         *)
(* meanwhile; and delivered and failed count exactly these.                 *)
NoSubscriberSkipped ==
  \A e \in Events : phase[e] = "done" =>
    LET M == ToSet(matching[e]) IN
    /\ \A s \in M : Told(e, s) \/ Cardinality(TriesWith(e, s)) = 3
    /\ delivered[e] = Cardinality({s \in M : Told(e, s)})
    /\ failed[e] = Cardinality({s \in M : ~Told(e, s)})

(* emit never counts as notified a subscriber that has not received the     *)
(* event, however answers and timeouts race.                                *)
DeliveredWasReceived ==
  \A e \in Events :
    /\ \A s \in Subs : Told(e, s) => \E p \in got : p.event = e /\ p.sub = s
    /\ delivered[e] <= Cardinality({p.sub : p \in {q \in got : q.event = e}})

(* No subscriber is posted an event again once it has answered 2xx, and one *)
(* that did not match is never posted to: the only duplicates are those of  *)
(* a try whose answer was not 2xx or did not come.                          *)
OnlyFailuresRetried ==
  \A p \in net \cup got :
    /\ Contains(matching[p.event], p.sub)
    /\ \A i \in TriesWith(p.event, p.sub) :
         attempts[p.event][i].ok =>
           p.try < Cardinality({j \in TriesWith(p.event, p.sub) : j <= i})

(* Every emit returns or rejects though no subscriber ever answers: a       *)
(* silent subscriber delays the others and cannot stop them.                *)
EmitEnds == \A e \in Events : phase[e] # "idle" ~> phase[e] \in {"done", "thrown"}
=============================================================================
