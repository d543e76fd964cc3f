----------------------------- MODULE Approvals -----------------------------
(***************************************************************************)
(* The approval workflow of core/org-policy.ts: a request waits for a      *)
(* human decision until it expires.  Nothing expires a request but a look  *)
(* at it: getApprovalStatus, or the cleanup of all requests.               *)
(***************************************************************************)
EXTENDS WallClock

CONSTANTS
  AprIds,    \* request ids
  AprTtls    \* lifetimes createApprovalRequest is called with

ASSUME ApprovalAssumption == AprTtls \subseteq Nat

VARIABLES
  aprStatus,    \* status of a request; "none" before it exists
  aprExpires,   \* expires_at
  aprDecided,   \* decided_at
  aprLooked     \* when the request was last looked at while pending

aprOwn  == <<aprStatus, aprExpires, aprDecided, aprLooked>>
aprVars == <<clock, aprOwn>>

AprInit ==
  /\ aprStatus = [a \in AprIds |-> "none"]
  /\ aprExpires = [a \in AprIds |-> 0]
  /\ aprDecided = [a \in AprIds |-> 0]
  /\ aprLooked = [a \in AprIds |-> 0]

Pending(a) == aprStatus[a] = "pending"

CreateApproval(a, ttl) ==
  /\ aprStatus[a] = "none"
  /\ aprStatus' = [aprStatus EXCEPT ![a] = "pending"]
  /\ aprExpires' = [aprExpires EXCEPT ![a] = clock + ttl]
  /\ aprLooked' = [aprLooked EXCEPT ![a] = clock]
  /\ UNCHANGED <<clock, aprDecided>>

(* Slip: a look at the list leaves the late requests pending. *)
LookOnly(A) ==
  /\ aprLooked' = [a \in AprIds |-> IF a \in A THEN clock ELSE aprLooked[a]]
  /\ UNCHANGED <<clock, aprStatus, aprExpires, aprDecided>>

(* getApprovalStatus (one request) and cleanupExpiredApprovals (all)        *)
Look(A) ==
  /\ aprLooked' = [a \in AprIds |-> IF a \in A THEN clock ELSE aprLooked[a]]
  /\ aprStatus' = [a \in AprIds |->
       IF a \in A /\ clock > aprExpires[a] THEN "expired" ELSE aprStatus[a]]
  /\ UNCHANGED <<clock, aprExpires, aprDecided>>

GetApprovalStatus(a) == Pending(a) /\ Look({a})
CleanupExpired       == Look({a \in AprIds : Pending(a)})

(* approveRequest and denyRequest; neither looks at expires_at              *)
Decide(a, how) ==
  /\ Pending(a)
  /\ aprStatus' = [aprStatus EXCEPT ![a] = how]
  /\ aprDecided' = [aprDecided EXCEPT ![a] = clock]
  /\ UNCHANGED <<clock, aprExpires, aprLooked>>

AprNext ==
  \/ \E a \in AprIds :
       \/ \E ttl \in AprTtls : CreateApproval(a, ttl)
       \/ GetApprovalStatus(a)
       \/ Decide(a, "approved")
       \/ Decide(a, "denied")
  \/ CleanupExpired
  \/ TimePasses /\ UNCHANGED aprOwn

AprSpec == ClockInit /\ AprInit /\ [][AprNext]_aprVars
-----------------------------------------------------------------------------
(* A decision may come after the request expired, for neither approveRequest *)
(* nor denyRequest compares the clock with expires_at; but only when nobody  *)
(* asked for the status, and no cleanup ran, since the expiry: whoever was   *)
(* told that a request expired never sees it approved.                       *)
LateOnlyUnseen ==
  \A a \in AprIds :
    aprStatus[a] \in {"approved", "denied"} /\ aprDecided[a] > aprExpires[a]
      => aprLooked[a] <= aprExpires[a]
=============================================================================
