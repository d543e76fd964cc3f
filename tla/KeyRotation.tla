---------------------------- MODULE KeyRotation ----------------------------
(***************************************************************************)
(* KeyRotationManager (packages/key-rotation/src/index.ts): the CA key in  *)
(* use, the keys it replaced with the end of their overlap period, and the *)
(* hourly timer that rotates and expires them.  Keys are numbered in the   *)
(* order they are generated, so that legacy key i is the one rotation i    *)
(* retired and the current key is the number of rotations.                 *)
(***************************************************************************)
EXTENDS WallClock, Sequences

CONSTANTS
  Interval,      \* rotation_interval_days
  Overlap,       \* overlap_days
  MaxRotations   \* bound of the rotations

ASSUME RotationAssumption ==
  /\ Interval \in Nat \ {0}
  /\ Overlap \in Nat \ {0}
  /\ MaxRotations \in Nat

VARIABLES
  rotLegacy,   \* state.legacy: [rotated, expires, revoked], oldest first
  rotNext,     \* state.next_rotation
  rotPulled,   \* keys revokeLegacyKey revoked
  rotTold      \* rotTold[k]: how often onExpire was called with key k

rotOwn  == <<rotLegacy, rotNext, rotPulled, rotTold>>
rotVars == <<clock, rotOwn>>

Keys == 0 .. MaxRotations
Current == Len(rotLegacy)
Legacy(k) == rotLegacy[k + 1]

RotInit ==
  /\ rotLegacy = << >>
  /\ rotNext = Interval
  /\ rotPulled = {}
  /\ rotTold = [k \in Keys |-> 0]

(* Slip: the overlap is counted from the end of the scheduled interval. *)
LateRetired == [rotated |-> clock, expires |-> rotNext + Overlap, revoked |-> FALSE]

Retired == [rotated |-> clock, expires |-> clock + Overlap, revoked |-> FALSE]

Lapsed(l) == ~l.revoked /\ l.expires <= clock

(* expireLegacyKeys over the legacy keys L                                  *)
Expire(L) ==
  /\ rotLegacy' = [i \in 1 .. Len(L) |->
                     IF Lapsed(L[i]) THEN [L[i] EXCEPT !.revoked = TRUE] ELSE L[i]]
  /\ rotTold' = [k \in Keys |->
                   IF k < Len(L) /\ Lapsed(L[k + 1]) THEN rotTold[k] + 1 ELSE rotTold[k]]

Rotate ==
  /\ Current < MaxRotations
  /\ rotLegacy' = Append(rotLegacy, Retired)
  /\ rotNext' = clock + Interval
  /\ UNCHANGED <<clock, rotPulled, rotTold>>

(* The timer: rotate when due, then expire.                                 *)
AutoRotation ==
  /\ \/ clock >= rotNext /\ Current < MaxRotations
        /\ Expire(Append(rotLegacy, Retired)) /\ rotNext' = clock + Interval
     \/ clock < rotNext /\ Expire(rotLegacy) /\ UNCHANGED rotNext
  /\ UNCHANGED <<clock, rotPulled>>

ExpireLegacyKeys == Expire(rotLegacy) /\ UNCHANGED <<clock, rotNext, rotPulled>>

RevokeLegacyKey(k) ==
  /\ k < Current
  /\ ~Legacy(k).revoked
  /\ rotLegacy' = [rotLegacy EXCEPT ![k + 1] = [@ EXCEPT !.revoked = TRUE]]
  /\ rotTold' = [rotTold EXCEPT ![k] = @ + 1]
  /\ rotPulled' = rotPulled \union {k}
  /\ UNCHANGED <<clock, rotNext>>

RotNext ==
  \/ Rotate
  \/ AutoRotation
  \/ ExpireLegacyKeys
  \/ \E k \in Keys : RevokeLegacyKey(k)
  \/ TimePasses /\ UNCHANGED rotOwn

RotSpec == ClockInit /\ RotInit /\ [][RotNext]_rotVars
-----------------------------------------------------------------------------
(* getValidKeys, over which verifyWithRotation tries a signature            *)
ValidKeys ==
  {Current} \union {k \in Keys : k < Current /\ ~Legacy(k).revoked /\ Legacy(k).expires > clock}

(* A credential of an earlier key verifies for the whole overlap period     *)
(* after that key was replaced, and never after it, whenever the timer runs *)
(* and however many rotations follow; a key that was pulled verifies no     *)
(* more, and onExpire is called once for each key that stopped verifying,   *)
(* never for one that still does.                                           *)
OverlapKept ==
  \A k \in Keys : k < Current =>
    /\ k \in ValidKeys <=> clock < Legacy(k).rotated + Overlap /\ k \notin rotPulled
    /\ rotTold[k] <= 1
    /\ rotTold[k] = 1 => k \notin ValidKeys
=============================================================================
