---------------------------- MODULE RequestLimit ----------------------------
(***************************************************************************)
(* checkRateLimit of the trust server (packages/server/src/index.ts): a    *)
(* counter per address, restarted by the first request after its window.   *)
(***************************************************************************)
EXTENDS WallClock, Sequences

CONSTANTS
  Addresses,    \* remote addresses
  Limit,        \* rateLimitPerMinute
  Window,       \* rateLimitWindowMs
  MaxCounted    \* bound of a counter

ASSUME LimitAssumption ==
  Limit \in Nat \ {0} /\ Window \in Nat /\ MaxCounted \in Nat

VARIABLES
  limCount,    \* count of an address; 0 when it has no entry
  limStart,    \* windowStart of its entry
  limLog       \* the times its requests were admitted

limVars == <<limCount, limStart, limLog>>

LimInit ==
  /\ limCount = [a \in Addresses |-> 0]
  /\ limStart = [a \in Addresses |-> 0]
  /\ limLog = [a \in Addresses |-> << >>]

(* Slip: the window is over one tick early. *)
WindowShort(a) == limCount[a] = 0 \/ clock - limStart[a] >= Window

WindowOver(a) == limCount[a] = 0 \/ clock - limStart[a] > Window

Admits(a) == WindowOver(a) \/ limCount[a] < Limit

CheckRateLimit(a) ==
  /\ limCount[a] < MaxCounted
  /\ limCount' = [limCount EXCEPT ![a] = IF WindowOver(a) THEN 1 ELSE @ + 1]
  /\ limStart' = [limStart EXCEPT ![a] = IF WindowOver(a) THEN clock ELSE @]
  /\ limLog' = [limLog EXCEPT ![a] = IF Admits(a) THEN Append(@, clock) ELSE @]

LimNext ==
  \/ \E a \in Addresses : CheckRateLimit(a) /\ UNCHANGED clock
  \/ TimePasses /\ UNCHANGED limVars

LimSpec == ClockInit /\ LimInit /\ [][LimNext]_<<clock, limVars>>
-----------------------------------------------------------------------------
(* The window of an address starts anew with its first request after the     *)
(* last one ended, so that one span of that length can admit more than Limit *)
(* requests; but always fewer than twice as many.                            *)
UnderTwiceLimit ==
  \A a \in Addresses : \A i, j \in 1 .. Len(limLog[a]) :
    i <= j /\ limLog[a][j] - limLog[a][i] <= Window => j - i + 1 < 2 * Limit
=============================================================================
