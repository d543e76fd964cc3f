---------------------------- MODULE TokenBucket ----------------------------
(***************************************************************************)
(* The token bucket of packages/rate-limit/src/index.ts for one key: in    *)
(* memory, where a check is one step, or in Redis, where a check takes the *)
(* time, awaits, and a script refills and takes a token at that time.      *)
(* Checks awaited together may be evaluated in any order.  Tokens are      *)
(* counted in fractions, TokenUnit of them to a token.                     *)
(***************************************************************************)
EXTENDS WallClock, Integers, Sequences, FiniteSets

CONSTANTS
  Checks,       \* calls of check
  MaxTokens,    \* maxTokens
  TokenUnit,    \* fractions in a token
  RefillRate,   \* fractions refilled per tick: refillRatePerSecond
  TtlSlack,     \* the 60 s the expiry of the Redis key allows for
  EvalDelay     \* longest time between the start of a check and its script

ASSUME BucketAssumption ==
  /\ MaxTokens \in Nat \ {0}
  /\ TokenUnit \in Nat \ {0}
  /\ RefillRate \in Nat \ {0}
  /\ TtlSlack \in Nat
  /\ EvalDelay \in 0 .. TtlSlack

VARIABLES
  tbShared,    \* is the limiter the one over Redis?
  tbBucket,    \* the bucket: at most one [tokens, last]
  tbTouched,   \* when the bucket was last written
  tbSent,      \* tbSent[c]: the time check c took, -1 before
  tbDone,      \* checks that were answered
  tbLog        \* the times of the admitted checks, as they were evaluated

tbOwn  == <<tbShared, tbBucket, tbTouched, tbSent, tbDone, tbLog>>
tbVars == <<clock, tbOwn>>

Full == MaxTokens * TokenUnit
Least(a, b) == IF a < b THEN a ELSE b

TbInit ==
  /\ tbShared \in BOOLEAN
  /\ tbBucket = {}
  /\ tbTouched = 0
  /\ tbSent = [c \in Checks |-> -1]
  /\ tbDone = {}
  /\ tbLog = << >>

(* The tokens at time t; t may lie before the last refill.                  *)
Refilled(t) ==
  IF tbBucket = {} THEN Full
  ELSE LET b == CHOOSE b \in tbBucket : TRUE
       IN Least(Full, b.tokens + (t - b.last) * RefillRate)

Take(c, t) ==
  LET tokens == Refilled(t)
      ok == tokens >= TokenUnit
  IN /\ tbBucket' = {[tokens |-> IF ok THEN tokens - TokenUnit ELSE tokens, last |-> t]}
     /\ tbTouched' = clock
     /\ tbDone' = tbDone \union {c}
     /\ tbLog' = IF ok THEN Append(tbLog, t) ELSE tbLog

(* InMemoryRateLimiter.check                                                *)
CheckInMemory(c) ==
  /\ ~tbShared /\ tbSent[c] = -1
  /\ tbSent' = [tbSent EXCEPT ![c] = clock]
  /\ Take(c, clock)
  /\ UNCHANGED <<clock, tbShared>>

(* InMemoryRateLimiter.cleanup                                              *)
DropFull ==
  /\ ~tbShared
  /\ tbBucket' = {b \in tbBucket : b.tokens + (clock - b.last) * RefillRate < Full}
  /\ UNCHANGED <<clock, tbShared, tbTouched, tbSent, tbDone, tbLog>>

(* RedisRateLimiter.check up to its await                                   *)
SendCheck(c) ==
  /\ tbShared /\ tbSent[c] = -1
  /\ tbSent' = [tbSent EXCEPT ![c] = clock]
  /\ UNCHANGED <<clock, tbShared, tbBucket, tbTouched, tbDone, tbLog>>

(* The script runs, or is lost with its answer.                             *)
EvalScript(c) ==
  /\ tbShared /\ tbSent[c] # -1 /\ c \notin tbDone
  /\ \/ clock <= tbSent[c] + EvalDelay /\ Take(c, tbSent[c])
     \/ tbDone' = tbDone \union {c} /\ UNCHANGED <<tbBucket, tbTouched, tbLog>>
  /\ UNCHANGED <<clock, tbShared, tbSent>>

(* Slip: the key expires when half of the bucket has been refilled. *)
ShortTtl == Full \div (2 * RefillRate)

(* EXPIRE: ceil(maxTokens / refillRatePerSecond) + 60                       *)
KeyTtl == (Full + RefillRate - 1) \div RefillRate + TtlSlack

KeyExpires ==
  /\ tbShared /\ tbBucket # {}
  /\ clock >= tbTouched + KeyTtl
  /\ tbBucket' = {}
  /\ UNCHANGED <<clock, tbShared, tbTouched, tbSent, tbDone, tbLog>>

TbNext ==
  \/ \E c \in Checks : CheckInMemory(c) \/ SendCheck(c) \/ EvalScript(c)
  \/ DropFull
  \/ KeyExpires
  \/ TimePasses /\ UNCHANGED tbOwn

TbSpec == ClockInit /\ TbInit /\ [][TbNext]_tbVars
-----------------------------------------------------------------------------
(* Of the checks evaluated from an admitted one to another, no more pass     *)
(* than a full bucket and the refill between the times the two took: checks  *)
(* evaluated out of order, whose time runs backwards for the script, and an  *)
(* expiry of the bucket's key hand out no token twice.                       *)
BucketBounds ==
  \A i, j \in 1 .. Len(tbLog) : i <= j =>
    (j - i + 1) * TokenUnit <= Full + (tbLog[j] - tbLog[i]) * RefillRate
=============================================================================
