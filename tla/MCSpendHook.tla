----------------------------- MODULE MCSpendHook -----------------------------
(***************************************************************************)
(* Finite instances of SpendHook for TLC.                                  *)
(***************************************************************************)
EXTENDS SpendHook, TLC

Pin1 == [kid |-> "k1", key |-> "key1", notBefore |-> 0, notAfter |-> 0,
         revokedAt |-> 0]
Pin2 == [kid |-> "k2", key |-> "key2", notBefore |-> 0, notAfter |-> 2,
         revokedAt |-> 1]
OnePin  == <<Pin1>>
TwoPins == <<Pin1, Pin2>>

OneGrant  == <<[agent |-> "bot", resources |-> {"*"}, dayCap |-> 3,
                minBand |-> "B1"]>>
OwlGrant  == <<[agent |-> "bot", resources |-> {"*"}, dayCap |-> 1,
                minBand |-> "B1"],
               [agent |-> "owl", resources |-> {"*"}, dayCap |-> 0,
                minBand |-> "none"]>>
TwoGrants == <<[agent |-> "bot", resources |-> {"r1"}, dayCap |-> 0,
                minBand |-> "none"],
               [agent |-> "bot", resources |-> {"r2"}, dayCap |-> 1,
                minBand |-> "B1"]>>

Good == [kid |-> "k1", key |-> "key1", skew |-> 0, window |-> "date",
         expires |-> 0]
GoodOnly == {Good}
ShapesTwo ==
  {Good, [Good EXCEPT !.kid = "k2", !.key = "key2"],
   [Good EXCEPT !.kid = "k2", !.key = "key2", !.window = "unparsable"],
   [Good EXCEPT !.kid = "k2"], [Good EXCEPT !.kid = "none"],
   [Good EXCEPT !.kid = "k3"],
   [Good EXCEPT !.skew = 1], [Good EXCEPT !.expires = 1],
   [Good EXCEPT !.window = "missing"]}
ShapesBroken == {Good, [Good EXCEPT !.window = "unparsable"]}

(* The calls are alike.                                                    *)
CallSymmetry == Permutations(Calls)
=============================================================================
