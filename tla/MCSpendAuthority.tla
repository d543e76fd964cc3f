-------------------------- MODULE MCSpendAuthority --------------------------
(***************************************************************************)
(* Finite instances of SpendAuthority for TLC.                             *)
(***************************************************************************)
EXTENDS SpendAuthority

OnePin   == <<[kid |-> "k1", key |-> "key1", notBefore |-> 0, notAfter |-> 0,
               revokedAt |-> 0]>>
OneGrant == <<[agent |-> "bot", resources |-> {"*"}, dayCap |-> 0,
               minBand |-> "B1"]>>
=============================================================================
