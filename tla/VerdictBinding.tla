--------------------------- MODULE VerdictBinding ---------------------------
(***************************************************************************)
(* The scope binding of a verifier's verdict (RFC-ATC v3, section 5.2) as  *)
(* utaVerify of pay-mcp-bridge/src/bridge.mjs checks it: which pinned key  *)
(* a verdict is verified against, and when the signed window, challenge,   *)
(* resource and amount let it through.  There is no state here.            *)
(*                                                                         *)
(* A verdict is a record                                                   *)
(*   kid       identifier of the signing key, "none" when the verdict has none *)
(*   key       the key whose signature the verdict carries                 *)
(*   challenge, resource, amount, band      what the signature covers      *)
(*   window    "date", "unparsable" (Date.parse gives NaN) or "missing"    *)
(*   issued, expires   issued_at and expires_in, in clock ticks            *)
(* An amount in a non-canonical form is an amount no request has.          *)
(***************************************************************************)
EXTENDS Naturals, Sequences

CONSTANTS
  Kids, VerifierKeys,   \* key identifiers ("none" for none) and signing keys
  Pins,         \* pinned verifier keys: a sequence of records with fields
                \* kid, key, notBefore, notAfter, revokedAt (0 stands for null)
  MaxSkew,      \* max_skew_s: how far issued_at may lie in the future
  MaxExpires,   \* max_expires_in_s: the longest window the seller takes
  NoVerdict     \* the reply carries no signed verdict

Pin == [kid: Kids, key: VerifierKeys,
        notBefore: Nat, notAfter: Nat, revokedAt: Nat]
Windows == {"date", "unparsable", "missing"}

ASSUME BindingAssumption ==
  /\ Pins \in Seq(Pin)
  /\ MaxSkew \in Nat
  /\ MaxExpires \in Nat

First(S) == {i \in S : \A j \in S : i <= j}

(* Slip: the kid is not matched. *)
SelectedPinAnyKey(v) == DOMAIN Pins

(* pins.find by kid, or the only pin of a one-key set for a verdict without *)
(* a kid; empty when the code denies                                        *)
SelectedPin(v) ==
  IF v.kid # "none"
    THEN First({i \in DOMAIN Pins : Pins[i].kid = v.kid})
    ELSE {i \in DOMAIN Pins : Len(Pins) = 1}

(* Every comparison of JavaScript with NaN is false, so that an unparsable  *)
(* issued_at is neither before nor after anything.                          *)
IssuedAfter(v, t)  == v.window = "date" /\ v.issued > t
IssuedBefore(v, t) == v.window = "date" /\ v.issued < t
Expired(v, t)      == v.window = "date" /\ t > v.issued + v.expires

(* Slip: only rotation is checked, not revocation. *)
PinCoversForgettingRevocation(p, v) ==
  /\ ~(p.notBefore # 0 /\ IssuedBefore(v, p.notBefore))
  /\ ~(p.notAfter # 0 /\ IssuedAfter(v, p.notAfter))

(* not_before, not_after (rotation) and revoked_at of the selected pin      *)
PinCovers(p, v) ==
  /\ ~(p.notBefore # 0 /\ IssuedBefore(v, p.notBefore))
  /\ ~(p.notAfter # 0 /\ IssuedAfter(v, p.notAfter))
  /\ ~(p.revokedAt # 0 /\ (IssuedAfter(v, p.revokedAt) \/
                             (v.window = "date" /\ v.issued = p.revokedAt)))

(* Slip: the challenge is not compared. *)
ScopeBoundToAnyAttempt(v, challenge, resource, amount, t) ==
  /\ v # NoVerdict
  /\ v.window # "missing"
  /\ ~IssuedAfter(v, t + MaxSkew)
  /\ v.expires <= MaxExpires
  /\ \E i \in SelectedPin(v) : PinCovers(Pins[i], v) /\ v.key = Pins[i].key
  /\ v.resource = resource
  /\ v.amount = amount
  /\ ~Expired(v, t)

(* The whole check under scope_binding "strict": the verdict binds this     *)
(* attempt's challenge, resource and amount at time t.                      *)
ScopeBound(v, challenge, resource, amount, t) ==
  /\ v # NoVerdict
  /\ v.window # "missing"
  /\ ~IssuedAfter(v, t + MaxSkew)
  /\ v.expires <= MaxExpires
  /\ \E i \in SelectedPin(v) : PinCovers(Pins[i], v) /\ v.key = Pins[i].key
  /\ v.challenge = challenge
  /\ v.resource = resource
  /\ v.amount = amount
  /\ ~Expired(v, t)
=============================================================================
