------------------------- MODULE MCRevocationCheck -------------------------
(* Instance of RevocationCheck for TLC                                      *)
EXTENDS RevocationCheck, TLC

Plain == [method |-> "AUTO", url |-> "none", index |-> FALSE, list |-> FALSE,
          expires |-> MaxTime + 1, inline |-> FALSE]

(* Credentials of every kind the dispatch tells apart, and one that expires. *)
EveryCard ==
  {Plain, [Plain EXCEPT !.url = "crl"], [Plain EXCEPT !.url = "ocsp"],
   [Plain EXCEPT !.method = "CRL", !.url = "crl", !.expires = 1],
   [Plain EXCEPT !.method = "OCSP"], [Plain EXCEPT !.inline = TRUE],
   [Plain EXCEPT !.index = TRUE, !.list = TRUE]}

(* Fail closed with a responder, whose key is known or not; fail open and    *)
(* no responder                                                             *)
SomeSetups ==
  {[responder |-> TRUE, keyed |-> k, failClosed |-> TRUE] : k \in BOOLEAN} \cup
  {[responder |-> FALSE, keyed |-> FALSE, failClosed |-> FALSE]}

Symmetry == Permutations(Calls)
=============================================================================
