------------------------------ MODULE Tenants ------------------------------
(***************************************************************************)
(* TenantManager (packages/multi-tenant/src/index.ts): organisations, the  *)
(* map from admin API keys to them, and the revocation store each has for  *)
(* itself.  Organisations and keys are drawn at random and never twice.    *)
(***************************************************************************)
EXTENDS Naturals, FiniteSets

CONSTANTS
  OrgIds,        \* organisations createOrganization can draw
  ApiKeys,       \* admin keys
  Credentials    \* credential ids the revocation stores are asked about

VARIABLES
  orgKey,      \* orgs: orgKey[o] is o's admin_api_key, as a set of at most one
  keyOrg,      \* apiKeyToOrg: keyOrg[k] is k's organisation, as such a set
  keysDrawn,   \* keys handed out so far
  orgsDrawn,   \* organisations created so far
  orgRevoked   \* orgRevoked[o]: credentials o has revoked

tenVars == <<orgKey, keyOrg, keysDrawn, orgsDrawn, orgRevoked>>

TenInit ==
  /\ orgKey = [o \in OrgIds |-> {}]
  /\ keyOrg = [k \in ApiKeys |-> {}]
  /\ keysDrawn = {}
  /\ orgsDrawn = {}
  /\ orgRevoked = [o \in OrgIds |-> {}]

Exists(o) == orgKey[o] # {}

(* authenticate: the organisation of a key, if it still exists              *)
Authenticated(k) == {o \in keyOrg[k] : Exists(o)}

CreateOrganization(o, k) ==
  /\ o \notin orgsDrawn /\ k \notin keysDrawn
  /\ orgKey' = [orgKey EXCEPT ![o] = {k}]
  /\ keyOrg' = [keyOrg EXCEPT ![k] = {o}]
  /\ keysDrawn' = keysDrawn \union {k}
  /\ orgsDrawn' = orgsDrawn \union {o}
  /\ UNCHANGED orgRevoked

DeleteOrganization(o) ==
  /\ Exists(o)
  /\ keyOrg' = [k \in ApiKeys |-> IF k \in orgKey[o] THEN {} ELSE keyOrg[k]]
  /\ orgKey' = [orgKey EXCEPT ![o] = {}]
  /\ UNCHANGED <<keysDrawn, orgsDrawn, orgRevoked>>

(* Slip: the key that was replaced stays in the map. *)
RotateKeepsOld(o, k) ==
  /\ Exists(o) /\ k \notin keysDrawn
  /\ keyOrg' = [keyOrg EXCEPT ![k] = {o}]
  /\ orgKey' = [orgKey EXCEPT ![o] = {k}]
  /\ keysDrawn' = keysDrawn \union {k}
  /\ UNCHANGED <<orgsDrawn, orgRevoked>>

RotateApiKey(o, k) ==
  /\ Exists(o) /\ k \notin keysDrawn
  /\ keyOrg' = [[j \in ApiKeys |-> IF j \in orgKey[o] THEN {} ELSE keyOrg[j]] EXCEPT ![k] = {o}]
  /\ orgKey' = [orgKey EXCEPT ![o] = {k}]
  /\ keysDrawn' = keysDrawn \union {k}
  /\ UNCHANGED <<orgsDrawn, orgRevoked>>

(* MultiTenantRevocationStore.setStatus: any organisation id has a store,    *)
(* whether the organisation exists or not                                    *)
SetStatusOf(o, c, revoked) ==
  /\ orgRevoked' = [orgRevoked EXCEPT ![o] = IF revoked THEN @ \union {c} ELSE @ \ {c}]
  /\ UNCHANGED <<orgKey, keyOrg, keysDrawn, orgsDrawn>>

TenNext ==
  \E o \in OrgIds :
    \/ \E k \in ApiKeys : CreateOrganization(o, k) \/ RotateApiKey(o, k)
    \/ DeleteOrganization(o)
    \/ \E c \in Credentials, revoked \in BOOLEAN : SetStatusOf(o, c, revoked)

TenSpec == TenInit /\ [][TenNext]_tenVars
-----------------------------------------------------------------------------
(* The two maps agree: a key opens the organisation whose admin key it is,   *)
(* and no other; a key that was rotated out, or whose organisation was       *)
(* deleted, opens nothing.                                                   *)
KeyOpensItsOrg ==
  \A k \in ApiKeys, o \in OrgIds :
    o \in Authenticated(k) <=> k \in orgKey[o]
=============================================================================
