# Universal Trust Adapter: verification project

TLA+ models, TLC configurations and TLAPS proofs for the parts of the Universal Trust
Adapter (UTA) that keep state, wait for others and fail: the spend hook and the spending
authority of `pay-mcp-bridge`, proof of possession and its stores, the verification
pipeline and its revocation checkers, the trust server, webhook delivery, and the smaller
components around them. Paths are relative to `src/`; `packages/` stands for
`uta-monorepo/packages/`.

Contents: [inventory](#inventory) · [modules](#modules) · [runs](#runs) ·
[fairness](#fairness) · [proofs](#proofs) · [divergences](#what-the-code-does-otherwise) ·
[limits](#not-modelled) · [plan](#plan)

## Inventory

### Components that are modelled

| Component | Code | State | Operations | What is hard | What makes it correct |
|---|---|---|---|---|---|
| Spend hook | `pay-mcp-bridge/src/bridge.mjs` (`createUtaHook`) | `state.spends` by agent and day, pinned keys, policy | `authorize`: grant, budgets, `utaVerify`, band, `revocationCheck`, record | two awaits between reading the budget and charging it; two services that fail, lie late or answer nonsense; key rotation; the day changes under way | no allow without evidence for this very spend; a verdict is good once; immediate revocation; ledger = decisions; overshoot bounded |
| Spend authority | `pay-mcp-bridge/src/spend514.mjs` | `claimed`, the replay guard; the hook inside it | `authorize` of a #514 request: validation, guard, gates, race with a deadline | the hook is not cancelled when the deadline wins; denial after the claim; restart | one attempt per operation; only the hook's allow is an allow; every request is answered; answers are final |
| Nonce stores, `PoPManager` | `packages/core/nonce-store.ts`, `packages/persistence/src/supabase.ts` | challenges, consumed flags, expiry | `issueChallenge`, `verifyAndConsume`, `cleanup` over memory, Redis (REST), Supabase | an await between `retrieve` and `consume`; read-modify-write over the network; expiry and retention | a challenge proves possession once |
| Verification pipeline | `packages/core/verification-pipeline.ts` | none across calls | format detection, eleven stages, the awaited check | six formats of which some skip or never reach a check; the world moves during the await | ALLOW only for what was verified |
| Revocation checkers, responder | `packages/core/revocation.ts` | one cache per checker, the registry | `check` by CRL, OCSP, status list; dispatch; `setStatus`; `handleOCSPRequest` | answers in any order, old documents, caches, a responder that is down | staleness is bounded; fail closed |
| Trust server, gateway, receipts | `packages/server/src/index.ts`, `server/src/hardening.ts`, `packages/gateway/` | connections, rate counters, revocations, receipts | check, revoke, status, issue; shutdown | receipts nobody awaits; stores that fail; a restart; a drain with a time limit | acknowledged revocations are seen; ALLOW leaves a receipt; shutdown ends |
| Request limit, rate limiter | `server/src/index.ts:196`, `packages/rate-limit/src/index.ts` | a counter; a bucket, in memory or in Redis | `checkRateLimit`; `check`, eviction, key expiry | windows that restart; a script that runs with an older time; a key that expires | a bound in every span |
| Key rotation | `packages/key-rotation/src/index.ts` | current and legacy keys | `rotate`, the hourly timer, `revokeLegacyKey`, `tryVerify` | the timer against expiry and a revocation by hand | a key verifies exactly through its overlap |
| Approvals and policy | `packages/core/org-policy.ts`, `capability-graph.ts` | approval requests; manifest and policy | approve, deny, look, cleanup; `evaluatePolicy`, the access checks | a decision after expiry; checks that do not see the policy | nobody who saw it expired sees it approved |
| Cline plugin's gate | `cline-plugin-uta/index.js` | a cache of recommendations | veto, lookup, forward | answers in any order, a revocation meanwhile | a permit is recent |
| Transparency log, audit log | `packages/core/revocation-transparency.ts`, `packages/audit/src/index.ts` | entries, cached tree levels, signed heads | append, sign, prove | a cache of the tree; trees of odd width | a head covers its entries; proofs verify |
| Organisations | `packages/multi-tenant/src/index.ts` | two maps, a revocation store each | create, authenticate, rotate, delete | two maps kept in step | a key opens its organisation |
| Threshold signatures | `packages/adapters/multisig.ts` | a list anyone may extend | `appendSignature`, `verifyMultiSig` | junk and duplicates in the list | a quorum stays one |
| Webhooks | `packages/webhooks/src/index.ts` | `subscriptions`, `deliveryLog`, emits under way | `subscribe`, `unsubscribe`, `emit` with retries | emits interleave with each other and with subscriptions; timeout against late answer; a silent subscriber | nobody is skipped, acknowledged means received, no retry after success, emit ends |

How they interact. The authority calls the hook in process and races it against a timer.
The hook awaits a verifier (`policy.uta.verify_url`) and a revocation service
(`policy.revocation.check_url`) over HTTP, and nothing else is shared. The pipeline awaits
a `RevocationChecker` it is given; a checker shares its cache between all verifications
that use it and awaits a CA, an OCSP responder or a list. `PoPManager` awaits its store,
which several processes may share (Redis, Supabase). The server counts a request, awaits
its body, runs the gateway, which runs the pipeline without a checker, and hands the
receipt to a store it does not await; a revocation it does await. Its verify
route calls the threshold verification, which keeps nothing. The rate limiter, the logs,
organisations, key rotation, approvals and webhooks are libraries that share no state with
each other or with the server, and that nothing but tests constructs. All of it runs on one event loop per process, so that code between two
awaits is one step of a model, and every await is a point where every other actor may move.

### Components that are not modelled

MCP middleware, trust registry, trust analysis (scores, graphs, drift, fingerprints),
cryptography and credential formats beyond the pipeline's reading of them, observability,
command line, the Go, Python and Rust ports, the webhook dead letter queue, receipt signing
and the Rust shim of the bridge. `PROJECT.json` gives the reason for each. `proprietary/`,
`open/`, `integrations/`, `scripts/`, `evidence/`, `api/`, the dashboards and the
extensions hold copies, compiled output, samples, data and glue without state worth a
model; `packages/browser` and `packages/realtime` have no source.

## Modules

| Module | What it is |
|---|---|
| `VerdictBinding` | the scope binding of a signed verdict (§5.2 as `utaVerify` checks it): operators without state |
| `SpendHook` | `authorize` of the hook, the verifier and the revocation registry; EXTENDS `VerdictBinding` |
| `SpendAuthority` | the authority composed with the hook; EXTENDS `SpendHook` |
| `OneTimeNonce` | abstract specification: what a challenge store promises |
| `PopManager` | state and common steps of `PoPManager`; the stores EXTEND it |
| `MemoryNonceStore`, `RedisNonceStore`, `SupabaseNonceStore` | `PoPManager` over each store; the first implements `OneTimeNonce` |
| `RevocationCheck` | stage 09 over the composite checker, its caches, the CA, the responder and the registry |
| `VerificationStages` | the format detection and the eleven stages as lists of named verdicts: operators without state |
| `VerificationPipeline` | `verifyCredential` suspended at its checker; EXTENDS `VerificationStages` |
| `RequestLimit` | `checkRateLimit` of the server |
| `TrustServer` | the server with its gateway, stores and shutdown; EXTENDS `RequestLimit` and `VerificationStages` |
| `WebhookDelivery` | `WebhookManager`, the posts under way and what subscribers received |
| `WallClock` | the clock the modules below and the server share |
| `KeyRotation`, `Approvals`, `RevocationGate`, `TokenBucket`, `Tenants`, `ThresholdSignatures`, `OrgPolicy` | one component each |
| `MerkleTrees` | the two trees, levels, paths and roots over symbolic hashes; `RevocationLog` and `AuditTrail` are the logs over them |
| `MC*` | constants for TLC; `MCLibrary` puts the components without shared state side by side |
| `*Proofs` | theorems and their proofs |

Conventions. A definition has the name of the code it stands for, where it has one. A step
is all the code between two awaits. A call is an element of `Calls` (`Requests`, `VpRuns`,
`GateCalls`, `Checks`) and is made at most once. Optional values are sets of at most one
element. Sums of money, times and ttls are natural numbers. A definition whose comment
begins with *Slip:* is not part of a model: it is the next definition with a plausible
mistake, and the property named for it in `PROJECT.json` (`mutants`) fails when the
mistake is made.

### SpendHook and VerdictBinding

| Code | Model |
|---|---|
| `authorize` to the first `await` (`bridge.mjs:397–413`) | `Authorize(c)`, with `Admission` for the order of the refusals |
| `budgetCheck` (`:260–286`) | `OverPerSpend`, `OverDaily`, `OverTotal` |
| the verify fetch and all that follows it in `utaVerify` (`:293–378`) and the band check | `VerifyReply(c, r)` for any reply `r` of `Replies` |
| pins, window, skew, expiry, binding (`:328–373`) | `SelectedPin`, `PinCovers`, `ScopeBound` |
| `revocationCheck` (`:380–395`) | `SkipRevocation`, `RevocationReply`, `RevocationDown` |
| `record` (`:254–258`) and the receipt | `Allow`, `Deny` |
| verifier, registry, clock | `VerifierSigns`, `RegistryAnswers`, `RegistryRevokes`, `Tick` |

`state.spends` appears as its sums (`spentAll`, `spentOn`), which is all the code reads.
An answer that is JSON `null` makes `authorize` reject (`Threw`). Dates that do not parse
are a window of their own, because every comparison with `NaN` is false. The bands are the
codes of `BAND_RANK` and one that is not in it.

### SpendAuthority

`Submit` is `authorize` of `spend514.mjs` up to the race: validation, replay guard, claim,
gates, and in the same step the first part of the hook's `authorize`. `HookMoves` lets the
hook's invocation go on; `Resolve` tells the host only if the race is open. `Deadline` is
the timer. `Restart` empties the claims and the runtime state, since both are plain objects
(`:125–128`).

### Nonce stores

`MemoryNonceStore` has two steps per verification, because only the call of the store and
the import of the crypto module are awaited. The Redis model has one step per REST request
and lets each request fail, answer without a result, or be carried out without an answer;
the Supabase model has the conditional update, and remembers in `lapse` when the challenge of a
nonce expires after its row is gone. `Retention` is the hour a consumed challenge
is kept; `genuine[c]` says whether a response would verify.

### Pipeline and revocation

`VerificationStages` reads a credential as a record of what the stages look at: which
top-level fields it has, whether its signature verifies, its issuer, key id, binding, dates,
evidence and score. `Candidates` is the chain of `detectFormat`; `Before` and `After` are
the stages on each side of the awaited checker, `Verdict` both at once, as the gateway runs
them. `VerificationPipeline` answers the await with any status; `RevocationCheck` refines
that one await into the checkers.

In `RevocationCheck` a check starts (`Check`), is answered by its cache or suspended at its
fetch; the source answers with what it knows at that time (`SourceAnswers`), and the answer
arrives later (`Arrive`) or never does (`FetchFails`). `Keeps` and `Remember` are the three
caching rules: a CRL is kept before it is verified, an OCSP answer when it says good, a list
when it verifies. `Verified` is evaluated at use. `AUTO` with any address goes to the CRL
checker, because that case is first (`revocation.ts:475`). An OCSP body is taken as it comes,
as the code takes it: its status is one of the three or anything else (`Replied`), and it may
be the answer to another request (`NonceDiffers`), recorded at any earlier time, which the
check that fetched it refuses and which is in the cache by then. `Passes` are the two tests
of the pipeline: not `revoked`, and not `unknown` when it fails closed. Assumed: credentials
have an id; CRLs are issued with a fixed life and list what is revoked.

The dates of a credential are sets: empty when they are missing or do not parse, for both
make every comparison of the lifecycle stage false or skip it.

### TrustServer

`Arrive` is the part of the request handler before its first await: rate counter, admin key
(compared before the body is read), and a status from a store in memory. `BodyEnds` is the
rest, up to a remote store's answer (`StoreApplies`, `StoreAnswers`): an update may be
carried out before its answer is seen. A broken body is an error for every route but
revoke, which takes its reason from it and goes on. The gateway's receipt is in the store at once (memory) or
on its way (`srvInserting`); a rejected insert ends the process, because nobody handles the
rejection. `Signal`, `DrainEnds`, `HandlerRuns`, `Exit` are `GracefulShutdown`; `Killed` is
any other end. Stores in memory are empty after a restart, remote ones are not, and what was
on its way may or may not have arrived.

### The other components

* `KeyRotation` numbers keys by their generation. `Rotate` is by hand, `AutoRotation` the
  timer, which rotates when due and then expires; `rotTold` counts the calls of `onExpire`.
* `Approvals`: looking at a request (`Look`) is what makes it expire; `aprLooked` remembers it.
* `RevocationGate`: `Cache` stores what a lookup yields, whatever is cached by then.
* `TokenBucket` has both limiters for one key: `CheckInMemory`, and `SendCheck` with
  `EvalScript` at the sender's time. Tokens are counted in units so that a tick refills a
  fraction of one.
* `RevocationLog` keeps `rlogLevels` and `rlogDirty` apart from the entries, as the code does,
  and takes heads and proofs from the cached levels; `AuditTrail` rebuilds at every add.
  Hashes are terms: equal only if built from the same leaves in the same way.
* `Tenants` has the map of organisations (`orgKey`) and that of keys (`keyOrg`) as the two
  maps they are.
* `ThresholdSignatures`: `AppendSignatures` by signers, `AddEntry` by whoever holds the
  credential (a bad or malformed signature, an unknown key, a copy of an entry).
* `OrgPolicy`: `Evaluate` is `evaluatePolicy` with its rules in order; `Check*Access` are the
  checks of the manifest, with one Boolean for each pattern match. `PolicyAssumption` types
  the manifests and policies as `CapabilityManifest` and `OrgPolicy` do.
* `WebhookDelivery`: `Emit` takes the matching subscriptions in the order of the map and
  posts to the first; `Attempted` is the rest of the loop after a try, whatever ended it
  (`Answered`, `FetchRejects`); `Wake` ends a backoff. A post stays in `net` until the
  subscriber receives it, also after `emit` gave it up. `signable` is false for an event that
  cannot be serialised or signed: that happens outside the `try`, so `emit` rejects.

## Runs

| Run | What it asks | Bounds |
|---|---|---|
| `HookBudget` | How far do the budgets overshoot; is the ledger the sum of the decisions, booked on their day? | 3 calls, 2 in flight, 2 agents (one capped), amounts 1–4 of which 2 and 4 cannot be rendered, 2 days |
| `HookScope` | Is every allowed spend backed by a verdict for itself under a pinned key, used once, and not signed after the key's revocation unless its date does not parse? | 2 calls, 2 pins (one with a `not_after` and a `revoked_at`), verdicts of every shape for any resource and amount, replayed at will |
| `HookOvershoot` | The README's "enforced against cumulative state per spend": **violated** | 3 calls, 2 in flight |
| `HookWindow` | "The window is bounded on both sides": **violated**, and with it the cutoff of a revoked key, which compares the same date | 1 call, a date that does not parse |
| `TimedAnswers` | The authority: one attempt per operation, claims kept, allow only from the hook, answers final, every request answered; is revocation immediate, does the band reach its threshold? Webhooks: is nobody skipped; are counts and retries right; does every emit end? | 2 requests with any operation, attempt, gate and band, 1 restart; 2 emits, 2 subscriptions that come and go, one filter, log of 1 |
| `AuthRetry` | "A failed/unknown attempt must not silently become a fresh payment": **violated**: charged after the deadline, submitted again, charged again | 2 submissions of one attempt, one hook call at a time |
| `NonceRedisRace` | "Mark as consumed (atomic ...)": **violated** | 2 verifications of one key |
| `Revocation` | Is staleness bounded by the life of a CRL or by the ttl, but for OCSP answers made for another request; is ALLOW backed by a document? | 2 checks of one credential of 7 kinds, 4 deployments, ttl 1, CRL life 1, 3 instants |
| `RevocationReplay` | The nonce "prevents replay of a cached response": **violated** | as `Revocation` |
| `InclusionProofs` | "Verifier can prove an ATC was revoked at time T": **violated** | 3 entries suffice |
| `Server` | The server: is an acknowledged revocation seen, does ALLOW leave a receipt, does a shutdown end? The challenge store in memory: one-time use, and that it implements `OneTimeNonce` | 2 requests of 7 kinds from 2 addresses, both kinds of store, 1 shutdown handler, 1 restart, 3 instants; 3 verifications, 2 nonces, 3 ticks |
| `Library` | One property or two of each component that shares no state with another | see below |

**Library.** `MCLibrary` declares the state of twelve components and a variable `focus` that
chooses one at the start; that one takes all the steps, so the behaviours are those of each
component alone, and the number of states is a sum and not a product. `MCTrustServer` does the
same with the server and the challenge store in memory, `MCTimedAnswers` with the authority
and webhook delivery. The specifications
(`RotSpec`, `TbSpec`, `VpSpec`, ...) are those the theorems are about.

| Component | Property | Bounds |
|---|---|---|
| Supabase store | `MarkedOnce`, `NullOnlyAfterExpiry` | 3 verifications of one row, 3 ticks |
| Key rotation | `OverlapKept` | 3 rotations, interval 2, overlap 3: two legacy keys overlap |
| Approvals | `LateOnlyUnseen` | 2 requests, ttl 0 or 2 |
| Cline gate | `PermitIsRecent` | 3 calls, ttl 2, time limit 1 |
| Token bucket | `BucketBounds` | 4 checks, burst 2, half a token per tick, scripts late by 1 |
| Transparency log | `HeadsCoverLog`, `ProvableWithSiblings` | 7 entries: every shape of an odd level, a head each 3 |
| Audit log | `TrailAnswers` | 8 receipts, 3 published roots |
| Organisations | `KeyOpensItsOrg` | 2 organisations, 3 keys |
| Pipeline | `AllowIsEarned` | 10 shapes of fields, each with 13 variants (one without dates), 7 contexts |
| Request limit | `UnderTwiceLimit` | limit 2, window 1, up to 6 counted |
| Threshold signatures | `QuorumStands` | 2 signers, 3 entries, 4 policies |
| Policy | `ChecksFollowPolicy`, `MoreTrustNeverStricter` | the default policies with and without overrides, 10 scores at and between their limits |

Why these bounds are enough to meet the interesting cases. A race in this code is between
two calls that share a sum, a claim, a nonce, a cache entry or a store; a third shows that
the overshoot counts calls and not pairs, and that a late call sees what the first two left.
Two days, and one instant more than a ttl, make every comparison of a date fall on each of
its sides. Smaller caps than the sum of the amounts make refusals and overshoots happen. With
a log of one entry every second emit trims it. Two credentials are beyond the time of a TLC
run in `Revocation`, where caches are shared between credentials only by the CRL; the
proofs hold for any number. `SYMMETRY` is used for the calls in `HookBudget`, `HookScope` and
`Revocation`, where no liveness is checked and no definition names a call. Every bound is a
constant of the module (`MaxTime`, `MaxClock`, `MaxInFlight`, `MaxRestarts`, `MaxRotations`,
`MaxEntries`, `MaxReceipts`, `MaxPublished`, `MaxCounted`, `MaxSigs`, `MaxLog` is the code's
own), or the size of a set.

The deadlock check is on but in `Library`, `Server` and `InclusionProofs`, where time and requests run out. The
other specifications have a step for the state in which all work is done (`Quiescent`,
`Settled`).

## Fairness

Safety needs none. Liveness is stated where the code has a timer or a loop:

* `EveryRequestAnswered` under weak fairness of `Deadline` alone: `Promise.race` with
  `setTimeout` (`spend514.mjs:184`). The services get no fairness, since the two
  fetches of the hook have no timeout.
* `EmitEnds` under weak fairness of `FetchRejects` (`AbortSignal.timeout(10000)`) and `Wake`
  (`setTimeout` in `sleep`). Subscribers get no fairness. An injected `fetchImpl` must honour
  the signal for this to apply.
* `ShutdownEnds` under weak fairness of `ServerTime`, `DrainEnds`, `HandlerRuns` and `Exit`: the
  clock, the polling loop of `shutdown`, its loop over the handlers and `process.exit`
  (`hardening.ts:64–86`). Clients, stores and signals get none. A handler that never ends is
  a choice of `HandlerRuns`, and the property says that this alone keeps a shutdown from
  ending.

In the runs that hold two parts each keeps the fairness of its own specification: that of the
server applies while it is the one that runs, that of requests and emits asks nothing of
those not begun.

A verification of the pipeline has no such property: `fetch` in `revocation.ts` has no
timeout, and a check whose source never answers does not end.

## Proofs

All theorems hold for every value of the constants that satisfies the named assumptions.

* **Hook, type** (`SpendHookProofs!TypeCorrect`): `TypeOK` is inductive.
* **Hook, ledger** (`SpendHookProofs!LedgerBalances`): `spentAll` is the sum of the allowed
  amounts, the days of an agent add up to what it was allowed (`BooksBalance`), and a step
  that changes a day books a call it allows, on the day it is (`BooksDated`). The sum over a set is a recursive
  function that removes one chosen element at a time; `SumAdd` shows that it does not
  depend on the choice, so that an allow adds its amount to the sums it belongs to and
  every other step leaves them alone.
* **Hook, budgets** (`SpendHookProofs`): `TotalOvershoot`, `DailyOvershoot`. The bound alone
  is not inductive, as nothing in it limits what open calls still carry. `BudgetInv`
  strengthens it with `Headroom`: the sum plus one step for each call in flight stays under
  the bound, where one of these calls may count with its own amount, under which it was
  admitted; the proof counts the calls in flight by cardinality. `SerialBudget`: with
  `MaxInFlight = 1` the total is never exceeded.
* **Hook, evidence** (`SpendHookProofs`): `BackedByEvidence`, `NoVerdictReuse`,
  `BandReached` by `EvidenceInv`, which says the same of calls still waiting for the
  revocation service; `RevocationIsImmediate` by `RevocationInv`, which relates the answers
  under way to the calls made after the revocation. `RevokedKeyAdmitsNothing` assumes that
  no two pins share a key id: `find` reads the first of them alone, and with two the
  statement is false. It excepts a verdict whose date does not parse, which no cutoff refuses.
  `BackedByEvidence` does not say that the verdict had not expired, for the same reason, and
  `BandReached` speaks of the band of the reply, signed or not. `WindowWhereDatesParse` proves `WindowBounded`, which `HookWindow`
  shows violated, for a verifier that signs no date which `Date.parse` cannot read: that is
  the whole of the gap.
* **Authority** (`SpendAuthorityProofs`): `AuthTypeCorrect`, `OneAttempt`, `AllowOnlyFromHook`,
  `ClaimsKept`, `FinalAnswers`. `OneAttemptPerOperation` is not inductive, because nothing in
  it ties a call to the claim map; `AuthInv` adds that a call of the current process that
  went to the hook still finds its own attempt and offer under its key (`ClaimHeld`).
  The hook's theorems are about a process that never dies. `AuthorityRunsHook` shows that
  the authority takes the hook's steps, restarts it, and does nothing else to it;
  `CrashInv`, the hook's `RevocationInv` and `BudgetInv`, survives a restart, which gives
  `BandReachedAcrossRestarts`, `RevocationAcrossRestarts` and `VerdictOnceAcrossRestarts`.
  Budgets are per life of the process (`BudgetPerLife`): the totals begin at zero again, so
  that `LedgerAgrees` is not among what survives.
* **Nonces** (`MemoryNonceProofs`): `MemoryOneTimeUse` and `MemoryKeepsPromise` (the refinement
  of `OneTimeNonce`) by `StoreInv`: a challenge that was accepted is marked as long as it
  could still be retrieved unexpired. Assumption: `Ttl <= Retention`; the code has five
  minutes and one hour, and with a longer ttl the theorem is false. Over Supabase
  (`LibraryProofs`): `DatabaseMarksOnce` by `SupInv`: a row keeps its expiry, and its mark,
  until it is deleted. `DatabaseNullIsLate` by `LapseInv`: while a challenge has not expired
  its row is there with the expiry it was issued with, so that whoever finds none is late.
* **Revocation** (`RevocationProofs`): `CheckTypeCorrect`, `CrlStalenessBounded`,
  `RecentAnswers`, `AllowIsBacked`. The inductive invariant is
  `Sound == TypeOK /\ Bookkeeping /\ Sources`: every document that is published, cached or under
  way is *sound*: a CRL that says good of a credential revoked since `t` has
  `next_update <= t + CrlLife`, and any other document that does was asked for by `t`, unless it
  answers another request (`own` is false), which happens under OCSP only. A step either stamps
  a document or moves it; soundness survives later revocations because they happen now.
* **Pipeline** (`RevocationProofs!AllowEarned`): for any set of credentials and contexts. The
  lemmas read the stages as sequences: a list whose first failure is a word none of its
  stages is called has no failure (`NoneFailed`), and a format that was detected has the
  fields its rule asks for (`Detected`). `PipeInv` keeps, for a suspended verification, that
  every stage before the checker passed.
* **Transparency log** (`MerkleProofs`): `HeadsCover`, `SiblingsProve`, `PromotedHaveNone`. `RlogInv` says that cached levels that
  are not dirty are those of all entries, so that a head is signed over the entries it
  counts; that a head exists for each multiple of `HeadEvery` follows from the remainder of
  the size at the last head. What remains is about trees, of any number of entries, whose
  levels, paths and climbs are recursive functions. A list of hashes that starts at an entry
  and ends at a node ends at an ancestor of the entry and has one step for each level at
  which the tree hashes that ancestor (`ClimbEnds`, downwards through the levels, as a term
  has one pair of children). So a list that leads to the root has as many steps as there are
  such levels (`LeadsCounts`). Without an odd last node above the entry the log's list
  follows the tree (`ClimbFollows`); with one it is too long, because the topmost odd level
  adds a step and none is ever missing (`RevocationPathLeads`).
* **Audit log** (`MerkleProofs!TrailAnswersExactly`): in a doubled tree every level hashes, and
  an odd last node has no step, so that the list is too short (`AuditPathLeads`). That equal
  roots mean equal lengths follows from the last node of each level, which ends with the
  last node of the level below, down to the last receipt (`SameEnd`).
* **Server** (`TrustServerProofs`): `RevocationSeen` by `SrvInv`: what was acknowledged is in the
  store, and a status that waits for the store and was asked after the acknowledgement waits
  for a remote one that holds the card (`Pinned`), which no end of the process takes away.
  `ReceiptOfAllow` compares the life in which an ALLOW was answered with the current one.
* **Webhooks** (`DeliveryProofs`): `NoneSkipped`, `ToldReceived`, `RetriesAfterFailure` by
  `DeliveryInv`, which ties the four books of an emit together: the attempts at a
  subscriber are over when the emit is through with it, `tries` of the current one, none
  beyond; the counts are those of the subscribers that are over; a post under way or
  received belongs to a try that was begun; an attempt that succeeded was received. `Keep`
  is a recursive function, and its lemmas say that it keeps elements, order and
  distinctness.
* **Policies** (`LibraryProofs`): `PolicyAndChecks` for any manifests and policies: the
  lemma `ReachingAllows` goes through the four orders of levels and shows for each kind of
  access what the higher level allows. `TrustHelps`: with the first range that fits decided
  by its least index, the default policies are monotone in the score, the gaps between
  ranges included.
* **Rotation, approvals, gate, organisations, threshold signatures** (`LibraryProofs`):
  `KeyOverlap`, `NoLateSurprise`, `PermitBounded`, `TenantKeys`, `SignersStand`. The invariants
  add when a key was replaced, when a cached or travelling permit was asked for, that each
  map is the inverse of the other; for signatures the lemmas count the entries that verify
  and the keys they stand for.
* **Limits** (`TrustServerProofs`, `LibraryProofs`): `LimitTwice`, and `ServerLimits` for the
  limit inside the server, by `LimInv`, which says of the log of admissions how much of it
  the counter of the current window stands for (`Counted`). `BucketHolds` by `TbInv`, the
  potential argument: what was admitted since any admitted check plus what the bucket holds
  is at most a full bucket and the refill since then. An expired key counts as a full bucket,
  which is right because the ttl is at least the time to fill one, if no script runs later
  than `TtlSlack` after it was sent (`EvalDelay <= TtlSlack`; the code has sixty seconds).

The library's induction theorems take an operator, which the provers cannot instantiate.
Where a proof needs induction over the length of a sequence or the size of a set it takes
the least counterexample instead (`HasLeast`, from the well-founded order of the naturals),
and the definition of a recursive function is unfolded once its existence is shown the same
way.

Only model-checked: liveness (`EveryRequestAnswered`, `EmitEnds`, `ShutdownEnds`), and the
Redis store, whose run shows a property violated.

## What the code does otherwise

Shown by runs: `HookOvershoot`, `HookWindow`, `AuthRetry`, `NonceRedisRace`,
`RevocationReplay`, `InclusionProofs` (see `findings`
in `PROJECT.json`). Met while modelling and not kept as runs:

*Bridge*

* `bridge.mjs:264` looks the grant up by agent alone, `:399` by agent and resource: the daily
  cap of an agent's second grant is never applied.
* `bridge.mjs:273` compares `total_usd` with all spends ever made; the window of the policy
  (`:190`) is not read.
* `bridge.mjs:309`: an answer that is JSON `null` makes `authorize` reject instead of deny;
  the authority takes it for a provider failure.
* `bridge.mjs:375`: a band outside the signed verdict counts when no signature is asked for.
* `spend514.mjs:125` calls the replay guard durable; it is a `Map` of the process, and a
  restart forgets every claim. The properties about claims speak of one life of the process.
* A call begun before its agent is revoked may be allowed and recorded after it: the service
  is asked once.
* `spend514.mjs:206` adds fields to the receipt after it was signed.

*Nonces, revocation, pipeline*

* `nonce-store.ts:150`, `:286`: a Redis answer without a result inside `consume` reads as "no
  challenge", and `verifyAndConsume` accepts when `consume` returns null; so does a
  Supabase row that expired between the two retrieves.
* `revocation.ts:478`: the `AUTO` case for an OCSP address is shadowed by `:475`.
* `verification-pipeline.ts:6` says "Unknown = DENY": the pipeline refuses `revoked` and
  `unknown` (`:340–349`), and an OCSP answer without a status, or with one that is none of
  the three (`revocation.ts:246` returns it as it came), is allowed under fail closed too.
* `verification-pipeline.ts:287`, `:294`: a card without an expiry date, or with one that does
  not parse, never expires, against "Expired = DENY"; the same with the maximum age.
* `revocation.ts:485` returns "unknown" when a credential declares no method, with
  `fail_closed_unknown: false`; the pipeline does not read that field and denies, where
  the comment says the inline flag decides.
* `revocation.ts`: an OCSP answer "revoked" leaves a cached "good" in place, a late older CRL
  replaces a newer one, and `next_update` of an OCSP answer is not looked at.
* `verification-pipeline.ts:320`: expiry is not looked at again after the await.
* `verification-pipeline.ts` has cases for `w3c-vc` in every extractor, and `detectFormat` never
  returns it.

*Server and gateway*

* `server/src/index.ts:211` builds a revocation checker and `:208` a `PoPManager` that no route
  uses: the gateway's check does not look at what the revoke route stored.
* `server/src/index.ts:313–316` take the minimum score and the allowed issuers of a check from
  the body of the request.
* `gateway/receipts.ts:6` says "Every ALLOW/DENY decision produces a signed receipt";
  `mcp-middleware` and the server make none for DENY.
* `server/src/index.ts:154`: when the database cannot be reached at the start, the server goes
  on in memory with a warning; revocations are then forgotten by a restart.
* `hardening.ts:21`: nothing constructs `GracefulShutdown`. Where it is, `process.exit` ends
  inserts of receipts that are under way, and a handler that never ends holds it up.
* The window of the request limit starts anew with the first request after it ended, so that
  a span of its length may see nearly twice the limit.

*Logs*

* In the audit tree an odd leaf is hashed with itself and has no step in its proof
  (`audit/src/index.ts:88`), so that receipts below it are reported as not included; in the
  transparency log (`InclusionProofs`) the proof of an odd leaf has the sibling of its parent
  twice. `ProvableWithSiblings` and `TrailAnswers` say for which entries proofs verify.
* `append` without the operator's key throws when a head is due, and has added the entry.
* `verifyIntegrity` of the audit log is false from the first entry after a published root
  until the next one.

*Rotation, organisations, approvals, policy, signatures, plugin, webhooks*

* The state of key rotation is in memory: a restart begins with a new key. The current key
  cannot be revoked.
* `multi-tenant/src/index.ts:136` says "The old key remains valid for verification (overlap
  period) until explicitly revoked via revokeOldKey()": `rotateCAKey` keeps no old key, and
  there is no `revokeOldKey`.
* An approval can be granted or denied after it expired, if nobody looked.
* `capability-graph.ts:116` promises policies like "filesystem read only, no shell", but the
  levels a policy requires are the least a tool must have, not the most: the strict default
  admits a tool that writes everywhere. `checkFilesystemAccess` never reads
  `filesystem.read`; `file_access` ranks above `all_env` and is refused sensitive variables
  that `all_env` may read; a denied capability of credentials is not looked at.
* `matchCapabilities` compares `max_spend_usd` and not `require_approval_above`, from which
  `checkPaymentAccess` refuses: a tool that meets a requirement may be refused payments that
  the requirement itself would allow.
* Scores between two ranges of a policy (7.5) are allowed; the strictest default never asks
  for an approval, because its minimum is above that range. An override replaces the
  thresholds, not the rules before them.
* `multisig.ts:12` says "Every signature must verify with the key it claims to be from": one
  that does not is left out of the count and fails nothing (`QuorumStands` speaks of the
  required keys and the quorum alone). The quorum counts entries and not keys, so that a copy
  of an entry counts twice.
* The gate of the plugin caches what arrives last: a late permit replaces a later refusal,
  for the life of an entry.
* `webhooks/src/index.ts:13` announces backoffs of 1 s, 5 s and 30 s; the third is never
  used. `attempt_number` is 0 in every entry, though `:223` says the caller sets it. An
  event is logged as delivered when one of several subscribers has it. Retries may make two
  events reach a subscriber in the other order. A subscriber that has left still gets what
  was emitted before.

## Not modelled

Signatures and canonical JSON are replaced by whether they verify; randomness by names
never drawn twice; wording, logging and HTTP status by the branch they lead to. Policy
files appear as normalised. Receipts are values without content. The hook's own keys and
`policy_sha256` never change. The patterns for paths, hosts and commands, and the scanning
of arguments, are one Boolean each. The read-only routes of the server
(health, metrics, key, verify, receipts) and its OCSP route, whose responder
`RevocationCheck` models, are left out, as are the content of an issued credential and the
audit table, a plain insert.

What is left of the repository is mostly not a state machine. Trust analysis, cryptography,
formats and command line are functions of one input over numbers and text; the ports and
the compiled `.js` beside each `.ts` repeat functions modelled here from the TypeScript;
`scripts/` writes and publishes files. Together they are the larger part of the repository's
lines, which is why the share of lines the definitions stand for stays small although the
components with behaviour are covered.

## Plan

Done, in this order: hook (budget, evidence, revocation), authority, nonce stores with
their abstract specification, revocation check, webhooks; then the library components, the
pipeline, the server with its shutdown, the logs, threshold signatures and policies; proofs
for all of these but the Redis store.

Next, where the code grows or the tools allow:

1. An abstract rate bound that both limiters and the server's counter implement.
2. The webhook dead letter queue once something adds to it; the gateway over a revocation
   checker once a route uses one, by composing `TrustServer` with `RevocationCheck`.
3. Events of one credential out of order at a subscriber, once the code promises an order.
