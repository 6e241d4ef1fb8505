# TLA+ models of openvc and openvc_ebsi

`openvc` is a Python library that verifies and issues Verifiable Credentials:
VC-JWT, SD-JWT VC, the W3C Data Integrity suites and mdoc, with the protocols
(OpenID4VP, OpenID4VCI), identifiers (DID methods), status lists and trusted lists
around them. `openvc_ebsi` adds the European Blockchain Services Infrastructure: its
trust chain, its registries and the client that reads them. This directory holds TLA+
models of the parts where order, time, failure, concurrency or a combination of rules
decides whether the answer is right, the TLC configurations that check them, and
proofs that TLAPS checks.

Arithmetic and encodings (signatures, canonicalisation, CBOR, ASN.1) have unit tests
and vectors; in the models a signature is the name of whoever made it, a hash is what
it is the hash of, and a document is a record of what the code tells apart in it.

## Running

    tlc -workers 2 -config Resolvers.cfg MCResolvers   # one run; see the table below
    tlapm EbsiHttpProofs.tla                           # the proofs of one module

`PROJECT.json` is the machine-readable index: the runs and their properties, for
every property a mutated definition that breaks it, the source lines behind every
definition, the findings, the hazards and the theorems.

## Inventory

Source paths are relative to `src/src/`.

| Component | State it keeps | Operations | Hard part | Correct when |
|---|---|---|---|---|
| Resolution cache, `openvc/cache.py` | an `OrderedDict` under a lock, shared by threads | `get`, `set`, `clear`, `cached_resolve`, `CachingDidResolver`, `batch_resolvers` | nothing is locked while the resolver runs: misses overlap, results arrive late | one entry per key, within bounds; what is served was published and is stale for a bounded time; only the right entry is evicted |
| Verification pipeline, `openvc/verify.py`, `aio.py`, `resolvers.py` | locals of a call, batch caches | `verify_credential`, `verify_many`, `verify_many_async`, the blessed resolvers | fail-closed combinations; keys and lists read at different moments; a schema credential verified inside another verification | accepted means every check the policy asks for was made and passed; one credential's failure is its own |
| Status lists, `openvc/status/` | bit arrays (issuer side) | pack, set, read, point, build, authenticate | bit order differs between the two kinds; pointers of many shapes; a host that swaps lists | a set bit is never missed, an unset one never seen |
| did:webvh, `openvc/did/did_webvh.py` | the log being replayed | `resolve`, `_replay`, entry proofs | hash chain, key rotation and pre-rotation over a log whose host may alter it | the accepted history was really written, version by version, by keys then in control |
| Other DID methods, `openvc/did/` | none | `resolve` | which document belongs to which identifier | the returned document is that of the DID asked for |
| Guarded fetch, `openvc/fetch.py` | none | one https read | the address checked must be the address used; a server that drips | only checked addresses are contacted; time and size are bounded |
| Proof suites, `openvc/proof/` | none | sign, verify, disclose | withheld disclosures, order of checks, key binding | nothing that matters can be withheld; an expiry is told only of a bound presentation |
| OpenID4VP, `openvc/openid4vp.py`, `jwe.py` | none | `verify_vp_token`, `verify_encrypted_vp_response` | replay across exchanges and origins, merged responses, options of credential sets | accepted means presented by its holder for this exchange, and a full answer |
| OpenID4VCI, `openvc/openid4vci.py` | the caller's nonce store | offers, metadata, `verify_credential_request_proofs` | two handlers consume one nonce; proofs that burn it | one issuance per nonce; a nonce is spent by genuine proofs only |
| EU trusted lists, `openvc/trustlist/` | locals of a walk | `walk_lotl`, `walk_lote` | one list of many fails or is replaced during the walk; caps | every anchor is vouched for from the pinned key; a failing list costs only itself |
| Relying-party certificates, `openvc/rp_cert.py`, `rp_registration.py`, `x5c.py` | none | access and registration certificates, match, scope of a request | claim paths with wildcards and two spellings; absent identifiers | a request that is let through asks only for what was registered |
| Schemas and type metadata, `openvc/schema.py`, `type_metadata.py` | none | validate, resolve a chain | signed schemas, `extends` chains | bounded and fail-closed |
| mdoc, COSE, CBOR, `openvc/mdoc.py`, `cose.py`, `cbor.py` | none | DeviceResponse, codecs | the session transcript of each origin | the device signed for this session |
| Keys, observability | none | signatures, spans, errors | | |
| EBSI HTTP client, `openvc_ebsi/http.py` | a response cache, the list's expiry | `get_json`, `get_bytes`, `probe`, `get_tnl_files` | retries, deadline, expiry during a sleep, rotating name resolution | nothing is sent past the expiry or the deadline; no address is forgotten |
| EBSI node client, `openvc_ebsi/node_client.py` | a health memo shared by threads | `run`, `check_health`, `NodeSession.get_json` | failover in the middle of a walk, walks that swallow errors, late verdicts | a value comes from one node; a failure is remembered; every run ends |
| Trusted Nodes List, `openvc_ebsi/nodes.py` | the caller's two accepted pairs | `verify_node_list` | a mirror in mid-release, crash between two writes, reissued versions, retired custodians | quorum, no rollback, no lock-out |
| EBSI trust chain, `openvc_ebsi/trust.py`, `verify.py` | locals of a walk | `verify_ebsi_badge`, `verify_trust_chain` | the registry changes and revokes during the walk; cycles | a trusted badge has a sound chain to an anchor |
| TIR adapters, `openvc_ebsi/versioning.py` | locals of a walk | `issuer_record` | a registry that answers anything: self-links, foreign links, holes | bounded, on one instance, complete |

How they interact. The pipeline calls resolvers that the caller injects and usually
wraps in the cache; `verify_many` wraps them in caches of its own for the length of a
batch. DID resolution and list resolution go out through the guarded fetch. The
OpenID4VP verifier runs the pipeline, or the SD-JWT and mdoc verifiers, on each
presentation. A wallet takes its registrars from a walk of trusted lists and judges
relying parties by them. On the EBSI side the node client runs the caller's walk (a
TIR adapter reading a record for the trust chain) on one node after another through
the HTTP client, which stops working when the Trusted Nodes List it was built from
expires.

## Modules

Each component module declares its parameters as CONSTANTS, with named assumptions
where a value matters, its state, one action per operation or per step between two
points where others may run, the properties, and next to a definition the mutants of
it. `MC*` modules give the constants values. Verifiers that are a row of checks, each
with its own error, are written with `Checks`: `FirstError` of a sequence of
`Check(holds, error)`, in the order of the code.

Proof modules that are about two components extend both, so the components of such a
pair share no name: TtlCache has `CacheInit`, `CacheNext` and `CacheSpec` where
EbsiHttpClient has `Init`, `Next` and `Spec`, and likewise `Tnl` in NodeList, `Tir` in
TirWalk and `Batch` in VerifyBatch.

**TtlCache** (`openvc/cache.py`). Threads call `cached_resolve`'s `resolve` over one
`TtlCache`. A call is cut at the clock read that `get` makes *before* it takes the
lock (`Begin`), the locked lookup (`GetHit`, `GetMiss`, which drops an expired
entry), the moment the origin is read (`Sample`, or `ResolveFails`) and the locked
`set` with its replacement and eviction (`Store`). `data` is the `OrderedDict`, as a
sequence. `Publish` changes the origin, `Clear` is `clear()`. `MaxResolve` is the
longest a resolve takes, which the fetch timeouts bound.

**EbsiHttpClient** (`openvc_ebsi/http.py`). The three readers over the one request
loop. `Gate` is the top of an attempt (expiry, deadline), `Open` the name resolution
with the choice of an address not yet tried, `Transport`/`Body`/`Status` the classes
of answers, `Wake` the end of a retry sleep with Retry-After cut to what is left of
the deadline, `GiveUp` the end of the attempts. One caller is enough: threads share
nothing but the response cache, whose interleavings are the subject of TtlCache.

**NodeClient** (`openvc_ebsi/node_client.py`). `Begin` asks the policy for an order
(any sequence it might answer, wrong ones included), `NoneLeft`, `Skip`, `OutOfNodes`,
`Take` are the head of the loop in `run`, `ProbeAnswer` the health probe,
`Read`/`ReadAnswer` a read of the walk, `WalkDone` the end of a walk which may have
swallowed errors, with the failover. The memo of verdicts is shared: `CheckHealth` and
`CheckAnswer` are `check_health` in another thread. A verdict past its expiry is
dropped when the clock moves; no reader of the memo could tell.

**NodeList** (`openvc_ebsi/nodes.py` and `get_tnl_files`). `VerifyNodeList` is the
verdict of `verify_node_list`, check by check with the error of each, `PairOK` the
rollback rule. Around it: the publisher, a mirror that while it lags serves any
published file for each of the four requests, the fetches, the caller that persists two
pairs in two writes, and a crash at any point of that. A document's SHA-256 is the
document.

**TrustChain** (`openvc_ebsi/trust.py`, `verify.py`). `BadgeProof`, then either `Single`
or the walk: `ReadRecord` with the first-eligible pickers, `VerifyAccreditation`,
`CheckAccreditationStatus`; `OwnStatus` last. `Change` and `Revoke` happen between any
two reads.

**TirWalk** (`openvc_ebsi/versioning.py`). The issuer response, the generator over pages
(`ReadPage`, `EndOfPage`) interleaved with its consumer (`NextItem`, `ReadRevision`),
against a registry that chooses each answer when it is asked. A URL is a page and the
contract address it names, if any; `Bound` is `_on_contract_address`, which refuses
another address and appends the configured one where a link names none, and `Instance`
is what a node makes of a URL: its default instance, if no address is named.

**StatusLists** (`openvc/status/`) holds operators, used by VerifyBatch: `StatusIndex`
(the rule for an index in each of the forms JSON may give it), where a status sits in
its byte, packing, setting and reading of W3C bitstrings and IETF token lists, the
shapes of `credentialStatus` (`ParseStatusEntries` is the set of the places that are
looked up) and of the IETF `status` claim, what an issuer builds, and the checks by
which a resolver accepts a fetched list as the one that was asked for. The issuer side
and the verifier side are modelled separately, as the code has them, so that the
verifier's reading is checked against the bits the issuer meant to set.

**VerifyBatch** (`openvc/verify.py`, `aio.py`, with `schema.py` and `status/`). A
verification is cut where it calls a resolver: key and proof, each status list, the
token, the schema, which for a schema credential starts the inner pass in the same
task. `Gate`, `Disposition`, `InnerPolicy` and `InnerGiven` are the fail-closed rules.
`verify_many` takes the credentials in turn over caches that do not expire;
`verify_many_async` has them all in progress at once, uncached. A call fails with an
error of the library's (the credential's own failure) or with a foreign exception,
which no handler of either batch function catches. A schema may be pinned by a digest
(`PinHolds`), and only a JOSE credential with an https issuer has its key looked up in
issuer metadata (`ByMetadata`). Before the batch the issuers set the
bits that are to be set when it is called, one at a time in any order (`SetBefore`, until
`Call`): the bytes a verifier reads are the ones that `set_status_bit` and `set_status`
wrote. They rotate keys and set bits meanwhile too (`Rotate`, `SetStatus`); a list's host
may serve another list or an unsigned one. `marks` is what the issuers mean the bits to
say, and the properties compare with that, never with the bytes.

**GuardedFetch** (`openvc/fetch.py`). One fetch: the checks of the URL, the lookup whose
every address must be routable, the connection pinned to the first, the status and the
body in pieces against a deadline and a limit. The DNS may answer differently each time.

**DidWebvh** (`openvc/did/`: `did_webvh.py`, `did_web.py`, the registry) extends
GuardedFetch. `Ask` parses the identifier and starts the fetch. Until the body is there
the controller writes versions (`ControllerWrites`), keys are stolen, others write, and
the host alters what it serves: drops, repeats, swaps or edits lines and makes the
hashes good again. `ReplayLine` is the body of the loop in `_replay`, check by check;
`ReplayEnds` its end; `WebDocument` the did:web lane. A log of more than `MaxLogEntries`
lines is refused (`Parses`), and a line that is no JSON object is one whose `parameters`
are not readable. The SCID of the DID asked for is compared with nothing, as in the code.

**DidHistory** is the abstract specification: a history grows by versions that were
written after exactly the versions before them by a key then in control, is refused, or
is resolved unless deactivated. It knows no hashes, lines or proofs.

**SdJwt** (`openvc/proof/sd_jwt.py`) holds operators: what `issue` lets an issuer make
disclosable, how presented disclosures are put back (nesting, orphans, duplicates,
claims that must not be disclosed), the rules for typ, issuer and context, times,
audience and the Key Binding JWT, in the two orders the code has.

**Openid4vp** (`openvc/openid4vp.py`, `jwe.py`, `proof/vp_jwt.py`, `mdoc.py`) extends
SdJwt. Issuers issue, holders present SD-JWTs, VPs and mdocs for the followed exchange
and for others, the clock moves, and `Receive` hands the verifier any token made of
what exists, stripped, embedded, merged, under a key that is no query's id, or encrypted
to the right key or another. An audience is a client_id or an `origin:` and never both.
`VerifyNext` verifies one query of it; `Complete` is the completeness rule of queries and
credential sets. `Asserted` is what an issuer asserts in an SD-JWT, in the clear or as a
disclosure: `WithholdingHidesNothing` is about all of it, so that an expiry or a status
that `issue` let an issuer make disclosable would violate it; of a status, where the call
looks statuses up or requires them. The claims have their whole window (`nbf`, `exp`,
`validFrom`, `validUntil`, a future `iat`), as have the Key Binding JWT and the VP-JWT.

**Openid4vci** (`openvc/openid4vci.py`). Wallets read offers and metadata (`Discover`),
take nonces and make key proofs, with the slips a wallet may make; any request made of
proofs that exist may arrive, any number of times. `Receive` is everything
`verify_credential_request_proofs` does before `check_nonce`, `ConsumeNonce` the atomic
call into the store: between the two another handler may run.

**X509**, **TrustLists** (`openvc/trustlist/`), **RpRegistration** (`openvc/rp_cert.py`,
`rp_registration.py`) and **WalletTrust**, which composes them. TrustLists is the two
walks over lists that are republished, withdrawn and replaced while they are read:
authentication against the pinned or pointed keys, profile, selection of services,
staleness against the instant of the call, caps, problems. A walk remembers the root
list it read, whose pointers it has to account for. RpRegistration is the two
certificates and the two checks that join them with a request. WalletTrust adopts the
anchors of a finished walk (`Adopt`) and answers requests with them (`Answer`); the
library has no such loop, each step of it is one of the library's calls.

## Runs

The runs that pass. Times are for two workers. Three runs hold two components each that
share nothing: a variable `followed` of the MC module says which of the two a behaviour
is about, and the other one stays in its initial state.

| Run | Module, cfg | What it shows |
|---|---|---|
| `registry` | MCRegistryReads, RegistryReads.cfg | TrustChain: every registry of near misses, one change or revocation during the walk: `SoundChain`, `NothingRevokedIsTrusted`, `EveryBadgeEnds`. TirWalk: a registry that answers anything, and an honest one whose last page links to itself: every page and revision is read on the configured instance, also where a link names none (`StaysOnInstance`), `HonestIsComplete`, `EveryWalkEnds`. 2 minutes. |
| `nodes` | MCNodeClient, NodeClient.cfg | A caller walks over three nodes, under every order a policy may give, while another thread probes them. A value comes from one node whose every read was answered (`OneNodePerValue`); a failed node costs no other request for `health_ttl_s` unless a probe spoke for it later (`FailureIsRemembered`); `EveryRunEnds`. 1.75 minutes. |
| `node_list` | MCNodeList, NodeList.cfg | EbsiHttpClient: every kind of read and class of answer. Nothing is sent or served once the list has expired (`NothingPastExpiry`), nothing is started past the deadline (`DeadlineHolds`), every address of a host gets its turn although the resolver rotates (`ReachesEveryAddress`), `EveryReadEnds`. NodeList: rotations, reissued versions, a custodian listed twice, a mirror in mid-release and crashes between the two writes. `SignedByAQuorum`, `NeverRollsBack`, and `CatchesUp`: a caller that lagged or died comes to hold the newest list once publishing settles. 1.75 minutes. |
| `resolvers` | MCResolvers, Resolvers.cfg | DidWebvh with GuardedFetch: the replay implements DidHistory (`ReplaysAHistory`); past a commitment a takeover of the controller's log needs a committed key (`TheftNeedsACommittedKey`); a lawful log is not refused and resolves to its own document (`LawfulLogsResolve`); the fetch contacts only checked addresses (`ContactsOnlyChecked`) and reads a bounded body (`ReadIsBounded`). TtlCache: two threads, three keys, room for two. A superseded version is served for at most the TTL plus one resolve (`StaleAtMostTtlPlusResolve`); write order is expiry order (`OldestExpiresFirst`); a live entry leaves only by `clear` or as the soonest to expire of a full cache (`LosesOnlyTheOldest`). 1.25 minutes. |
| `batch` | MCVerifyBatch, VerifyBatch.cfg | Batches of two in both modes over status lists packed bit by bit. What is accepted meets the policy (`AcceptedIsSound`), schemas included (`SchemaIsVouchedFor`); what is rejected has a flaw of its own (`RejectionsAreOwn`); `verify_many` asks for nothing twice (`ResolvedOnce`). |
| `vp` | MCOpenid4vp, Openid4vp.cfg | One exchange in every format. What is accepted was presented by its holder for this exchange (`PresentedByItsHolder`) and is a full answer with nothing riding along (`AnswersTheQuery`); no choice of disclosures hides an expiry, nor a revocation where statuses are looked up or required (`WithholdingHidesNothing`); an expiry is told only of a bound presentation (`ExpiredMeansBound`). 3 minutes. |
| `vci` | MCOpenid4vci, Openid4vci.cfg | Two wallets, two handlers, one store. `OneIssuancePerNonce`; a nonce leaves the store for genuine proofs only (`OnlyProofsSpendANonce`); N credentials mean N proven keys (`EveryKeyIsProven`); a wallet that keeps to the rules is refused only because its nonce was spent by an accepted request (`HonestRequestsAreServed`). 1.5 minutes. |
| `lists` | MCWalletTrust, WalletTrust.cfg | Both walks and a wallet that uses them. `AnchorsAreVouchedFor`; a finished walk accounts for every list (`EveryListIsAccountedFor`); a party is answered only on the word of a listed registrar about that very party (`ServedOnlyIfListed`); every value a request may select was registered, under the constraints that the request names (`ReleasedOnlyAsRegistered`). 1.5 minutes. |

Each property has a mutant in `PROJECT.json`: a definition changed as a plausible
mistake would change it, under which the same run finds the property violated.

Deadlock is checked except where a system really may stop: a bounded clock, or one
badge, one walk, one exchange, one resolution that is over.

The runs that find a disagreement between the code and its documentation:

| Run | What the documentation says | What happens |
|---|---|---|
| `lists_abort` (`NeverAborts`) | a list that cannot be used is recorded among the problems, "never aborting the walk" (`trustlist/consume.py:10`) | a correctly signed national list whose `NextUpdate` has no time zone is parsed to a naive datetime; `_expired` (`consume.py:219`) compares it with an aware one, and the `TypeError` leaves `walk_lotl` with the anchors of all the other lists. The pool of this run has no such root list, where it would happen before any pointer is followed |
| `lists_meta` (`PooledPathsAreRegistered`) | "every pooled path is registered for every credential the query can return" (`rp_registration.py:1077-1079`) | `_meta_covered` (`rp_registration.py:1034`) compares the constraints that the query has; one that only the registered entry has is not looked at, so a query that leaves it out also selects values of credentials outside it |
| `webvh_scid` (`GenesisIsTheDids`) | the SCID is the hash of the genesis and "a forged genesis cannot keep the same SCID" (`did/did_webvh.py:14-16`) | `_replay` compares the SCID that the genesis declares with the hash of the genesis, and the id of the last state with the DID (line 377); the SCID in the DID is compared with neither, so a log with another genesis resolves if its last state has the id asked for |
| `cache_ttl` (`StaleAtMostTtl`) | "the TTL is exactly the window a revoked credential can still verify as valid" (`cache.py:121-122`) | the entry lives a TTL from the `set` (`cache.py:134`), which comes after the resolve; what is superseded during the resolve is served longer. `StaleAtMostTtlPlusResolve` is the window there is |

In the `lists` run a walk that ends so is in state "raised", of which the other
properties claim nothing. A log with a replaced genesis is outside
`TheftNeedsACommittedKey`, which is about takeovers of the controller's own log.

### Observations

Met while modelling; none of them lets something be accepted that should not be,
within what the modules model, and no run is devoted to them.

* A probe answered late writes a healthy verdict over a newer failure;
  `FailureIsRemembered` exempts exactly this. It costs one request.
* A `max_nodes` that is miscounted would still end every run: `EveryRunEnds` is about
  progress, not about the number of nodes asked.
* The trust-chain walk takes the first eligible accreditation of a record and does not
  come back to a second one, so a badge that has a sound chain may be refused.
* `resolvers.py:30` says that `verify_many` "and its async twin" deduplicate
  resolutions; `verify_many_async` does not (`aio.py:205` says so), so `ResolvedOnce` is
  stated of `verify_many`.
* With neither a status resolver nor `require_status`, which is the default of
  `verify_vp_token`, a declared status is passed over, as its docstring says
  (`openid4vp.py:49-55`): a revoked credential is then accepted.
* The device signature of an mdoc covers the session transcript, the docType and the
  device's namespaces (`mdoc.py:490-495`), not the document: of two documents of one
  docType that are bound to one device key it does not say which was presented.
* In `walk_lotl` a `NextUpdate` that is no date parses to None and never expires.
* The freshness of a key proof or a Key Binding JWT is the one its own `iat` claims.
* After every address of a host has been tried the EBSI client may come back to the one
  that has just failed.

### Bounds

A bound is a CONSTANT with `Max` in its name, or a finite set.

* `resolvers`, the cache: one key rotates and two do not, with room for two entries:
  eviction, refresh and expiry all happen to the same key. A TTL and a resolve of 1 with
  a clock to 3 let a value be fetched, superseded, stored and expire with one unit to
  spare.
* `node_list`, the client: three attempts over two addresses is one more than there are
  addresses, so the second round is reached. Expiry at 3 and a budget of 2 on a clock to
  4 let each fall before, during and after any sleep.
* `nodes`: with `MaxNodes` 2 of 3 nodes the budget ends before the list does; a verdict
  of 1 tick expires within the run, and the list expires at the end of it. One read per
  attempt is enough to lose one.
* `node_list`, the list: two versions of each list are what a rollback needs; a third
  adds states and no new relation between stored, offered and newest. Failures and
  crashes happen only while the mirror lags, since afterwards the caller must be able to
  finish.
* `registry`, the chain: four DIDs give a chain of three links, a cycle and a dead end;
  depths 2 and 3 fall one short of it and just reach it. The catalogue has one
  accreditation per reason for refusal; one record may hold two. A record that lists
  nothing or one accreditation twice is not there at first and comes about by a change.
* `registry`, the walk: three pages and a cap of three pages and five items: both caps
  are met.
* `batch`: pairs are enough for one credential to disturb another. The catalogue holds
  at least one credential that fails at each stage. Lists have 12 statuses in two
  bytes, tokens two bits per status, so that indices fall on both ends of a byte and
  just past the list. One change and one fault per batch keep cause and effect apart.
* `vp`: presentations are for the followed exchange, another session, another verifier
  with the same nonce and another origin of this one: each differs in one thing. The
  catalogue of calls bounds, per call, how many presentations are made, two at most
  where a merger needs two, and says whether wallets slip (a signature or a window that
  is not right), so that slips are tried without the other variations.
* `vci`: two handlers and two nonces let two requests race for one nonce while the
  other is free; batches of two are the smallest that can mix. A maximum age of 0 on a
  clock to 1 has both sides of the edge.
* `resolvers`, did:webvh: three lines are a genesis, a rotation under a commitment, and
  one more after it; three is also the most a resolver takes. One stolen key, one
  alteration. A body limit of 2 units and a timeout of 2 ticks are both met and passed
  by one.
* `lists`: two pointed lists with a cap of two, where a third pointer repeats one. One
  replacement while the walk is under way. Certificates, lists and requests each have a
  variant per rule.

### Fairness

* `node_list`, the client: the loop of a call and the clock advance (`WF`): each
  blocking step of `_request` has a timeout, so it returns.
* `nodes`: each step of a run and of a health check is taken: the reads are the client's,
  which end. The walk is the caller's code; `MaxReads` bounds it.
* `node_list`, the list: the caller retries and the mirror eventually catches up
  (`TnlFairSpec`). Without the second assumption a mirror may serve old files for ever,
  and the code can only refuse them. The publisher is under no fairness: `CatchesUp`
  speaks of behaviours in which it settles, on a list that is newer than every other and
  not expired.
* `registry`: weak fairness of the verification's own steps: every call of a
  resolver ends, in an answer or an exception. The registry and the issuers are under
  none.

The other runs check safety only.

## The refinement

`resolvers` checks `DidHistory!Spec` of DidWebvh under the mapping given there:
`written` is what the controller and others wrote (each version with the whole history
before it and its author), `history` the versions of the lines replayed so far,
`outcome` the state of the resolution. A replay step maps to `Extend`, which demands
that this version was written after exactly these versions by a key then in control, or
to `Refuse`; the fetch, the host's alterations and did:web lanes are stuttering. That
the hash chain, the version numbers, the times and the proofs of the log together amount
to the abstract rule is what is checked, and what `DidWebvhProofs` proves for logs of
every length. Whose history it is, DidHistory does not say: that the genesis is the one
the DID names is `GenesisIsTheDids`, which does not hold.

## Proofs

A run checks one small instance; a theorem holds for every value of the constants that
meets the named ASSUMEs of its module, which TLC evaluates in every run. Every invariant
and every action property of a passing run is a theorem.
Each component has an inductive invariant, one lemma per action that the action preserves
it, and the properties follow from it.

| Module | About | Theorems (property of the run) |
|---|---|---|
| `EbsiHttpProofs` | TtlCache | `CacheTypeCorrect`, `NoDuplicateKeys`, `NeverOutgrows`, `WriteOrderIsExpiryOrder` (`OldestExpiresFirst`), `OnlySuccessesServed`, `StalenessBound` (`StaleAtMostTtlPlusResolve`), `EvictionIsFair` (`LosesOnlyTheOldest`) |
| | EbsiHttpClient | `TypeCorrect`, `NothingOutlastsTheDeadline` (`DeadlineHolds`), `NothingIsSentPastExpiry` (`NothingPastExpiry`), `AttemptsGoRound` (`ReachesEveryAddress`) |
| `EbsiNodesProofs` | NodeList | `TnlTypeCorrect`, `AcceptedListHasAQuorum` (`SignedByAQuorum`), `StoredPairsNeverRollBack` (`NeverRollsBack`) |
| | NodeClient | `TypeCorrect`, `ValuesComeFromOneNode` (`OneNodePerValue`), `MarkedNodesAreSkipped` (`FailureIsRemembered`) |
| `TrustChainProofs` | TrustChain | `ReturnedChainsAreSound` (`SoundChain`), `RevokedBeforeIsNotTrusted` (`NothingRevokedIsTrusted`) |
| | TirWalk | `WalksStayOnInstance` (`StaysOnInstance`), `HonestRegistriesAreReadWhole` (`HonestIsComplete`) |
| `CredentialProofs` | Openid4vci | `ANonceBuysOneIssuance` (`OneIssuancePerNonce`), `NoncesAreSpentOnProofs` (`OnlyProofsSpendANonce`), `BoundKeysAreProven` (`EveryKeyIsProven`), `HonestWalletsAreServed` (`HonestRequestsAreServed`) |
| | VerifyBatch, StatusLists | `AcceptanceIsSound` (`AcceptedIsSound`), `SchemasAreVouchedFor` (`SchemaIsVouchedFor`), `RejectionsAreJust` (`RejectionsAreOwn`), `AnswersAreAskedOnce` (`ResolvedOnce`) |
| `Openid4vpProofs` | Openid4vp, SdJwt | `PresentationsAreBound` (`PresentedByItsHolder`), `ResponsesAnswerTheQuery` (`AnswersTheQuery`), `WithholdingIsInVain` (`WithholdingHidesNothing`), `ExpiryIsToldOfTheBound` (`ExpiredMeansBound`) |
| `DidWebvhProofs` | DidWebvh, GuardedFetch | `ReplayImplementsHistory` (`ReplaysAHistory`), `TakeoverNeedsACommittedKey` (`TheftNeedsACommittedKey`), `LawfulLogsAreResolved` (`LawfulLogsResolve`), `OnlyCheckedAddressesAreContacted` (`ContactsOnlyChecked`), `TheBodyIsBounded` (`ReadIsBounded`) |
| `WalletTrustProofs` | TrustLists, RpRegistration, WalletTrust | `TrustIsVouchedFor` (`AnchorsAreVouchedFor`), `WalkAccountsForLists` (`EveryListIsAccountedFor`), `PartiesAreListed` (`ServedOnlyIfListed`), `RequestsAreRegistered` (`ReleasedOnlyAsRegistered`) |
| `ChecksProofs` | Checks | lemmas only: a non-empty set of numbers has a smallest element, a bounded one a largest; a row of checks ends with "ok" exactly if each of its checks holds, and otherwise with the error of one that fails; the same of two rows in a row |

**TtlCache.** Assumption: `CacheAssumption`, of which only `MaxEntries >= 1` restricts
callers. That evicting the *first* entry is right needs the order of the entries; the
order after a write needs that no entry expires later than `now + Ttl`; the staleness of
what is served needs to know how old a value may be while it is still in a thread's
locals. `CacheIInv` conjoins:

* `DataOK`: the entries are in order of expiry, have distinct keys, and each was
  published, expires at most `Ttl` from now, and, if superseded, expires at most
  `Ttl + MaxResolve` after it was;
* `CallOK`: a thread's clock value is not in the future, a miss is at most
  `MaxResolve` old, and a fetched value was current when the miss was found;
* `ServedOK`: the same bound for the last hit.

The sequence lemmas say what `RemoveAt` and `Tail` leave of a sequence: a *thinned*
one, in the old order, and thinning preserves `DataOK`. `EvictionIsFair` is an action
property: its proof takes the three ways an entry can go (expired lookup, replaced,
evicted) from the same invariant. `NoDuplicateKeys`, `NeverOutgrows` and
`OnlySuccessesServed` are proved only.

**EbsiHttpClient.** `HttpAssumption`; `AbsenceAssumption` (None is no instant and no
outcome); `HorizonAssumption`: the bound of the model's clock lies past the expiry,
since the bound cuts a sleep short, which the real clock does not; and
`ResolverAssumption`, the condition under which an address is promised its turn: the
resolver orders its answers as it likes and keeps to one set. The invariant follows a
call through its loop. `Paced`: past the gate, the clock was read before the expiry and
after the last sleep; at the gate, the sleep has been slept out or the gate refuses.
`InTime`: what the deadline allows at each place. `Rounds`: either every request so far
went to an address of its own, and these are what `tried` holds, or every address has
had its turn; the cardinality in the property follows from that. Several callers share
the cache and the clock, so the theorems cover what the run's single caller does not.

**NodeClient.** `NodeClientAssumption`, `NoneIsNothing`. `ThreadsOK`: the attempt of a run
has heard nobody but its node, and its `broken` flag is exactly what the session noted.
`MemoOK`: while a failure is remembered the memo holds a bad verdict for the node that
lasts at least as long. Both properties are action properties that follow from these.

**NodeList.** `NodeListAssumption`, `AbsentIsNoDocument`. `TnlIInv` adds to the type
that what was fetched was published, file by file in the order of the four requests, and
that a result waiting to be persisted may replace *each* stored pair: the crash between
the two writes then costs nothing. The quorum counts different people because a key list
with a repeated key is refused (`SignersAreDistinctPeople`).

**TrustChain.** `TrustAssumption`, `AccreditationAssumption` and `RegistryAssumption` say
what an accreditation and a registry are. `WalkOK` describes the walk on its way up:
the hops so far end at the DID whose record is next, which is none of theirs, each has
used up one of `max_depth`, and every hop has what `SoundChain` and
`NothingRevokedIsTrusted` ask. `RegistryOK` relates the registry, which changes during
the walk, to what it has held since the call.

**Openid4vci.** `VciAssumption`; `AbsenceAssumption` (None and Bad are no nonce, key,
number or session); `EndpointAssumption`, used for `HonestWalletsAreServed` only: the
endpoint is configured for the kind of proof its wallets make. First, a proof that
verifies was made as it is (`ChangedBreaksSignature`: whoever changes it leaves a
signature over something else), and a request that passes has distinct keys and one
nonce (`Good`). `IInv` says that of what the handlers hold between the verification and
the store, of what was served and of what was spent; and that a redeemed nonce is
neither in the store nor still to be handed out (`StoreOK`), which is why two handlers
cannot both consume it. `JInv` adds for honest wallets that a session's nonce, and that
of every proof signed without a slip, is in the store or was redeemed.

**DidWebvh** with **GuardedFetch**. `WebvhAssumption`, `FetchAssumption` and
`VersionAssumption` (a genesis has the placeholder where its SCID is to stand, no later
version declares one). `FetchOK` is the guarded fetch. `LogOK`: every line whose proof
is good was really written, with the whole history before it; a line the host edited
has a proof over other bytes; an unaltered log is a hash chain. `ReplayOK`: the lines
accepted so far are a chain, each signed by a key in control after those before it, and
the locals of `_replay` are what is in force after them, in the words of DidHistory.
From a good hash chain and `written` follows that equal identifiers mean equal
histories, which is the step from hashes to the abstract rule; then each action is
shown to be a step of DidHistory or a stutter. `TakeoverNeedsACommittedKey` reads the
commitment off the same invariant. `LawfulLogsAreResolved` needs `JInv`: the controller
kept to the rules line by line, and the replay's witness flag and time are those of the
last line.

**TirWalk.** `TirAssumption`: the kinds of links are different things and the caps are
positive. `TirIInv` says of a walk with a contract address not only what it has requested
but that the page it reads next names that address, which is where a link that is followed
as it stands would show. `HonestIsComplete` is about a registry that `HonestAssumption`
describes without recursion: a sequence of attributes, of pages without repetition, and for
each page where it ends among the attributes, within the caps. `CompleteIInv` places a walk
that began at the first page: n pages read, which are the first n; what it has collected is
the number of attributes in the record; what is left of the page reaches to where the page
ends; a link leads to page n + 1, and from the last page to itself or nowhere. Neither cap,
the total nor the pages seen can then end it early.

**VerifyBatch** with **StatusLists.** `BatchAssumption`; `ListAssumption`: a list fits into
what a verifier inflates, and its issuer gives each credential an index of its own;
`RefusedAssumption` (a refusal is no list, byte or number); `CredentialAssumption` and
`CallAssumption`: what a credential, a policy and the hosting of a list are. The proof has
three layers.

* Bytes. A byte is the sum of its 8, 4, 2 or 1 fields (`Byte`), for each width the code
  allows; reading a field gives that summand and writing one changes no other, so that
  after `set_status_bit` or `set_status` the status at each index of the list reads as
  before but for the one that was set, whatever the bit order. `BytesOK` follows: at every
  index that a list has room for, its bytes read as what its issuer means (`marks`), and
  as 0 where no credential has a status.
* Answers. `CacheOK`: what a resolver answered, and the cache of a batch kept, is a key
  published since the call, or an authentic list that shows every bit that has been set
  since before it; while nothing changes it is what the origin would say now.
  `OnceOK`: what has been fetched is what is cached, once each.
* Stages. `TasksOK` says of every verification at each place between two calls what has
  been established (`ProvedOK` past the key, `W3cOK` while the entries are gone through,
  `W3cDone`, `IetfDone`), for the outer pass and for the inner pass on a schema credential,
  which also knows that the outer one has come this far (`InnerRole`); and of one that is
  over, that an accepted credential is `Whole` and a rejected one not `Flawless`. Soundness
  and its converse are carried through the same stages, which is why each of them is an
  equivalence where it can be. `WorldOK` relates the keys and bits to those of the call.

The lemmas of the stages say, of each way a stage may end, that the task *lands* in a state
of this kind; the lemmas of the actions put them together, and an issuer's step is shown to
disturb no task.

**Openid4vp** with **SdJwt.** `ExchangeAssumption`, `SdJwtAssumption`, and
`CatalogueAssumption`: the kinds of credentials are told apart by their fields. First, what
may arrive: every presentation in a token, after stripping, embedding and merging, is made
of what somebody presented (`Arrived`, with one case per format), so that what its checks
find signed for this exchange was presented for it (`PresentedBy`). Then rows of checks:
`Cascade` and the two orders of the SD-JWT verifier are concatenations of rows, and a row
that ends well had each check hold. `VpInv` has this of what was made, of each entry still
to be verified and of each result (`ResultOK`), that the ids answered and left are always
complete, and what a verdict of "expired" presupposes (`HeldHere`). For the withholding
property, `IssuedOK`: what `issue` asserts of expiry and status it leaves in the clear, so
the verifier sees it whatever is withheld.

**WalletTrust** with **TrustLists** and **RpRegistration.** `ListsAssumption` and
`NoneIsNoSelection` say what a list and a selection are, `WalletAssumption` what a request
is. `WalkOK`
describes a walk: the root it holds was served, signed and in force; each pointer is passed
over by rule, reported, taken, or still to do; each location visited is reported or taken;
and what it trusts is `Lawful`, which is the property. Since lists are replaced while they
are read, all of this is about the history of what was fetched and not about what is served
now. `AdoptedOK` hands that to the wallet, `AnswerOK` is what an answer given meant. That a
registered path that covers a requested one selects at least as much of every credential
(`CoveringSelectsMore`), wildcards and lengths included, is the lemma behind
`RequestsAreRegistered`; it speaks of the constraints that a request names, without an
assumption on how many a format has.

### What is only model-checked

The liveness properties (`EveryReadEnds`, `EveryRunEnds`, `CatchesUp`, `EveryBadgeEnds`,
`EveryWalkEnds`): liveness under fairness and ENABLED are outside the prover's reach.

No module has a RECURSIVE operator.

## Limits of the models

* One clock stands for wall and monotonic time; a wall clock that is set back is
  not modelled.
* `NodeList` has one process that persists. Two processes over one store are the
  caller's to serialise; the repository has no code for it. Parse failures of the
  four files are one outcome, before any check.
* `TtlCache` with `max_entries = 0` raises `KeyError` in `set`; the assumption
  excludes it.
* `VerifyBatch`: SD-JWT and VC-JWT are one format ("jose") there, since SdJwt has the
  details; a credential has at most one schema, which a digestSRI fits or not; the batch
  caches are smaller than their `max_entries`. A credential accepted during a revocation
  may have been read just before it: the property speaks of bits set before the call.
* `Openid4vp`: the verification of a W3C credential inside a presentation is one check,
  whose stages are VerifyBatch's. Key agreement of the JWE is "the right key or not".
* `Openid4vci`: the store's `check_nonce` is atomic, as its contract asks, and the nonces
  in it do not expire.
* `DidWebvh`: JCS, multibase and multikey decoding are not modelled; a hash has no
  collisions.
* `GuardedFetch`: the time the response headers take is not modelled; the code bounds each
  socket read of them and not their sum, so `ReadIsBounded` is about the body.
* `TrustChain`: a record is read when it is asked for. The response cache of the HTTP
  client (`http.py:586`, 300 s by default) can make that a moment before the call;
  `SoundChain` is about clients without it, or counts its TTL as part of the call.
* `X509`: path validation is the `cryptography` library's and is modelled from how it
  is called.

## Not modelled

* The Data Integrity suites (`proof/data_integrity.py`, `di_ecdsa_rdfc.py`, `di_jcs.py`,
  `ecdsa_sd.py`, the context validation), CBOR and COSE codecs, key handling: stateless
  data transformations, where what could be wrong is the bytes. TLC has nothing to
  explore there; vectors and property tests have.
* `type_metadata.py`'s `extends` chain and the evaluation of a JSON Schema; did:key and
  did:jwk; the issuer metadata of `jwt_vc_issuer.py`; `TirV4`, which reads one response.
* Observability and exception classes.

## Plan

Done: all the modules above, and the proofs of the safety properties of all the passing
runs. Left for whoever extends the project:

1. Composition: NodeClient over the outcomes of EbsiHttpClient with the expiry that
   NodeList delivers.
2. TypeMetadata (the bounded `extends` chain) and several schemas of one credential.
