---------------------------- MODULE VerifyBatch -----------------------------
(***************************************************************************)
(* openvc.verify and openvc.aio: the stages of verify_credential, run over *)
(* a batch by verify_many (one credential after the other, over caches     *)
(* that live as long as the batch) and by verify_many_async (all at once,  *)
(* with no cache).                                                         *)
(*                                                                         *)
(* A verification is cut where it calls out: the issuer's key, each status *)
(* list, the schema.  What it computes between two calls is one step with  *)
(* the call before it.  Issuers rotate keys and set status bits meanwhile. *)
(*                                                                         *)
(* A credential is what the stages tell apart: its envelopes, its issuer   *)
(* and the key that signed it, whether it has expired and carries the      *)
(* expected types, its two kinds of status, and its schema.                *)
(***************************************************************************)
EXTENDS StatusLists, FiniteSets

CONSTANTS
  Credentials,   \* the credentials a batch may hold, by name
  Policies,      \* the policies it may be called with, by name
  Worlds,        \* the status bits that may be set when it is called and how
                 \* the lists are hosted, by name
  Arguments,     \* the calls: names for these, the mode, the resolvers given
  Issuers,       \* DIDs and https issuers
  Lists, Tokens, \* W3C status list URLs, IETF status list token URIs
  Schemas,       \* what each schema URL dereferences to: Nothing for a plain
                 \* JSON Schema, else the credential that wraps one
  Purpose,       \* what a W3C list is for
  Publisher,     \* who signs a status list
  Slot,          \* the index a credential's status has, by its id
  Capacity,      \* the statuses a list has room for
  TokenBits,     \* the bits of a status of an IETF list
  Rotating,      \* the issuers that may rotate their key during the batch
  Fickle,        \* the bits that may change: pairs of a list and a credential
  MaxDepth,      \* envelopes that are unwrapped
  MaxChanges,    \* bound on what issuers change during the batch
  MaxFaults      \* bound on the calls that fail

ASSUME BatchAssumption ==
  /\ Lists \cap Tokens = {}
  /\ Rotating \subseteq Issuers /\ Fickle \subseteq (Lists \cup Tokens) \X DOMAIN Slot
  /\ MaxDepth \in Nat /\ MaxChanges \in Nat /\ MaxFaults \in Nat
  /\ Nothing \notin Issuers \cup DOMAIN Credentials \cup {"ok"}

VARIABLES
  args,          \* what the batch was called with; never changes
  keys,          \* per issuer, the version of the key it publishes
  marks,         \* what each list says of each credential by its issuer's
                 \* intent: "valid", "revocation", "suspension"
  bytes,         \* per list, the bytes that say it
  changes,       \* history: what has changed of the two since the call
  cache,         \* batch_resolvers: per callable and name the answer
  task,          \* per credential, the verification's locals
  results,       \* the BatchResults
  returned,      \* "uncalled", "no", "results" or "raised"
  fetched,       \* history: whether a call of a resolver succeeded once or more
  faults         \* history: which credential's calls failed

batchVars == <<args, keys, marks, bytes, changes, cache, task, results, returned, fetched, faults>>

Items == DOMAIN args.batch

\* The policy, and the bits that were set when the batch was called.
Asked == Policies[args.policy]
AtFirst == Worlds[args.world].marks
Hosted == Worlds[args.world].hosted

Sequential == args.mode = "sequential"

----------------------------------------------------------------------------
(***************************************************************************)
(* _schema_inner_policy and the resolvers of the inner pass: a schema      *)
(* credential is held to the default on expiry and revocation whatever the *)
(* caller waives, and its own schema is not followed.                      *)
(***************************************************************************)
\* The caller's policy as it is, waivers included.
InnerPolicyInherits(p) == [p EXCEPT !.typed = FALSE, !.schema = FALSE]

InnerPolicy(p) == [p EXCEPT !.typed = FALSE, !.notExpired = TRUE, !.notRevoked = TRUE,
                            !.schema = FALSE]

InnerGiven(g) == g \ {"schema"}

Policy(s) == IF s.outer = Nothing THEN Asked ELSE InnerPolicy(Asked)

Given(s) == IF s.outer = Nothing THEN args.given ELSE InnerGiven(args.given)

\* An envelope at the limit is one too many.
ReadableShallow(c, depth) == c.format # "odd" /\ (c.layers = 0 \/ depth + c.layers < MaxDepth)

\* detect_format and the envelopes: each is unwrapped one level deeper.
Readable(c, depth) == c.format # "odd" /\ (c.layers = 0 \/ depth + c.layers <= MaxDepth)

\* The locals of verify_credential on the credential n, called at `depth`;
\* every depth beyond the limit is like the first.
Entered(n, depth, outer) ==
  LET c == Credentials[n]
  IN  [pc |-> IF Readable(c, depth) THEN "key" ELSE "odd", cred |-> n, outer |-> outer,
       depth |-> Min({depth + c.layers, MaxDepth + 1}), todo |-> ParseStatusEntries(c.w3c),
       set |-> {}, verdict |-> Nothing]

Cred(s) == Credentials[s.cred]

\* The value a status has in a list: one bit of a W3C list, whose purpose is
\* its own, and a number in an IETF one.
Value(l, m) ==
  IF m = "valid" THEN 0 ELSE IF l \in Lists \/ m = "revocation" THEN StatusInvalid
  ELSE StatusSuspended

\* What a status of the list can be: of an IETF list, what fits in its bits.
Marks(l) ==
  {"valid"} \cup (IF l \in Lists THEN {Purpose[l]}
                 ELSE {m \in {"revocation", "suspension"} : Value(l, m) < 2^TokenBits})

\* set_status_bit, set_status, by the issuer of the list.
Write(l, b, c, m) ==
  IF l \in Lists THEN SetStatusBit(b, Slot[c], Value(l, m))
  ELSE PutStatus(b, Slot[c], Value(l, m), TokenBits)

\* A new list, with no status set.
Blank(l) == IF l \in Lists THEN NewBitstring(Capacity) ELSE NewStatusList(Capacity, TokenBits)

(***************************************************************************)
(* What the constants are.  A list fits into what a verifier inflates, and *)
(* its issuer gives each credential a status of its own in it; a URL that  *)
(* a credential names is that of a list, a token or a schema.              *)
(***************************************************************************)
ASSUME ListAssumption ==
  /\ MaxBytes \in Nat /\ Capacity \in Nat /\ TokenBits \in {1, 2, 4, 8}
  /\ \A perByte \in {8, 8 \div TokenBits} : (Capacity + perByte - 1) \div perByte <= MaxBytes
  /\ \A c \in DOMAIN Slot : Slot[c] \in 0..(Capacity - 1)
  /\ \A c, d \in DOMAIN Slot : Slot[c] = Slot[d] => c = d
  /\ \A l \in Lists \cup Tokens : Publisher[l] \in Issuers
  /\ \A l \in Lists : Purpose[l] \notin {"valid", Nothing}

ASSUME RefusedAssumption ==
  /\ Refused \notin Nat /\ Refused \notin Seq(0..255) /\ Refused \notin [byte : Nat, pos : Nat]
  /\ Refused \notin [typ : {"vc"}, issuer : Issuers, purpose : {Purpose[l] : l \in Lists}, bits : {1},
                     list : [stream : {"gzip"}, bytes : Seq(0..255)], fresh : {TRUE}]
  /\ Refused \notin [typ : {"statuslist+jwt"}, issuer : Issuers, sub : Tokens, bits : {TokenBits},
                     list : [stream : {"zlib"}, bytes : Seq(0..255)], fresh : {TRUE}]

ASSUME CredentialAssumption ==
  /\ \A n \in DOMAIN Credentials :
       LET c == Credentials[n]
       IN  /\ c.iss \in Issuers /\ c.signer \in Issuers /\ c.layers \in Nat
           /\ DOMAIN c.w3c \subseteq Nat
           /\ \A k \in ParseStatusEntries(c.w3c) : c.w3c[k].url \in Lists \cup {Nothing}
           /\ c.ietf # Nothing /\ c.ietf.form = "ref" => c.ietf.uri \in Tokens \cup {Nothing}
           /\ c.schema \in {"none", "odd"} \cup DOMAIN Schemas
  /\ \A u \in DOMAIN Schemas : Schemas[u] \in {Nothing} \cup DOMAIN Credentials

ASSUME CallAssumption ==
  \A a \in Arguments :
    /\ \A i \in DOMAIN a.batch : a.batch[i] \in DOMAIN Credentials
    /\ Policies[a.policy] \in [typed : BOOLEAN, notExpired : BOOLEAN, notRevoked : BOOLEAN,
                              status : BOOLEAN, schema : BOOLEAN, bind : BOOLEAN,
                              allowlist : SUBSET Issuers]
    /\ \A l \in Lists \cup Tokens :
         /\ \A c \in DOMAIN Slot : Worlds[a.world].marks[l][c] \in Marks(l)
         /\ Worlds[a.world].hosted[l] \in [issuer : Issuers \cup {Nothing}, sub : Lists \cup Tokens,
                                            fresh : BOOLEAN]

BatchInit ==
  /\ args \in Arguments
  /\ keys = [d \in Issuers |-> 1]
  /\ marks = [l \in Lists \cup Tokens |-> [c \in DOMAIN Slot |-> "valid"]]
  /\ bytes = [l \in Lists \cup Tokens |-> Blank(l)]
  /\ changes = {}
  /\ cache = <<>>
  /\ task = [i \in Items |-> Entered(args.batch[i], 0, Nothing)]
  /\ results = <<>> /\ returned = "uncalled"
  /\ fetched = <<>> /\ faults = {}

----------------------------------------------------------------------------
(***************************************************************************)
(* The injected resolvers.  `kind` is the callable, each of which has a    *)
(* cache of its own in a sequential batch.                                 *)
(***************************************************************************)
Key(kind, name) == <<kind, name>>

\* What the host of a list serves: the list as its issuer built it, with the
\* issuer it names, the subject and the times it has.
Served(l) ==
  LET h == Hosted[l]
  IN  IF l \in Lists
      THEN [BuildListCredential(h.issuer, Purpose[l], bytes[l]) EXCEPT !.fresh = h.fresh]
      ELSE [BuildListToken(h.issuer, h.sub, bytes[l], TokenBits) EXCEPT !.fresh = h.fresh]

Origin(kind, name) ==
  CASE kind \in {"did", "metadata"} -> keys[name]
    [] kind = "w3c"                 -> ResolveList(Served(name), Publisher[name])
    [] kind = "ietf"                -> ResolveToken(Served(name), Publisher[name], name)
    [] kind = "schema"              -> Schemas[name]

Cached(kind, name) == Sequential /\ Key(kind, name) \in DOMAIN cache

Answer(kind, name) ==
  IF Cached(kind, name) THEN cache[Key(kind, name)] ELSE Origin(kind, name)

\* A function that has one more value.
With(f, k, v) == [x \in DOMAIN f \cup {k} |-> IF x = k THEN v ELSE f[x]]

\* Nothing is remembered: each credential fetches for itself.
RememberNot(kind, name) == UNCHANGED cache

\* cached_resolve over a cache that does not expire: what was fetched is kept.
Remember(kind, name) ==
  cache' = IF Sequential THEN With(cache, Key(kind, name), Answer(kind, name)) ELSE cache

Fetches(kind, name) ==
  IF Key(kind, name) \in DOMAIN fetched THEN fetched[Key(kind, name)] ELSE 0

Resolved(kind, name) ==
  /\ Remember(kind, name)
  /\ fetched' = IF Cached(kind, name) THEN fetched
                ELSE With(fetched, Key(kind, name), Min({Fetches(kind, name) + 1, 2}))
  /\ UNCHANGED <<args, keys, marks, bytes, changes, returned, faults>>

NoCall == UNCHANGED <<args, keys, marks, bytes, changes, cache, returned, fetched, faults>>

----------------------------------------------------------------------------
Put(i, s) == task' = [task EXCEPT ![i] = s] /\ UNCHANGED results

\* The verification of credential i ends.  verify_many appends its
\* BatchResult; a task of verify_many_async returns it to gather.
Finish(i, verdict) ==
  /\ task' = [task EXCEPT ![i].pc = "done", ![i].verdict = verdict]
  /\ results' = IF Sequential THEN Append(results, [index |-> i, verdict |-> verdict])
                ELSE results

\* An OpenvcError; out of the inner pass it is a SchemaResolutionError.
Fail(i, s, e) == Finish(i, IF s.outer = Nothing THEN e ELSE "schemaUnresolved")

\* The schema applies to the credential it was declared for.
Conform(i, c) == Finish(i, IF c.conforms THEN "ok" ELSE "schemaInvalid")

\* The stages are over: the inner pass hands its schema to the outer one.
Accept(i, s) ==
  IF s.outer = Nothing THEN Finish(i, "ok")
  ELSE IF ~ Cred(s).wraps THEN Finish(i, "schemaUnresolved")
  ELSE Conform(i, Credentials[s.outer])

\* verify_many is at credential i; verify_many_async is at all of them, and
\* stays there when another one has made gather raise.
Turn(i) ==
  /\ returned # "uncalled"
  /\ Sequential => returned = "no" /\ i = Len(results) + 1

At(i, pc) == i \in Items /\ task[i].pc = pc /\ Turn(i)

(***************************************************************************)
(* A call that fails: with an error of openvc's own, which is the          *)
(* credential's, or with another exception of the caller's resolver, which *)
(* no handler of the batch catches.  A failure is never cached.            *)
(***************************************************************************)
CallFails(i, kind, name, e) ==
  /\ ~ Cached(kind, name)
  /\ Cardinality(faults) < MaxFaults
  /\ faults' = faults \cup {i}
  /\ \/ Fail(i, task[i], e) /\ UNCHANGED returned
     \/ /\ returned' = "raised"
        /\ task' = [task EXCEPT ![i].pc = "done"]
        /\ UNCHANGED results
  /\ UNCHANGED <<args, keys, marks, bytes, changes, cache, fetched>>

----------------------------------------------------------------------------
\* What _check_status makes of one kind of status before it resolves
\* anything: fail closed unless the policy says otherwise.
Gate(shape, given, p) ==
  IF shape = "malformed" THEN "statusMalformed"
  ELSE IF shape = "entries" /\ given THEN "check"
  ELSE IF shape = "none" \/ ~ p.status THEN "skip"
  ELSE "statusUnavailable"

\* _check_schema.
ToSchema(i, s) ==
  IF Cred(s).schema = "none" THEN Accept(i, s)
  ELSE IF "schema" \in Given(s) THEN Put(i, [s EXCEPT !.pc = "schema"])
  ELSE IF Policy(s).schema THEN Fail(i, s, "schemaUnavailable")
  ELSE Accept(i, s)

ToIetf(i, s) ==
  LET g == Gate(IetfShape(Cred(s).ietf), "ietf" \in Given(s), Policy(s))
  IN  CASE g = "check" -> Put(i, [s EXCEPT !.pc = "ietf"])
        [] g = "skip"  -> ToSchema(i, s)
        [] OTHER       -> Fail(i, s, g)

ToStatus(i, s) ==
  LET g == Gate(W3cShape(Cred(s).w3c), "w3c" \in Given(s), Policy(s))
  IN  CASE g = "check" -> Put(i, [s EXCEPT !.pc = "w3c"])
        [] g = "skip"  -> ToIetf(i, s)
        [] OTHER       -> Fail(i, s, g)

\* What raises once the bits are known: revoked first, unless waived.
Disposition(set, p) ==
  FirstError(<< Check("revocation" \in set => ~ p.notRevoked, "revoked"),
                Check("suspension" \notin set,                "suspended") >>)

\* detect_format or _unwrap_enveloped raises.
Unreadable(i) ==
  /\ At(i, "odd")
  /\ Fail(i, task[i], "format")
  /\ NoCall

(***************************************************************************)
(* The issuer's key: from a certificate chain, from the metadata of an     *)
(* https issuer, or from a DID document (the issuer's on the JOSE formats, *)
(* the verification method's on Data Integrity); then the proof, the       *)
(* expiry, the issuer's binding and the types.                             *)
(***************************************************************************)
ByChain(s) == Cred(s).format = "jose" /\ Cred(s).x5c # "none" /\ "anchors" \in Given(s)

\* _resolve_jose_key: Data Integrity resolves DIDs only.
ByMetadata(c) == c.https /\ c.format = "jose"

\* _bind_issuer_to_verification_method: a JOSE key is the issuer's already.
SignedByIssuer(c) == c.format = "di" => c.signer = c.iss

TypesOK(c, p) == p.typed => c.typed

ProofChecks(s, key) ==
  LET c == Cred(s)
      p == Policy(s)
  IN  << Check(key = c.key,                   "proof"),
         Check(c.expired => ~ p.notExpired,   "expired"),
         Check(SignedByIssuer(c),             "binding"),
         Check(TypesOK(c, p),                 "types") >>

ProofHolds(i, s, key) ==
  LET e == FirstError(ProofChecks(s, key))
  IN  IF e = "ok" THEN ToStatus(i, s) ELSE Fail(i, s, e)

CheckProof(i) ==
  LET s == task[i]
      c == Cred(s)
      kind == IF ByMetadata(c) THEN "metadata" ELSE "did"
      name == IF c.format = "di" THEN c.signer ELSE c.iss
  IN  /\ At(i, "key")
      /\ \/ /\ ByChain(s)
            /\ IF c.x5c = "good" THEN ProofHolds(i, s, c.key) ELSE Fail(i, s, "key")
            /\ NoCall
         \/ /\ ~ ByChain(s) /\ ByMetadata(c) /\ "https" \notin Given(s)
            /\ Fail(i, s, "key")
            /\ NoCall
         \/ /\ ~ ByChain(s) /\ (ByMetadata(c) => "https" \in Given(s))
            /\ \/ ProofHolds(i, s, Answer(kind, name)) /\ Resolved(kind, name)
               \/ CallFails(i, kind, name, "key")

----------------------------------------------------------------------------
\* _enforce_status_issuer.
Bound(s, list) == Policy(s).bind => list.issuer \in {Cred(s).iss} \cup Policy(s).allowlist

\* The resolver has fetched the list and refuses it.
Rejects(i, kind, name) ==
  /\ Answer(kind, name) = Refused
  /\ Fail(i, task[i], "statusFetch")
  /\ NoCall

\* The entry n of a credential, whose list the resolver returned.
ReadEntry(i, s, n, list, bit) ==
  LET set == IF bit = 1 THEN s.set \cup {Cred(s).w3c[n].purpose} ELSE s.set
      d == Disposition(set, Policy(s))
  IN  IF ~ Bound(s, list) THEN Fail(i, s, "statusIssuer")
      ELSE IF bit = Refused THEN Fail(i, s, "statusMalformed")
      ELSE IF s.todo # {n} THEN Put(i, [s EXCEPT !.todo = s.todo \ {n}, !.set = set])
      ELSE IF d # "ok" THEN Fail(i, s, d)
      ELSE ToIetf(i, [s EXCEPT !.todo = {}, !.set = {}])

\* check_credential_status: every entry's list is resolved, then the tally.
CheckW3c(i) ==
  /\ At(i, "w3c")
  /\ \E n \in {Min(task[i].todo)} :
       LET entry == Cred(task[i]).w3c[n]
           list == Answer("w3c", entry.url)
       IN  \/ /\ list # Refused
              /\ ReadEntry(i, task[i], n, list, ReadStatusBit(list, entry))
              /\ Resolved("w3c", entry.url)
           \/ Rejects(i, "w3c", entry.url)
           \/ CallFails(i, "w3c", entry.url, "statusFetch")

\* The purpose an IETF status value stands for.
Meaning(v) ==
  CASE v = StatusInvalid   -> {"revocation"}
    [] v = StatusSuspended -> {"suspension"}
    [] OTHER               -> {}

ReadToken(i, s, token, status) ==
  LET d == Disposition(Meaning(status), Policy(s))
  IN  IF ~ Bound(s, token) THEN Fail(i, s, "statusIssuer")
      ELSE IF status = Refused THEN Fail(i, s, "statusMalformed")
      ELSE IF d # "ok" THEN Fail(i, s, d)
      ELSE ToSchema(i, s)

\* check_token_status.
CheckIetf(i) ==
  /\ At(i, "ietf")
  /\ LET ref == Cred(task[i]).ietf
         token == Answer("ietf", ref.uri)
     IN  \/ /\ token # Refused
            /\ ReadToken(i, task[i], token, TokenStatus(token, ref))
            /\ Resolved("ietf", ref.uri)
         \/ Rejects(i, "ietf", ref.uri)
         \/ CallFails(i, "ietf", ref.uri, "statusFetch")

\* _verify_sri: the bytes served are those the credential pins, if any.
PinHolds(c) == c.pinned \in {"none", c.schema}

\* validate_credential_schema, up to the inner pass of a schema credential.
CheckSchema(i) ==
  LET s == task[i]
      url == Cred(s).schema
  IN  /\ At(i, "schema")
      /\ \/ url = "odd" /\ Fail(i, s, "schemaUnresolved") /\ NoCall
         \/ /\ url # "odd"
            /\ IF ~ PinHolds(Cred(s)) THEN Fail(i, s, "schemaUnresolved")
               ELSE IF Answer("schema", url) = Nothing THEN Conform(i, Cred(s))
               ELSE Put(i, Entered(Answer("schema", url), s.depth + 1, s.cred))
            /\ Resolved("schema", url)
         \/ url # "odd" /\ CallFails(i, "schema", url, "schemaUnresolved")

\* asyncio.gather: the results in the order of the inputs.
Gather == results' = [i \in Items |-> [index |-> i, verdict |-> task[i].verdict]]

Return ==
  /\ returned = "no"
  /\ \A i \in Items : task[i].pc = "done"
  /\ returned' = "results"
  /\ IF Sequential THEN UNCHANGED results ELSE Gather
  /\ UNCHANGED <<args, keys, marks, bytes, changes, cache, task, fetched, faults>>

----------------------------------------------------------------------------
\* The issuers (external): a key is rotated, a bit is set or cleared.
Rotate(d) ==
  /\ returned = "no" /\ Cardinality(changes) < MaxChanges /\ d \notin changes
  /\ keys' = [keys EXCEPT ![d] = @ + 1]
  /\ changes' = changes \cup {d}
  /\ UNCHANGED <<args, marks, bytes, cache, task, results, returned, fetched, faults>>

Mark(l, c, m) ==
  /\ marks' = [marks EXCEPT ![l] = [marks[l] EXCEPT ![c] = m]]
  /\ bytes' = [bytes EXCEPT ![l] = Write(l, bytes[l], c, m)]

SetStatus(l, c) ==
  /\ returned = "no" /\ Cardinality(changes) < MaxChanges /\ <<l, c>> \notin changes
  /\ \E m \in Marks(l) : m # marks[l][c] /\ Mark(l, c, m)
  /\ changes' = changes \cup {<<l, c>>}
  /\ UNCHANGED <<args, keys, cache, task, results, returned, fetched, faults>>

\* Before the batch: the bits that are set when it is called.
SetBefore(l, c) ==
  /\ returned = "uncalled" /\ marks[l][c] # AtFirst[l][c]
  /\ Mark(l, c, AtFirst[l][c])
  /\ UNCHANGED <<args, keys, changes, cache, task, results, returned, fetched, faults>>

Call ==
  /\ returned = "uncalled" /\ marks = AtFirst
  /\ returned' = "no"
  /\ UNCHANGED <<args, keys, marks, bytes, changes, cache, task, results, fetched, faults>>

Verification(i) ==
  Unreadable(i) \/ CheckProof(i) \/ CheckW3c(i) \/ CheckIetf(i) \/ CheckSchema(i)

\* A batch that is over stays over; one that is not can always go on.
Over == returned \in {"results", "raised"} /\ UNCHANGED batchVars

BatchNext ==
  \/ \E i \in Items : Verification(i)
  \/ \E l \in Lists \cup Tokens, c \in DOMAIN Slot : SetBefore(l, c)
  \/ Call
  \/ Return
  \/ Over
  \/ \E d \in Rotating : Rotate(d)
  \/ \E b \in Fickle : SetStatus(b[1], b[2])

BatchSpec == BatchInit /\ [][BatchNext]_batchVars

----------------------------------------------------------------------------
Accepted(i) == task[i].pc = "done" /\ task[i].verdict = "ok"

(***************************************************************************)
(* What a credential has to satisfy, stage by stage, against the keys in   *)
(* `published` and the bits in `m`.                                        *)
(***************************************************************************)
SignedFor(c, g, published) ==
  IF c.format = "jose" /\ c.x5c # "none" /\ "anchors" \in g THEN c.x5c = "good"
  ELSE /\ c.https /\ c.format = "jose" => "https" \in g
       /\ c.format = "di" => c.signer = c.iss
       /\ c.key \in published[c.iss]

\* A list is what it says: the one asked for, signed by whom it names, in time.
Authentic(l) ==
  IF l \in Lists THEN Hosted[l].issuer \in {Nothing, Publisher[l]} /\ Hosted[l].fresh
  ELSE Hosted[l] = [issuer |-> Publisher[l], sub |-> l, fresh |-> TRUE]

\* The statuses that the bytes of a list have room for.
Room(l) ==
  LET perByte == IF l \in Lists THEN 8 ELSE 8 \div TokenBits
  IN  perByte * ((Capacity + perByte - 1) \div perByte)

\* By `m`, the status that the list has at index n is this one.
Marked(m, l, n, purpose) == \E id \in DOMAIN Slot : Slot[id] = n /\ m[l][id] = purpose

Live(c, list, n, p, purposes, m) ==
  /\ Authentic(list) /\ n < Room(list)
  /\ "suspension" \in purposes => ~ Marked(m, list, n, "suspension")
  /\ p.notRevoked /\ "revocation" \in purposes => ~ Marked(m, list, n, "revocation")
  /\ p.bind => Publisher[list] \in {c.iss} \cup p.allowlist

\* A pointer that can be followed.
Points(url, index, forms) ==
  url # Nothing /\ index.form \in forms /\ index.n \in 0..(MaxBytes * 8 - 1)

W3cFine(c, p, g, m) ==
  LET named == {n \in DOMAIN c.w3c : c.w3c[n].form = "object" /\ c.w3c[n].type = "list"}
  IN  /\ \A n \in DOMAIN c.w3c : c.w3c[n].form = "object" /\ c.w3c[n].type # "absent"
      /\ \A n \in named : Points(c.w3c[n].url, c.w3c[n].index, {"int", "digits"})
      /\ c.w3c # <<>> /\ (named = {} \/ "w3c" \notin g) => ~ p.status
      /\ "w3c" \in g =>
           \A n \in named : LET e == c.w3c[n]
                            IN  /\ Purpose[e.url] = e.purpose
                                /\ Live(c, e.url, e.index.n, p, {e.purpose}, m)

IetfFine(c, p, g, m) ==
  c.ietf # Nothing =>
    /\ c.ietf.form = "ref" => Points(c.ietf.uri, c.ietf.index, {"int"})
    /\ IF c.ietf.form # "ref" \/ "ietf" \notin g THEN ~ p.status
       ELSE Live(c, c.ietf.uri, c.ietf.index.n, p, {"revocation", "suspension"}, m)

StatusFine(c, p, g, m) == W3cFine(c, p, g, m) /\ IetfFine(c, p, g, m)

Fine(c, p, g, published, m) ==
  /\ SignedFor(c, g, published)
  /\ p.notExpired => ~ c.expired
  /\ p.typed => c.typed
  /\ StatusFine(c, p, g, m)

\* The keys published, and the bits set, since the batch was called.
SinceTheCall == [d \in Issuers |-> 1..keys[d]]

Standing ==
  [l \in Lists \cup Tokens |->
     [c \in DOMAIN marks[l] |-> IF <<l, c>> \in changes THEN "valid" ELSE AtFirst[l][c]]]

(***************************************************************************)
(* What is accepted is what the policy asks for: signed with a key its     *)
(* issuer published at some moment since the batch was called, unexpired   *)
(* and typed where the policy says so, with every declared status looked   *)
(* up or waived, and with no bit that has been set since before the call.  *)
(***************************************************************************)
AcceptedIsSound ==
  \A i \in Items : Accepted(i) =>
    Fine(Credentials[args.batch[i]], Asked, args.given, SinceTheCall, Standing)

SchemaFine(c, p, g, published, m) ==
  IF "schema" \notin g THEN ~ p.schema
  ELSE /\ c.schema # "odd" /\ c.conforms /\ (c.pinned # "none" => c.pinned = c.schema)
       /\ Schemas[c.schema] # Nothing =>
            LET w == Credentials[Schemas[c.schema]]
            IN  /\ w.wraps
                /\ w.format # "odd" /\ (w.layers = 0 \/ c.layers + 1 + w.layers <= MaxDepth)
                /\ Fine(w, [p EXCEPT !.typed = FALSE, !.notExpired = TRUE, !.notRevoked = TRUE],
                        g, published, m)

(***************************************************************************)
(* "An expired or revoked schema VC fails under every policy": an accepted *)
(* credential with a schema conforms to it, and a schema that comes in a   *)
(* credential comes in one that stands without the caller's waivers.       *)
(***************************************************************************)
SchemaIsVouchedFor ==
  \A i \in Items :
    LET c == Credentials[args.batch[i]]
    IN  Accepted(i) /\ c.schema # "none" =>
          SchemaFine(c, Asked, args.given, SinceTheCall, Standing)

(***************************************************************************)
(* "Each credential is verified independently": while the issuers change   *)
(* nothing, a credential none of whose own calls failed and that has no    *)
(* flaw of its own is accepted, whatever the others in the batch are and   *)
(* whatever failed for them.                                               *)
(***************************************************************************)
RejectionsAreOwn ==
  \A i \in Items :
    LET c == Credentials[args.batch[i]]
    IN  /\ changes = {} /\ i \notin faults /\ task[i].pc = "done"
        /\ c.format # "odd" /\ c.layers <= MaxDepth
        /\ Fine(c, Asked, args.given, SinceTheCall, Standing)
        /\ c.schema # "none" => SchemaFine(c, Asked, args.given, SinceTheCall, Standing)
        => task[i].verdict = "ok"

(***************************************************************************)
(* verify_many resolves "each distinct issuer DID / status list / schema / *)
(* issuer-metadata URL once": what was answered is not asked for again, by *)
(* another credential or by the inner pass of one, so that all of them are *)
(* judged by one answer.                                                   *)
(***************************************************************************)
ResolvedOnce == Sequential => \A k \in DOMAIN fetched : fetched[k] = 1

=============================================================================
