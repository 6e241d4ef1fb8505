----------------------------- MODULE Openid4vci -----------------------------
(***************************************************************************)
(* openvc.openid4vci: the issuer's side of a credential request.  Wallets  *)
(* read offers and issuer metadata, ask for a nonce, sign key proofs and   *)
(* send them in requests; requests are delayed, repeated, cut up and sent  *)
(* on to another issuer; and the handlers of one issuer serve them at the  *)
(* same time.  openvc keeps no state: the nonces live in a store of the    *)
(* caller's whose check_nonce is atomic.                                   *)
(*                                                                         *)
(* A key proof is its header, its claims and a signature, which is the key *)
(* that made it and what it is over.                                       *)
(***************************************************************************)
EXTENDS Integers, Sequences, FiniteSets, SequencesExt, FiniteSetsExt, Checks

CONSTANTS
  Wallets,      \* who asks for credentials
  KeysOf,       \* per wallet, the sequence of its keys
  AlgOf,        \* per key, the one algorithm that it is for
  Enrolled,     \* per kid, the key the caller's registry knows it by
  Offers,       \* Credential Offers that are about
  Us,           \* the issuer that is followed
  Calls,        \* how it calls verify_credential_request_proofs and, for each, the
                \* metadata issuers publish and how wallets make their proofs
  Handlers,     \* requests in service at the same time
  Nonces,       \* the nonces of the store
  Allowed,      \* allowed_algs
  MaxAge,       \* max_age_s
  Skew,         \* leeway_s
  MaxProofs,    \* bound on the proofs that are made
  MaxTime,      \* bound on the clock
  Bad,          \* a JSON value of the wrong type
  None

\* What a wallet may get wrong in a proof that it signs.
Slips ==
  {"none", "aud", "future", "nonce", "early", "expired", "iss", "alg", "typ", "attest", "private"}

ASSUME VciAssumption ==
  /\ MaxAge \in Nat /\ Skew \in Nat /\ MaxProofs \in Nat /\ MaxTime \in Nat
  /\ \A w \in Wallets : KeysOf[w] # <<>>
  /\ None \notin Nonces
  /\ \A c \in Calls : c.slips \subseteq Slips

VARIABLES
  now,          \* the clock
  call,         \* the arguments of the endpoint's calls; never changes
  session,      \* per wallet: None, what it learnt of its issuer, or Bad if refused
  live,         \* the store: the nonces handed out and not consumed
  unissued,     \* the nonces that were never handed out
  made,         \* history: the proofs that were signed, by whom and when
  handler,      \* per handler: None, or the request it is about to ask the store about
  served,       \* history: the requests that were accepted
  spent         \* history: the nonces consumed, and for which request

vars == <<now, call, session, live, unissued, made, handler, served, spent>>

----------------------------------------------------------------------------
(***************************************************************************)
(* Discovery: parse_credential_offer and parse_credential_issuer_metadata. *)
(* A URL has an identity and the set of what is wrong with it.             *)
(***************************************************************************)
HttpsUrl(u) == u # Bad /\ u.flaws = {}

Distinct(s) == Cardinality(Range(s)) = Len(s)

OfferOK(o) ==
  /\ HttpsUrl(o.issuer)
  /\ o.ids # Bad /\ o.ids # <<>> /\ Bad \notin Range(o.ids) /\ Distinct(o.ids)
  /\ o.grants # Bad

MetadataOK(m) ==
  /\ HttpsUrl(m.issuer) /\ HttpsUrl(m.endpoint)
  /\ m.servers # Bad /\ m.servers # <<>>
  /\ m.servers # None => \A i \in DOMAIN m.servers : HttpsUrl(m.servers[i])
  /\ \A e \in {"nonce", "deferred", "notification"} :
       m.optional[e] # None => HttpsUrl(m.optional[e])
  /\ m.configurations # Bad
  /\ m.batch # None => m.batch # Bad /\ m.batch >= 2

\* What an issuer that advertises no batches takes is one proof.
BatchSize(m) == IF m.batch = None THEN 1 ELSE m.batch

\* What a wallet has learnt of its issuer.
Session(o, c, n) ==
  [issuer |-> o.issuer.id, batch |-> BatchSize(c.metadata[o.issuer.id]), nonce |-> n]

Advertised == call.metadata[Us].batch

\* None and Bad are no nonce, key, number or session.
ASSUME AbsenceAssumption ==
  /\ Bad # None /\ "pid" \notin {None, Bad} /\ Bad \notin Nonces /\ None \notin Nat /\ None # <<>>
  /\ \A w \in Wallets : \A k \in Range(KeysOf[w]) : k # None /\ <<k>> \notin {None, Bad}
  /\ \A o \in Offers, c \in Calls, n \in Nonces \cup {None} :
       OfferOK(o) => Session(o, c, n) \notin {None, Bad}

\* The endpoint takes the kind of proof its wallets make: their algorithms
\* are allowed, and what resolves a kid or a chain is there and knows them.
ASSUME EndpointAssumption ==
  /\ \A c \in Calls :
       /\ c.requireNonce => c.store
       /\ c.client # Bad
       /\ c.style \in {"jwk", "x5c", "kid"}
       /\ c.style = "x5c" => c.anchors
       /\ c.style = "kid" => c.resolver \in {"registry", "context"} \ {None}
  /\ \A w \in Wallets : \A k \in Range(KeysOf[w]) :
       AlgOf[k] \in Allowed /\ k \in DOMAIN Enrolled /\ Enrolled[k] = k

----------------------------------------------------------------------------
(***************************************************************************)
(* parse_credential_request and _parse_proofs.                             *)
(***************************************************************************)
RequestChecks(r) ==
  << Check((r.config = None) # (r.identifier = None),              "malformed"),
     Check(r.config # Bad /\ r.identifier # Bad,                   "malformed"),
     Check(Cardinality(r.types) = 1,                               "malformed"),
     Check(r.proofs # <<>>,                                        "malformed"),
     Check(Len(r.proofs) <= BatchSize(call.metadata[Us]), "malformed"),
     Check(r.types = {"jwt"},                                      "unsupported") >>

----------------------------------------------------------------------------
(***************************************************************************)
(* _proof_key: the key the header names, in exactly one way.  A resolver   *)
(* is the caller's: it knows kids ("registry"), or it picks one of the     *)
(* attested keys ("context").                                              *)
(***************************************************************************)
Param(h) == CHOOSE p \in h.params : TRUE

Resolve(h) ==
  CASE call.resolver = "registry" -> IF h.kid \in DOMAIN Enrolled THEN Enrolled[h.kid] ELSE None
    [] call.resolver = "context"  -> IF h.attest \in {None, Bad} THEN None ELSE h.attest[1]
    [] OTHER                      -> None

NamedKey(h) ==
  CASE Param(h) \in {"jwk", "x5c"} -> h.key
    [] Param(h) = "kid"            -> Resolve(h)
    [] OTHER                       -> None

KeyParamChecks(h) ==
  << Check(Cardinality(h.params) = 1,                                  "claims"),
     Check(h.params = {"jwk"} => ~ h.private,                          "claims"),
     Check(h.params = {"x5c"} => call.anchors /\ h.chain,              "claims"),
     Check(h.params = {"kid"} => call.resolver # None,                 "claims"),
     Check(h.params # {"trust_chain"},                                 "unsupported"),
     Check(NamedKey(h) # None,                                         "claims"),
     Check(NamedKey(h) # None => AlgOf[NamedKey(h)] = h.alg,           "claims") >>

\* The header, before any cryptography.  An attestation is the sequence of
\* the keys it attests; nobody checks who signed it.
HeaderChecks(h) ==
  << Check(h.typ = "proof",                                            "claims"),
     Check(h.alg \in Allowed,                                          "algorithm"),
     Check(h.crit = {},                                                "claims"),
     Check(h.attest # Bad /\ h.attest # <<>>,                          "claims"),
     Check(call.attested => h.attest # None,                           "claims") >>

\* _check_attested_key: by thumbprint, and a key has one.
AttestedCheck(h) == << Check(h.attest # None => NamedKey(h) \in Range(h.attest), "claims") >>

\* A proof of exactly the age that is allowed is too old.
FreshAtStrict(iat, t) == iat # None /\ t - iat < MaxAge + Skew /\ iat - t <= Skew

\* check_iat_freshness.
FreshAt(iat, t) == iat # None /\ t - iat <= MaxAge + Skew /\ iat - t <= Skew

ClaimChecks(c, t) ==
  << Check(Len(c.aud) = 1 /\ c.aud[1] = Us,                            "claims"),
     Check(FreshAt(c.iat, t),                                          "claims"),
     Check(c.exp # None => t - c.exp < Skew,                           "claims"),
     Check(c.nbf # None => c.nbf - t <= Skew,                          "claims"),
     Check(c.iss # Bad,                                                "claims"),
     Check(call.client # None => c.iss = call.client,                  "claims"),
     Check(c.nonce # Bad,                                              "claims") >>

SignatureCheck(p) ==
  << Check(p.sig = [by |-> NamedKey(p.header), over |-> <<p.header, p.claims>>], "signature") >>

\* _verify_one_proof.
VerifyProof(p, t) ==
  LET e == FirstError(HeaderChecks(p.header) \o KeyParamChecks(p.header))
  IN  IF e # "ok" THEN e
      ELSE FirstError(AttestedCheck(p.header) \o SignatureCheck(p) \o ClaimChecks(p.claims, t))

----------------------------------------------------------------------------
(***************************************************************************)
(* _check_batch_invariants up to the nonce: one nonce, N keys.             *)
(***************************************************************************)
NoncesOf(r) == {r.proofs[i].claims.nonce : i \in DOMAIN r.proofs}
KeysIn(r) == [i \in DOMAIN r.proofs |-> NamedKey(r.proofs[i].header)]

\* N proofs may be N copies of one.
BatchChecksSameKey(r) ==
  << Check(Cardinality(NoncesOf(r)) = 1,                               "claims"),
     Check(call.requireNonce => None \notin NoncesOf(r),               "claims") >>

BatchChecks(r) ==
  << Check(Cardinality(NoncesOf(r)) = 1,                               "claims"),
     Check(call.requireNonce => None \notin NoncesOf(r),               "claims"),
     Check(Distinct(KeysIn(r)),                                        "claims") >>

CallChecks ==
  << Check(call.requireNonce => call.store,                            "claims") >>

\* verify_credential_request_proofs up to the call of check_nonce, at time t.
Verify(r, t) ==
  LET e == FirstError(CallChecks \o RequestChecks(r))
      each == [i \in DOMAIN r.proofs |-> VerifyProof(r.proofs[i], t)]
  IN  IF e # "ok" THEN e
      ELSE LET f == FirstError([i \in DOMAIN each |-> Check(each[i] = "ok", each[i])])
           IN  IF f # "ok" THEN f ELSE FirstError(BatchChecks(r))

----------------------------------------------------------------------------
Init ==
  /\ now = 0
  /\ call \in Calls
  /\ session = [w \in Wallets |-> None]
  /\ live = {} /\ unissued = Nonces
  /\ made = {}
  /\ handler = [h \in Handlers |-> None]
  /\ served = {} /\ spent = {}

\* A wallet reads an offer and the metadata of the issuer it names.
Discover(w, o) ==
  /\ session[w] = None
  /\ session' = [session EXCEPT ![w] =
       IF OfferOK(o) /\ MetadataOK(call.metadata[o.issuer.id])
       THEN Session(o, call, None)
       ELSE Bad]
  /\ UNCHANGED <<now, call, live, unissued, made, handler, served, spent>>

Discovered(w) == session[w] \notin {None, Bad}

\* The nonce endpoint.  Another issuer may hand on a nonce of ours.
TakeNonce(w) ==
  /\ Discovered(w) /\ session[w].nonce = None /\ unissued # {}
  /\ LET n == CHOOSE m \in unissued : TRUE
     IN  /\ unissued' = unissued \ {n}
         /\ live' = live \cup {n}
         /\ session' = [session EXCEPT ![w].nonce = n]
  /\ UNCHANGED <<now, call, made, handler, served, spent>>

\* What a wallet signs for its n-th key; a slip is a change it makes first.
Header(w, n) ==
  [typ |-> "proof", alg |-> AlgOf[KeysOf[w][n]], crit |-> {}, params |-> {call.style},
   key |-> KeysOf[w][n], kid |-> KeysOf[w][n], private |-> FALSE, chain |-> TRUE,
   attest |-> IF call.attested \/ call.resolver = "context" THEN <<KeysOf[w][n]>> ELSE None]

Claims(w) ==
  [aud |-> <<session[w].issuer>>, iat |-> now, exp |-> None, nbf |-> None, iss |-> call.client,
   nonce |-> session[w].nonce]

SignedBy(key, h, c) == [header |-> h, claims |-> c, sig |-> [by |-> key, over |-> <<h, c>>]]

Prove(w, n, slip) ==
  LET key == KeysOf[w][n]
      p == CASE slip = "none"   -> SignedBy(key, Header(w, n), Claims(w))
             [] slip = "aud"    -> SignedBy(key, Header(w, n), [Claims(w) EXCEPT !.aud = @ \o <<Us>>])
             [] slip = "future" -> SignedBy(key, Header(w, n), [Claims(w) EXCEPT !.iat = MaxTime + Skew])
             [] slip = "nonce"  -> SignedBy(key, Header(w, n), [Claims(w) EXCEPT !.nonce = None])
             [] slip = "early"  -> SignedBy(key, Header(w, n), [Claims(w) EXCEPT !.nbf = now + Skew + 1])
             [] slip = "expired" -> SignedBy(key, Header(w, n), [Claims(w) EXCEPT !.exp = now - Skew])
             [] slip = "iss"    -> SignedBy(key, Header(w, n), [Claims(w) EXCEPT !.iss = Bad])
             [] slip = "alg"    -> SignedBy(key, [Header(w, n) EXCEPT !.alg = "other"], Claims(w))
             [] slip = "typ"    -> SignedBy(key, [Header(w, n) EXCEPT !.typ = "kb"], Claims(w))
             [] slip = "attest" -> SignedBy(key, [Header(w, n) EXCEPT !.attest = Bad], Claims(w))
             [] slip = "private" -> SignedBy(key, [Header(w, n) EXCEPT !.private = TRUE], Claims(w))
  IN  /\ Discovered(w)
      /\ n \in DOMAIN KeysOf[w]
      /\ Cardinality(made) < MaxProofs
      /\ slip # "none" => made = {}   \* a bound: one slip, the first
      /\ made' = made \cup {[by |-> w, proof |-> p, slip |-> slip, at |-> now]}
      /\ UNCHANGED <<now, call, session, live, unissued, handler, served, spent>>

Tick ==
  /\ now < MaxTime
  /\ now' = now + 1
  /\ UNCHANGED <<call, session, live, unissued, made, handler, served, spent>>

----------------------------------------------------------------------------
Proofs == {m.proof : m \in made}

\* A proof whose bytes were changed after it was signed: its key parameter
\* names another key, a second one is added, or it asks for another nonce.
Changed(p) ==
  {[p EXCEPT !.header.key = k] : k \in {KeysOf[w][1] : w \in Wallets} \ {p.header.key}}
  \cup {[p EXCEPT !.header.params = {"jwk", "kid"}]}
  \cup {[p EXCEPT !.claims.nonce = n] : n \in live \ {p.claims.nonce}}

Request(proofs) ==
  [config |-> "pid", identifier |-> None, types |-> {"jwt"}, proofs |-> proofs]

\* The requests that may arrive: any proofs, once or twice, and odd ones.
Arriving ==
  {Request(<<p>>) : p \in Proofs \cup UNION {Changed(p) : p \in Proofs}}
  \cup {Request(<<p, q>>) : p, q \in Proofs}
  \cup {[Request(<<p>>) EXCEPT !.types = {"jwt", "di_vp"}] : p \in Proofs}
  \cup {[Request(<<p>>) EXCEPT !.identifier = "pid1"] : p \in Proofs}

Idle(h) == handler[h] = None

\* The nonce is asked about whatever came of the proofs.
ReceiveEager(h, r) ==
  /\ Idle(h)
  /\ handler' = [handler EXCEPT ![h] = [request |-> r, at |-> now, verdict |-> Verify(r, now)]]
  /\ UNCHANGED <<now, call, session, live, unissued, made, served, spent>>

\* A handler takes a request and verifies everything but the nonce.  One
\* that is refused here leaves no trace.
Receive(h, r) ==
  /\ Idle(h)
  /\ Verify(r, now) = "ok"
  /\ handler' = [handler EXCEPT ![h] = [request |-> r, at |-> now, verdict |-> "ok"]]
  /\ UNCHANGED <<now, call, session, live, unissued, made, served, spent>>

\* The nonce that check_nonce is called with, if it is.
NonceToConsumeIfRequired(r) ==
  IF call.requireNonce THEN CHOOSE n \in NoncesOf(r) : TRUE ELSE None

NonceToConsume(r) == IF call.store THEN CHOOSE n \in NoncesOf(r) : TRUE ELSE None

Redeemed == UNION {NoncesOf(s.request) : s \in served}

\* check_nonce, then the credentials are issued or ProofReplayed is raised.
ConsumeNonce(h) ==
  LET s == handler[h]
      n == NonceToConsume(s.request)
      good == s.verdict = "ok" /\ (n = None \/ n \in live)
  IN  /\ ~ Idle(h)
      /\ live' = live \ {n}
      /\ spent' = IF n \in live THEN spent \cup {[nonce |-> n, request |-> s.request]} ELSE spent
      /\ handler' = [handler EXCEPT ![h] = None]
      /\ served' = IF good THEN served \cup {[request |-> s.request, at |-> s.at, again |-> n \in Redeemed]}
                   ELSE served
      /\ UNCHANGED <<now, call, session, unissued, made>>

Next ==
  \/ \E w \in Wallets, o \in Offers : Discover(w, o)
  \/ \E w \in Wallets : TakeNonce(w)
  \/ \E w \in Wallets, n \in 1..2, slip \in call.slips : Prove(w, n, slip)
  \/ Tick
  \/ \E h \in Handlers : (\E r \in Arriving : Receive(h, r)) \/ ConsumeNonce(h)

Spec == Init /\ [][Next]_vars

----------------------------------------------------------------------------
(***************************************************************************)
(* "ProofReplayed: the nonce was already consumed": where the endpoint has *)
(* a store, one nonce is good for one request, however often and wherever  *)
(* it is sent and however the handlers interleave.                         *)
(***************************************************************************)
OneIssuancePerNonce ==
  call.store => \A s \in served : s.again => NoncesOf(s.request) = {None}

\* The wallet that holds the key p is for signed exactly p, for this
\* issuer, and dates it no earlier than `since`.
Proven(p, since) ==
  \E m \in made : /\ m.proof = p /\ p.claims.iat >= since /\ p.claims.aud = <<Us>>
                  /\ NamedKey(p.header) \in Range(KeysOf[m.by])

(***************************************************************************)
(* "An unauthenticated attacker cannot reach this and burn a nonce": a     *)
(* nonce leaves the store only for a request whose every proof was signed, *)
(* for this issuer and with this nonce, by a wallet that holds the key.    *)
(***************************************************************************)
OnlyProofsSpendANonce ==
  \A s \in spent : \A i \in DOMAIN s.request.proofs :
    LET p == s.request.proofs[i]
    IN  p.claims.nonce = s.nonce /\ Proven(p, 0)

(***************************************************************************)
(* "N credentials must mean N keys", and no more of them than the issuer   *)
(* offers for one grant: each of an accepted request's proofs was made by  *)
(* the wallet that holds its key, for this issuer, with a recent date.     *)
(***************************************************************************)
EveryKeyIsProven ==
  \A s \in served :
    LET r == s.request
    IN  /\ Len(r.proofs) <= (IF Advertised = None THEN 1 ELSE Advertised)
        /\ Cardinality(Range(KeysIn(r))) = Len(r.proofs)
        /\ \A i \in DOMAIN r.proofs : Proven(r.proofs[i], s.at - MaxAge - Skew)

\* What a wallet that follows the metadata of this issuer sends it in time.
Honest(r, at) ==
  \E w \in Wallets :
    /\ Discovered(w) /\ session[w].issuer = Us /\ Len(r.proofs) <= session[w].batch
    /\ r = Request(r.proofs) /\ Distinct(r.proofs)
    /\ \A i, j \in DOMAIN r.proofs : r.proofs[i].claims.nonce = r.proofs[j].claims.nonce
    /\ \A i, j \in DOMAIN r.proofs : i # j => r.proofs[i].header.key # r.proofs[j].header.key
    /\ \A i \in DOMAIN r.proofs :
         \E m \in made : /\ m.by = w /\ m.proof = r.proofs[i] /\ m.slip = "none"
                         /\ m.at \in (at - MaxAge)..at /\ r.proofs[i].claims.nonce # None

(***************************************************************************)
(* A wallet that keeps to the offer and the metadata, and answers in time, *)
(* is refused for one reason only: its nonce was spent, and then by a      *)
(* request that was accepted.                                              *)
(***************************************************************************)
HonestRequestsAreServed ==
  \A r \in Arriving : Honest(r, now) =>
    Verify(r, now) = "ok" /\ NoncesOf(r) \subseteq live \cup Redeemed
=============================================================================
