-------------------------- MODULE CredentialProofs --------------------------
(***************************************************************************)
(* A credential's issuance and its verification.                           *)
(*                                                                         *)
(* First the issuer's promises for every number of wallets, handlers,      *)
(* nonces and proofs: a nonce buys one issuance, only proofs of possession *)
(* spend one, and every key that is bound was proven.  A request that a    *)
(* handler holds was verified against a state that has moved on since; the *)
(* invariant says what of that verdict lasts.                              *)
(*                                                                         *)
(* Then the verifier's, for every batch, policy, status list and schema:   *)
(* what it accepts stands, what it rejects has a flaw of its own, and what *)
(* it has resolved it does not resolve again.  The invariant follows every *)
(* verification from stage to stage, with what the answers of resolvers    *)
(* and the bytes of status lists mean while issuers change them.           *)
(***************************************************************************)
EXTENDS Openid4vci, VerifyBatch, ChecksProofs, FiniteSetTheorems

----------------------------------------------------------------------------
(***************************************************************************)
(* What a proof and a request that pass have passed.                       *)
(***************************************************************************)
Rows == [ok : BOOLEAN, err : {"claims", "algorithm", "unsupported", "signature", "malformed"}]

\* No check calls its error "ok".
LEMMA RowsHaveErrors == \A c \in Rows : c.err # "ok"
BY DEF Rows

\* The rows of checks of one proof are rows of checks.
LEMMA ProofRows ==
  ASSUME NEW p, NEW t
  PROVE  /\ HeaderChecks(p.header) \in Seq(Rows) /\ KeyParamChecks(p.header) \in Seq(Rows)
         /\ AttestedCheck(p.header) \in Seq(Rows) /\ SignatureCheck(p) \in Seq(Rows)
         /\ ClaimChecks(p.claims, t) \in Seq(Rows)
<1>1. HeaderChecks(p.header) \in Seq(Rows)
  BY DEF HeaderChecks, Check, Rows
<1>2. KeyParamChecks(p.header) \in Seq(Rows)
  BY DEF KeyParamChecks, Check, Rows
<1>3. AttestedCheck(p.header) \in Seq(Rows)
  BY DEF AttestedCheck, Check, Rows
<1>4. SignatureCheck(p) \in Seq(Rows)
  BY DEF SignatureCheck, Check, Rows
<1>5. ClaimChecks(p.claims, t) \in Seq(Rows)
  BY DEF ClaimChecks, Check, Rows, FreshAt
<1> QED BY <1>1, <1>2, <1>3, <1>4, <1>5

\* And so are those of a request.
LEMMA RequestRows ==
  ASSUME NEW r
  PROVE  CallChecks \in Seq(Rows) /\ RequestChecks(r) \in Seq(Rows) /\ BatchChecks(r) \in Seq(Rows)
<1>1. CallChecks \in Seq(Rows)
  BY DEF CallChecks, Check, Rows
<1>2. RequestChecks(r) \in Seq(Rows)
  BY DEF RequestChecks, Check, Rows
<1>3. BatchChecks(r) \in Seq(Rows)
  BY DEF BatchChecks, Check, Rows, Distinct
<1> QED BY <1>1, <1>2, <1>3

\* Two checks, each a row of its own.
LEMMA TwoSingleChecks ==
  ASSUME NEW S, NEW s \in Seq(S), NEW t \in Seq(S), Len(s) = 1, Len(t) = 1
  PROVE  s \o t \in Seq(S) /\ Len(s \o t) = 2 /\ (s \o t)[1] = s[1] /\ (s \o t)[2] = t[1]
BY ConcatProperties

\* _verify_one_proof: the signature is the named key's over this header and
\* these claims, which are for this issuer and recent.
LEMMA ProofPasses ==
  ASSUME NEW p, NEW t, VerifyProof(p, t) = "ok"
  PROVE  /\ p.sig = [by |-> NamedKey(p.header), over |-> <<p.header, p.claims>>]
         /\ Len(p.claims.aud) = 1 /\ p.claims.aud[1] = Us
         /\ FreshAt(p.claims.iat, t)
<1> DEFINE att == AttestedCheck(p.header)
           sig == SignatureCheck(p)
           cla == ClaimChecks(p.claims, t)
<1>1. FirstError((att \o sig) \o cla) = "ok"
  BY Zenon DEF VerifyProof
<1>2. att \in Seq(Rows) /\ sig \in Seq(Rows) /\ cla \in Seq(Rows)
  BY ProofRows
<1>3. Len(att) = 1 /\ Len(sig) = 1 /\ Len(cla) = 7
  BY DEF AttestedCheck, SignatureCheck, ClaimChecks
<1>4. sig[1].ok = (p.sig = [by |-> NamedKey(p.header), over |-> <<p.header, p.claims>>])
  BY DEF SignatureCheck, Check
<1>5. /\ cla[1].ok = (Len(p.claims.aud) = 1 /\ p.claims.aud[1] = Us)
      /\ cla[2].ok = FreshAt(p.claims.iat, t)
  BY DEF ClaimChecks, Check, FreshAt
<1> HIDE DEF att, sig, cla
<1>6. /\ att \o sig \in Seq(Rows) /\ Len(att \o sig) = 2 /\ (att \o sig)[2] = sig[1]
  BY <1>2, <1>3, TwoSingleChecks
<1>7. (\A i \in 1..2 : (att \o sig)[i].ok) /\ (\A i \in 1..7 : cla[i].ok)
  <2>1. (\A i \in 1..Len(att \o sig) : (att \o sig)[i].ok) /\ (\A i \in 1..Len(cla) : cla[i].ok)
    BY <1>1, <1>2, <1>6, RowsHaveErrors, TwoRowsOK, Zenon
  <2> QED BY <1>3, <1>6, <2>1, Zenon
<1>8. sig[1].ok /\ cla[1].ok /\ cla[2].ok
  BY <1>6, <1>7
<1> QED BY <1>4, <1>5, <1>8, Zenon

\* verify_credential_request_proofs up to check_nonce: each proof passes,
\* there are as many as offered at most, on one nonce and as many keys.
LEMMA RequestPasses ==
  ASSUME NEW r, NEW t, NEW n \in Nat, DOMAIN r.proofs = 1..n, Verify(r, t) = "ok"
  PROVE  /\ Len(r.proofs) <= BatchSize(call.metadata[Us])
         /\ \A i \in 1..n : VerifyProof(r.proofs[i], t) = "ok"
         /\ Cardinality(NoncesOf(r)) = 1
         /\ Distinct(KeysIn(r))
<1> DEFINE cal == CallChecks
           req == RequestChecks(r)
           bat == BatchChecks(r)
           each == [i \in DOMAIN r.proofs |-> VerifyProof(r.proofs[i], t)]
           one == FirstError([i \in DOMAIN each |-> Check(each[i] = "ok", each[i])])
<1>1. FirstError(cal \o req) = "ok" /\ one = "ok" /\ FirstError(bat) = "ok"
  <2> HIDE DEF one
  <2> QED BY Zenon DEF Verify, one
<1>2. cal \in Seq(Rows) /\ req \in Seq(Rows) /\ bat \in Seq(Rows)
  BY RequestRows
<1>3. Len(cal) = 1 /\ Len(req) = 6 /\ Len(bat) = 3 /\ DOMAIN bat = 1..3
  BY DEF CallChecks, RequestChecks, BatchChecks
<1>4. req[5].ok = (Len(r.proofs) <= BatchSize(call.metadata[Us]))
  BY DEF RequestChecks, Check
<1>5. bat[1].ok = (Cardinality(NoncesOf(r)) = 1) /\ bat[3].ok = Distinct(KeysIn(r))
  BY DEF BatchChecks, Check, Distinct
<1>6. \A i \in 1..n : each[i] = "ok"
  <2>1. DOMAIN each = 1..n
    OBVIOUS
  <2> HIDE DEF each
  <2> QED BY <1>1, <2>1, EachEndsOK DEF one
<1> HIDE DEF cal, req, bat
<1>7. \A i \in 1..6 : req[i].ok
  <2>1. \A i \in 1..Len(req) : req[i].ok
    BY <1>1, <1>2, RowsHaveErrors, TwoRowsOK, Zenon
  <2> QED BY <1>3, <2>1, Zenon
<1>8. \A i \in 1..3 : bat[i].ok
  <2>1. \A i \in 1..3 : bat[i].err # "ok"
    <3>1. \A i \in 1..3 : bat[i] \in Rows
      BY <1>2, <1>3, ElementOfSeq
    <3> QED BY <3>1, RowsHaveErrors, Zenon
  <2>2. FirstError(bat) = "ok" /\ DOMAIN bat = 1..3 /\ 3 \in Nat
    BY <1>1, <1>3
  <2> QED BY <2>1, <2>2, FirstErrorOK, Zenon
<1>9. req[5].ok /\ bat[1].ok /\ bat[3].ok
  <2>1. 5 \in 1..6 /\ 1 \in 1..3 /\ 3 \in 1..3
    OBVIOUS
  <2> QED BY <1>7, <1>8, <2>1, Zenon
<1>10. \A i \in 1..n : VerifyProof(r.proofs[i], t) = "ok"
  BY <1>6
<1> QED BY <1>4, <1>5, <1>9, <1>10, Zenon

----------------------------------------------------------------------------
(***************************************************************************)
(* The inductive invariant.                                                *)
(***************************************************************************)
\* A proof that was made is signed over its own header and claims with a
\* key of the wallet that made it.
Signed(m) ==
  \E key, h, c :
    /\ m.proof = SignedBy(key, h, c) /\ key \in Range(KeysOf[m.by])
    /\ c.iat \in Nat
    /\ (\E x : c.aud = <<x>>) \/ (\E x, y : c.aud = <<x, y>>)

\* What lasts of a verdict: the proofs were made, on one nonce.
Good(r, t) ==
  /\ DOMAIN r.proofs = 1..Len(r.proofs)
  /\ Len(r.proofs) <= BatchSize(call.metadata[Us])
  /\ Cardinality(Range(KeysIn(r))) = Len(r.proofs)
  /\ \A i \in DOMAIN r.proofs : Proven(r.proofs[i], 0) /\ Proven(r.proofs[i], t - MaxAge - Skew)
  /\ \E n : NoncesOf(r) = {n}

CallOK == call \in Calls /\ now \in Nat

MadeOK == \A m \in made : Signed(m)

HandlersOK ==
  /\ DOMAIN handler = Handlers
  /\ \A h \in Handlers : \A s : s = handler[h] /\ s # None => s.verdict = "ok" /\ Good(s.request, s.at)

\* A nonce that was redeemed is neither in the store nor still to be handed
\* out, so it is never in the store again.
StoreOK ==
  /\ live \subseteq Nonces /\ unissued \subseteq Nonces /\ live \cap unissued = {}
  /\ call.store => \A s \in served : \A n \in NoncesOf(s.request) \ {None} :
                     n \notin live /\ n \notin unissued

ServedOK ==
  \A s \in served : Good(s.request, s.at) /\ (call.store /\ s.again => NoncesOf(s.request) = {None})

SpentOK ==
  \A s \in spent : /\ NoncesOf(s.request) = {s.nonce}
                  /\ \A i \in DOMAIN s.request.proofs : Proven(s.request.proofs[i], 0)

IInv == CallOK /\ MadeOK /\ HandlersOK /\ StoreOK /\ ServedOK /\ SpentOK

----------------------------------------------------------------------------
(***************************************************************************)
(* A proof that verifies was made.                                         *)
(***************************************************************************)
\* Whoever changes the header or the claims of a proof leaves a signature
\* that is not over them.
LEMMA ChangedBreaksSignature ==
  ASSUME NEW key, NEW h, NEW c, NEW q, NEW k,
         q \in Changed(SignedBy(key, h, c)),
         q.sig = [by |-> k, over |-> <<q.header, q.claims>>]
  PROVE  q = SignedBy(key, h, c)
<1> DEFINE p == SignedBy(key, h, c)
<1>1. /\ p.header = h /\ p.claims = c /\ p.sig = [by |-> key, over |-> <<h, c>>]
      /\ DOMAIN p = {"header", "claims", "sig"} /\ p = [f \in DOMAIN p |-> p[f]]
  BY DEF SignedBy
<1> HIDE DEF p
<1>2. \/ \E x : q = [p EXCEPT !.header = [p.header EXCEPT !.key = x]]
      \/ \E x : q = [p EXCEPT !.header = [p.header EXCEPT !.params = x]]
      \/ \E x : q = [p EXCEPT !.claims = [p.claims EXCEPT !.nonce = x]]
  <2>1. q \in Changed(p)
    BY DEF p
  <2> QED BY <2>1, Zenon DEF Changed
<1>3. q.sig = p.sig /\ DOMAIN q = DOMAIN p /\ q = [f \in DOMAIN p |-> q[f]]
  <2>1. ASSUME NEW x, q = [p EXCEPT !.header = x]
        PROVE  q.sig = p.sig /\ DOMAIN q = DOMAIN p /\ q = [f \in DOMAIN p |-> q[f]]
    BY <1>1, <2>1, Zenon
  <2>2. ASSUME NEW x, q = [p EXCEPT !.claims = x]
        PROVE  q.sig = p.sig /\ DOMAIN q = DOMAIN p /\ q = [f \in DOMAIN p |-> q[f]]
    BY <1>1, <2>2, Zenon
  <2> QED BY <1>2, <2>1, <2>2, Zenon
<1>4. <<q.header, q.claims>> = <<h, c>>
  BY <1>1, <1>3
<1>5. q.header = h /\ q.claims = c
  BY <1>4
<1>6. \A f \in DOMAIN p : q[f] = p[f]
  BY <1>1, <1>3, <1>5
<1>7. [f \in DOMAIN p |-> q[f]] = [f \in DOMAIN p |-> p[f]]
  BY <1>6, Zenon
<1> QED BY <1>1, <1>3, <1>7, Zenon DEF p

\* A proof that arrives and verifies at time t is one that was made.
LEMMA VerifiedWasMade ==
  ASSUME IInv, NEW q, NEW t \in Nat, VerifyProof(q, t) = "ok",
         q \in Proofs \cup UNION {Changed(p) : p \in Proofs}
  PROVE  Proven(q, 0) /\ Proven(q, t - MaxAge - Skew)
<1>1. /\ q.sig = [by |-> NamedKey(q.header), over |-> <<q.header, q.claims>>]
      /\ Len(q.claims.aud) = 1 /\ q.claims.aud[1] = Us
      /\ FreshAt(q.claims.iat, t)
  BY ProofPasses
<1>2. PICK p \in Proofs : q = p \/ q \in Changed(p)
  OBVIOUS
<1>3. PICK m \in made : m.proof = p
  BY <1>2, Zenon DEF Proofs
<1>4. PICK key, h, c : /\ p = SignedBy(key, h, c) /\ key \in Range(KeysOf[m.by])
                       /\ c.iat \in Nat
                       /\ (\E x : c.aud = <<x>>) \/ (\E x, y : c.aud = <<x, y>>)
  BY <1>3, Zenon DEF IInv, MadeOK, Signed
<1>5. q = p
  BY <1>1, <1>2, <1>4, ChangedBreaksSignature, Zenon
<1>6. q.header = h /\ q.claims = c /\ q.sig = [by |-> key, over |-> <<h, c>>]
  <2>1. q = SignedBy(key, h, c)
    BY <1>4, <1>5, Zenon
  <2> QED BY <2>1 DEF SignedBy
<1>7. NamedKey(q.header) = key
  <2> DEFINE k == NamedKey(q.header)
  <2>1. [by |-> k, over |-> <<q.header, q.claims>>] = [by |-> key, over |-> <<h, c>>]
    BY <1>1, <1>6, Zenon
  <2> HIDE DEF k
  <2>2. k = key
    BY <2>1
  <2> QED BY <2>2 DEF k
<1>8. c.aud = <<Us>>
  <2>1. CASE \E x : c.aud = <<x>>
    <3>1. PICK x : c.aud = <<x>>
      BY <2>1
    <3> QED BY <1>1, <1>6, <3>1
  <2>2. CASE \E x, y : c.aud = <<x, y>>
    <3>1. PICK x, y : c.aud = <<x, y>>
      BY <2>2
    <3> QED BY <1>1, <1>6, <3>1
  <2> QED BY <1>4, <2>1, <2>2
<1>9. c.iat >= 0 /\ c.iat >= t - MaxAge - Skew
  BY <1>1, <1>4, <1>6, VciAssumption DEF FreshAt
<1> QED BY <1>3, <1>4, <1>5, <1>6, <1>7, <1>8, <1>9, Zenon DEF Proven

\* Two things that are one.
LEMMA PairOfOne ==
  ASSUME NEW x, NEW y, Cardinality({x, y}) = 1
  PROVE  {x, y} = {x}
<1>1. IsFiniteSet({x, y})
  <2>1. IsFiniteSet({x})
    BY FS_Singleton, Zenon
  <2>2. IsFiniteSet({x} \cup {y})
    BY <2>1, FS_AddElement, Zenon
  <2>3. {x} \cup {y} = {x, y}
    OBVIOUS
  <2> QED BY <2>2, <2>3, Zenon
<1>2. PICK z : {x, y} = {z}
  BY <1>1, FS_Singleton, Zenon
<1> QED BY <1>2

\* One proof arrives, or two: as they were made or changed on the way.
LEMMA ArrivingProofs ==
  ASSUME NEW r \in Arriving
  PROVE  LET P == Proofs \cup UNION {Changed(p) : p \in Proofs}
         IN  (\E p \in P : r.proofs = <<p>>) \/ (\E p, q \in P : r.proofs = <<p, q>>)
<1> DEFINE P == Proofs \cup UNION {Changed(p) : p \in Proofs}
<1>1. ASSUME NEW p \in P, r = Request(<<p>>) PROVE r.proofs = <<p>>
  BY <1>1 DEF Request
<1>2. ASSUME NEW p \in Proofs, NEW q \in Proofs, r = Request(<<p, q>>) PROVE r.proofs = <<p, q>>
  BY <1>2 DEF Request
<1>3. ASSUME NEW p \in Proofs, r = [Request(<<p>>) EXCEPT !.types = {"jwt", "di_vp"}]
      PROVE  r.proofs = <<p>>
  BY <1>3 DEF Request
<1>4. ASSUME NEW p \in Proofs, r = [Request(<<p>>) EXCEPT !.identifier = "pid1"]
      PROVE  r.proofs = <<p>>
  BY <1>4 DEF Request
<1>5. Proofs \subseteq P
  BY Zenon
<1>6. \/ \E p \in P : r = Request(<<p>>)
      \/ \E p, q \in Proofs : r = Request(<<p, q>>)
      \/ \E p \in Proofs : r = [Request(<<p>>) EXCEPT !.types = {"jwt", "di_vp"}]
      \/ \E p \in Proofs : r = [Request(<<p>>) EXCEPT !.identifier = "pid1"]
  <2> DEFINE pairs == {Request(<<p, q>>) : p, q \in Proofs}
  <2>1. \A x \in pairs : \E p, q \in Proofs : x = Request(<<p, q>>)
    BY SMT
  <2>2. \/ r \in {Request(<<p>>) : p \in P}
        \/ r \in pairs
        \/ r \in {[Request(<<p>>) EXCEPT !.types = {"jwt", "di_vp"}] : p \in Proofs}
        \/ r \in {[Request(<<p>>) EXCEPT !.identifier = "pid1"] : p \in Proofs}
    <3> DEFINE A == {Request(<<p>>) : p \in P}
               C == {[Request(<<p>>) EXCEPT !.types = {"jwt", "di_vp"}] : p \in Proofs}
               D == {[Request(<<p>>) EXCEPT !.identifier = "pid1"] : p \in Proofs}
    <3>1. Arriving = ((A \cup pairs) \cup C) \cup D
      BY DEF Arriving
    <3> HIDE DEF A, C, D, pairs
    <3>2. r \in A \/ r \in pairs \/ r \in C \/ r \in D
      BY <3>1, Zenon
    <3> QED BY <3>2 DEF A, C, D
  <2> HIDE DEF pairs, P
  <2> QED BY <2>1, <2>2, Zenon
<1>7. (\E p \in P : r.proofs = <<p>>) \/ (\E p, q \in P : r.proofs = <<p, q>>)
  <2> HIDE DEF P
  <2> QED BY <1>1, <1>2, <1>3, <1>4, <1>5, <1>6, Zenon
<1> QED BY <1>7

\* A request that arrives and verifies is good.
LEMMA ArrivingIsGood ==
  ASSUME IInv, NEW r \in Arriving, NEW t \in Nat, Verify(r, t) = "ok"
  PROVE  Good(r, t)
<1> DEFINE P == Proofs \cup UNION {Changed(p) : p \in Proofs}
<1>1. (\E p \in P : r.proofs = <<p>>) \/ (\E p, q \in P : r.proofs = <<p, q>>)
  BY ArrivingProofs
<1> DEFINE n == Len(r.proofs)
<1>2. n \in Nat /\ DOMAIN r.proofs = 1..n /\ \A i \in 1..n : r.proofs[i] \in P
  <2> HIDE DEF P
  <2> QED BY <1>1
<1>3. /\ n <= BatchSize(call.metadata[Us])
      /\ \A i \in 1..n : VerifyProof(r.proofs[i], t) = "ok"
      /\ Cardinality(NoncesOf(r)) = 1
      /\ Distinct(KeysIn(r))
  BY <1>2, RequestPasses
<1>4. \A i \in 1..n : Proven(r.proofs[i], 0) /\ Proven(r.proofs[i], t - MaxAge - Skew)
  BY <1>2, <1>3, VerifiedWasMade, Zenon
<1>5. \E m : NoncesOf(r) = {m}
  <2>1. ASSUME NEW p, r.proofs = <<p>> PROVE \E m : NoncesOf(r) = {m}
    <3>1. NoncesOf(r) = {p.claims.nonce}
      BY <2>1 DEF NoncesOf
    <3> QED BY <3>1
  <2>2. ASSUME NEW p, NEW q, r.proofs = <<p, q>> PROVE \E m : NoncesOf(r) = {m}
    <3>1. NoncesOf(r) = {p.claims.nonce, q.claims.nonce}
      BY <2>2 DEF NoncesOf
    <3>2. Cardinality({p.claims.nonce, q.claims.nonce}) = 1
      BY <1>3, <3>1, Zenon
    <3>3. NoncesOf(r) = {p.claims.nonce}
      BY <3>1, <3>2, PairOfOne
    <3> QED BY <3>3
  <2> QED BY <1>1, <2>1, <2>2, Zenon
<1>6. Cardinality(Range(KeysIn(r))) = n
  <2>1. Len(KeysIn(r)) = n
    BY <1>2 DEF KeysIn
  <2> QED BY <1>3, <2>1, Zenon DEF Distinct
<1> QED BY <1>2, <1>3, <1>4, <1>5, <1>6, Zenon DEF Good

----------------------------------------------------------------------------
(***************************************************************************)
(* The steps.                                                              *)
(***************************************************************************)
\* A verdict lasts: proofs are never unmade and the call never changes.
LEMMA GoodLasts ==
  ASSUME call' = call, made \subseteq made'
  PROVE  /\ \A p, since : Proven(p, since) => Proven(p, since)'
         /\ \A r, t : Good(r, t) => Good(r, t)'
<1>1. ASSUME NEW p, NEW since, Proven(p, since) PROVE Proven(p, since)'
  BY <1>1, Zenon DEF Proven, NamedKey, Resolve
<1>2. ASSUME NEW r, NEW t, Good(r, t) PROVE Good(r, t)'
  <2>1. \A i \in DOMAIN r.proofs :
          Proven(r.proofs[i], 0)' /\ Proven(r.proofs[i], t - MaxAge - Skew)'
    BY <1>1, <1>2, Zenon DEF Good
  <2>2. KeysIn(r)' = KeysIn(r)
    BY Zenon DEF KeysIn, NamedKey, Resolve
  <2> QED BY <1>2, <2>1, <2>2, Zenon DEF Good
<1> QED BY <1>1, <1>2, Zenon

\* A step that only adds proofs or lets time pass.
LEMMA OutsideStep ==
  ASSUME IInv, call' = call, made \subseteq made', now' \in Nat,
         UNCHANGED <<live, unissued, handler, served, spent>>, MadeOK'
  PROVE  IInv'
<1>1. \A p, since : Proven(p, since) => Proven(p, since)'
  BY GoodLasts
<1>2. \A r, t : Good(r, t) => Good(r, t)'
  BY GoodLasts
<1>3. CallOK'
  BY DEF IInv, CallOK
<1>4. HandlersOK'
  BY <1>2, Zenon DEF IInv, HandlersOK
<1>5. StoreOK'
  BY Zenon DEF IInv, StoreOK
<1>6. ServedOK'
  BY <1>2, Zenon DEF IInv, ServedOK
<1>7. SpentOK'
  BY <1>1, Zenon DEF IInv, SpentOK
<1> QED BY <1>3, <1>4, <1>5, <1>6, <1>7, Zenon DEF IInv

\* Reading an offer signs nothing and asks nothing of the store.
LEMMA DiscoverStep ==
  ASSUME IInv, NEW w, NEW o, Discover(w, o)
  PROVE  IInv'
<1>1. UNCHANGED <<now, call, live, unissued, made, handler, served, spent>>
  BY Zenon DEF Discover
<1>2. MadeOK'
  BY <1>1, Zenon DEF IInv, MadeOK, Signed
<1> QED BY <1>1, <1>2, OutsideStep DEF IInv, CallOK

\* A nonce leaves the unissued ones for the store.
LEMMA TakeNonceStep ==
  ASSUME IInv, NEW w, TakeNonce(w)
  PROVE  IInv'
<1>1. PICK n \in unissued : unissued' = unissued \ {n} /\ live' = live \cup {n}
  BY Zenon DEF TakeNonce
<1>2. UNCHANGED <<now, call, made, handler, served, spent>>
  BY Zenon DEF TakeNonce
<1>3. \A r, t : Good(r, t) => Good(r, t)'
  BY <1>2, GoodLasts
<1>4. \A p, since : Proven(p, since) => Proven(p, since)'
  BY <1>2, GoodLasts
<1>5. CallOK' /\ MadeOK'
  BY <1>2, Zenon DEF IInv, CallOK, MadeOK, Signed
<1>6. HandlersOK' /\ ServedOK' /\ SpentOK'
  BY <1>2, <1>3, <1>4, Zenon DEF IInv, HandlersOK, ServedOK, SpentOK
<1>7. StoreOK'
  BY <1>1, <1>2 DEF IInv, StoreOK
<1> QED BY <1>5, <1>6, <1>7, Zenon DEF IInv

\* What a wallet signs, with a slip or without one, it signs with its key.
LEMMA ProveStep ==
  ASSUME IInv, NEW w, NEW n, NEW slip \in call.slips, Prove(w, n, slip)
  PROVE  IInv'
<1> DEFINE key == KeysOf[w][n]
           H == Header(w, n)
           C == Claims(w)
           W == [C EXCEPT !.aud = C.aud \o <<Us>>]
           p == CASE slip = "none"   -> SignedBy(key, H, C)
                  [] slip = "aud"    -> SignedBy(key, H, W)
                  [] slip = "future" -> SignedBy(key, H, [C EXCEPT !.iat = MaxTime + Skew])
                  [] slip = "nonce"  -> SignedBy(key, H, [C EXCEPT !.nonce = None])
                  [] slip = "early"  -> SignedBy(key, H, [C EXCEPT !.nbf = now + Skew + 1])
                  [] slip = "expired" -> SignedBy(key, H, [C EXCEPT !.exp = now - Skew])
                  [] slip = "iss"    -> SignedBy(key, H, [C EXCEPT !.iss = Bad])
                  [] slip = "alg"    -> SignedBy(key, [H EXCEPT !.alg = "other"], C)
                  [] slip = "typ"    -> SignedBy(key, [H EXCEPT !.typ = "kb"], C)
                  [] slip = "attest" -> SignedBy(key, [H EXCEPT !.attest = Bad], C)
                  [] slip = "private" -> SignedBy(key, [H EXCEPT !.private = TRUE], C)
<1>1. made' = made \cup {[by |-> w, proof |-> p, slip |-> slip, at |-> now]}
  BY Zenon DEF Prove
<1>2. n \in DOMAIN KeysOf[w] /\ UNCHANGED <<now, call, session, live, unissued, handler, served, spent>>
  BY Zenon DEF Prove
<1>3. key \in Range(KeysOf[w])
  BY <1>2, Zenon DEF Range
<1>4. slip \in Slips /\ now \in Nat
  BY VciAssumption DEF IInv, CallOK
<1>5. C.iat \in Nat /\ \E x : C.aud = <<x>>
  BY <1>4 DEF Claims
<1>6. W.iat \in Nat /\ \E x, y : W.aud = <<x, y>>
  BY <1>4 DEF Claims
<1>7. LET c == [C EXCEPT !.iat = MaxTime + Skew] IN c.iat \in Nat /\ \E x : c.aud = <<x>>
  BY <1>4, VciAssumption DEF Claims
<1>8. LET c == [C EXCEPT !.nonce = None] IN c.iat \in Nat /\ \E x : c.aud = <<x>>
  BY <1>4 DEF Claims
<1>11. LET c == [C EXCEPT !.nbf = now + Skew + 1] IN c.iat \in Nat /\ \E x : c.aud = <<x>>
  BY <1>4 DEF Claims
<1>12. LET c == [C EXCEPT !.exp = now - Skew] IN c.iat \in Nat /\ \E x : c.aud = <<x>>
  BY <1>4 DEF Claims
<1>13. LET c == [C EXCEPT !.iss = Bad] IN c.iat \in Nat /\ \E x : c.aud = <<x>>
  BY <1>4 DEF Claims
<1> HIDE DEF key, H, C, W
<1>9. \E h, c : /\ p = SignedBy(key, h, c) /\ c.iat \in Nat
                /\ (\E x : c.aud = <<x>>) \/ (\E x, y : c.aud = <<x, y>>)
  <2>1. CASE slip = "none"
    BY <1>5, <2>1
  <2>2. CASE slip = "aud"
    BY <1>6, <2>2
  <2>3. CASE slip = "future"
    BY <1>7, <2>3
  <2>4. CASE slip = "nonce"
    BY <1>8, <2>4
  <2>5. CASE slip = "alg"
    BY <1>5, <2>5
  <2>6. CASE slip = "typ"
    BY <1>5, <2>6
  <2>7. CASE slip = "attest"
    BY <1>5, <2>7
  <2>8. CASE slip = "private"
    BY <1>5, <2>8
  <2>9. CASE slip = "early"
    BY <1>11, <2>9
  <2>10. CASE slip = "expired"
    BY <1>12, <2>10
  <2>11. CASE slip = "iss"
    BY <1>13, <2>11
  <2> QED BY <1>4, <2>1, <2>2, <2>3, <2>4, <2>5, <2>6, <2>7, <2>8, <2>9, <2>10, <2>11 DEF Slips
<1> HIDE DEF p
<1>10. MadeOK'
  <2>1. ASSUME NEW m, m = [by |-> w, proof |-> p, slip |-> slip, at |-> now] PROVE Signed(m)
    <3>1. m.by = w /\ m.proof = p
      BY <2>1
    <3> QED BY <1>3, <1>9, <3>1, Zenon DEF Signed
  <2>2. \A m \in made : Signed(m)
    BY Zenon DEF IInv, MadeOK
  <2>3. \A m \in made' : Signed(m)
    BY <1>1, <2>1, <2>2, Zenon
  <2> QED BY <2>3, Zenon DEF MadeOK
<1> QED BY <1>1, <1>2, <1>4, <1>10, OutsideStep

\* A request is taken in with a verdict that is true when it is given.
LEMMA ReceiveStep ==
  ASSUME IInv, NEW h \in Handlers, NEW r \in Arriving, Receive(h, r)
  PROVE  IInv'
<1>1. /\ Verify(r, now) = "ok"
      /\ handler' = [handler EXCEPT ![h] = [request |-> r, at |-> now, verdict |-> "ok"]]
      /\ UNCHANGED <<now, call, session, live, unissued, made, served, spent>>
  BY Zenon DEF Receive
<1>2. \A q, t : Good(q, t) => Good(q, t)'
  BY <1>1, GoodLasts
<1>3. \A p, since : Proven(p, since) => Proven(p, since)'
  BY <1>1, GoodLasts
<1>4. Good(r, now)
  BY <1>1, ArrivingIsGood DEF IInv, CallOK
<1>5. CallOK' /\ MadeOK' /\ StoreOK'
  BY <1>1, Zenon DEF IInv, CallOK, MadeOK, Signed, StoreOK
<1>6. ServedOK' /\ SpentOK'
  BY <1>1, <1>2, <1>3, Zenon DEF IInv, ServedOK, SpentOK
<1>7. HandlersOK'
  <2>1. DOMAIN handler' = Handlers
    BY <1>1, Zenon DEF IInv, HandlersOK
  <2>2. ASSUME NEW g \in Handlers, NEW s, s = handler'[g], s # None
        PROVE  s.verdict = "ok" /\ Good(s.request, s.at)
    <3>1. CASE g = h
      <4>1. s = [request |-> r, at |-> now, verdict |-> "ok"]
        BY <1>1, <2>2, <3>1, Zenon DEF IInv, HandlersOK
      <4>2. s.verdict = "ok" /\ s.request = r /\ s.at = now
        BY <4>1
      <4> QED BY <1>4, <4>2, Zenon
    <3>2. CASE g # h
      <4>1. s = handler[g]
        BY <1>1, <2>2, <3>2, Zenon DEF IInv, HandlersOK
      <4> QED BY <2>2, <4>1, Zenon DEF IInv, HandlersOK
    <3> QED BY <3>1, <3>2
  <2> QED BY <1>2, <2>1, <2>2, Zenon DEF HandlersOK
<1> QED BY <1>5, <1>6, <1>7, Zenon DEF IInv

\* check_nonce: the nonce of a good request leaves the store with it.
LEMMA ConsumeNonceStep ==
  ASSUME IInv, NEW h \in Handlers, ConsumeNonce(h)
  PROVE  IInv'
<1>1. PICK s : s = handler[h]
  OBVIOUS
<1>2. PICK n : n = NonceToConsume(s.request)
  OBVIOUS
<1> DEFINE good == s.verdict = "ok" /\ (n = None \/ n \in live)
           new == [request |-> s.request, at |-> s.at, again |-> n \in Redeemed]
           gone == [nonce |-> n, request |-> s.request]
<1>3. /\ s # None
      /\ live' = live \ {n}
      /\ spent' = IF n \in live THEN spent \cup {gone} ELSE spent
      /\ handler' = [handler EXCEPT ![h] = None]
      /\ served' = IF good THEN served \cup {new} ELSE served
      /\ UNCHANGED <<now, call, session, unissued, made>>
  BY <1>1, <1>2, Zenon DEF ConsumeNonce, Idle
<1>4. Good(s.request, s.at)
  BY <1>1, <1>3, Zenon DEF IInv, HandlersOK
<1>5. PICK m : NoncesOf(s.request) = {m}
  BY <1>4, Zenon DEF Good
<1>6. n = IF call.store THEN m ELSE None
  BY <1>2, <1>5 DEF NonceToConsume
<1>7. \A r, t : Good(r, t) => Good(r, t)'
  BY <1>3, GoodLasts
<1>8. \A p, since : Proven(p, since) => Proven(p, since)'
  BY <1>3, GoodLasts
<1>9. new.request = s.request /\ new.at = s.at /\ new.again = (n \in Redeemed)
      /\ gone.nonce = n /\ gone.request = s.request
  OBVIOUS
<1>10. None \notin live /\ (n \in live => call.store /\ n = m)
  BY <1>6, VciAssumption DEF IInv, StoreOK
<1> HIDE DEF new, gone
<1>11. CallOK' /\ MadeOK'
  BY <1>3, Zenon DEF IInv, CallOK, MadeOK, Signed
<1>12. HandlersOK'
  <2>1. DOMAIN handler' = Handlers
    BY <1>3, Zenon DEF IInv, HandlersOK
  <2>2. ASSUME NEW g \in Handlers, NEW x, x = handler'[g], x # None
        PROVE  x.verdict = "ok" /\ Good(x.request, x.at)
    <3>1. x = handler[g]
      BY <1>3, <2>2, Zenon DEF IInv, HandlersOK
    <3> QED BY <2>2, <3>1, Zenon DEF IInv, HandlersOK
  <2> QED BY <1>7, <2>1, <2>2, Zenon DEF HandlersOK
<1>13. call.store /\ n \in live => n \notin Redeemed
  <2>1. SUFFICES ASSUME call.store, n \in live, n \in Redeemed PROVE FALSE
    OBVIOUS
  <2>2. PICK x \in served : n \in NoncesOf(x.request)
    BY <2>1, Zenon DEF Redeemed
  <2> QED BY <1>10, <2>1, <2>2 DEF IInv, StoreOK
<1>14. ServedOK'
  <2>1. ASSUME good, call.store, new.again PROVE NoncesOf(new.request) = {None}
    BY <1>5, <1>6, <1>9, <1>13, <2>1
  <2>2. \A x \in served' : x \in served \/ (good /\ x = new)
    BY <1>3, Zenon
  <2>3. \A x \in served' : Good(x.request, x.at)'
    BY <1>4, <1>7, <1>9, <2>2, Zenon DEF IInv, ServedOK
  <2>4. \A x \in served' : call.store /\ x.again => NoncesOf(x.request) = {None}
    BY <2>1, <2>2, Zenon DEF IInv, ServedOK
  <2>5. call' = call
    BY <1>3
  <2> QED BY <2>3, <2>4, <2>5, Zenon DEF ServedOK
<1>15. SpentOK'
  <2>1. \A x \in spent' : x \in spent \/ (n \in live /\ x = gone)
    BY <1>3, Zenon
  <2>2. \A i \in DOMAIN s.request.proofs : Proven(s.request.proofs[i], 0)'
    BY <1>4, <1>8, Zenon DEF Good
  <2>3. n \in live => NoncesOf(gone.request) = {gone.nonce}
    BY <1>5, <1>9, <1>10, Zenon
  <2> QED BY <1>8, <1>9, <2>1, <2>2, <2>3, Zenon DEF IInv, SpentOK
<1>16. StoreOK'
  <2>1. live' \subseteq Nonces /\ unissued' \subseteq Nonces /\ live' \cap unissued' = {}
    BY <1>3, SMT DEF IInv, StoreOK
  <2>2. ASSUME call.store, NEW x \in served', NEW k \in NoncesOf(x.request) \ {None}
        PROVE  k \notin live' /\ k \notin unissued'
    <3>1. CASE x \in served
      BY <1>3, <2>2, <3>1, SMT DEF IInv, StoreOK
    <3>2. CASE x \notin served
      <4>1. good /\ x = new
        BY <1>3, <3>2, Zenon
      <4>2. k = n /\ n \in live
        BY <1>5, <1>6, <1>9, <2>2, <4>1
      <4> QED BY <1>3, <4>2, SMT DEF IInv, StoreOK
    <3> QED BY <3>1, <3>2
  <2>3. call' = call
    BY <1>3
  <2> QED BY <2>1, <2>2, <2>3, Zenon DEF StoreOK
<1> QED BY <1>11, <1>12, <1>14, <1>15, <1>16, Zenon DEF IInv

----------------------------------------------------------------------------
\* Nothing is signed, served or spent at first.
LEMMA InitIsGood == Init => IInv
BY VciAssumption DEF Init, IInv, CallOK, MadeOK, HandlersOK, StoreOK, ServedOK, SpentOK

\* Every action preserves the invariant.
LEMMA NextIsGood == IInv /\ [Next]_vars => IInv'
<1> SUFFICES ASSUME IInv, [Next]_vars PROVE IInv'
  OBVIOUS
<1>1. ASSUME NEW w \in Wallets, NEW o \in Offers, Discover(w, o) PROVE IInv'
  BY <1>1, DiscoverStep
<1>2. ASSUME NEW w \in Wallets, TakeNonce(w) PROVE IInv'
  BY <1>2, TakeNonceStep
<1>3. ASSUME NEW w \in Wallets, NEW n \in 1..2, NEW slip \in call.slips, Prove(w, n, slip)
      PROVE  IInv'
  BY <1>3, ProveStep
<1>4. CASE Tick
  <2>1. now' = now + 1 /\ UNCHANGED <<call, session, live, unissued, made, handler, served, spent>>
    BY <1>4 DEF Tick
  <2>2. MadeOK'
    BY <2>1, Zenon DEF IInv, MadeOK, Signed
  <2> QED BY <2>1, <2>2, OutsideStep DEF IInv, CallOK
<1>5. ASSUME NEW h \in Handlers, NEW r \in Arriving, Receive(h, r) PROVE IInv'
  BY <1>5, ReceiveStep
<1>6. ASSUME NEW h \in Handlers, ConsumeNonce(h) PROVE IInv'
  BY <1>6, ConsumeNonceStep
<1>7. CASE UNCHANGED vars
  <2>1. UNCHANGED <<now, call, live, unissued, made, handler, served, spent>>
    BY <1>7, Zenon DEF vars
  <2>2. MadeOK'
    BY <2>1, Zenon DEF IInv, MadeOK, Signed
  <2> QED BY <2>1, <2>2, OutsideStep DEF IInv, CallOK
<1> QED BY <1>1, <1>2, <1>3, <1>4, <1>5, <1>6, <1>7, Zenon DEF Next

(***************************************************************************)
(* Where the endpoint has a store, a nonce buys one issuance, however the  *)
(* handlers interleave between verifying a request and asking the store.   *)
(***************************************************************************)
THEOREM ANonceBuysOneIssuance == Spec => []OneIssuancePerNonce
<1>1. IInv => OneIssuancePerNonce
  BY Zenon DEF IInv, ServedOK, OneIssuancePerNonce
<1> QED BY <1>1, InitIsGood, NextIsGood, PTL DEF Spec

(***************************************************************************)
(* A nonce is consumed only for a request whose every proof was signed     *)
(* with it, for this issuer, by the wallet whose key it names.             *)
(***************************************************************************)
THEOREM NoncesAreSpentOnProofs == Spec => []OnlyProofsSpendANonce
<1>1. IInv => OnlyProofsSpendANonce
  <2> SUFFICES ASSUME IInv, NEW s \in spent, NEW i \in DOMAIN s.request.proofs
               PROVE  s.request.proofs[i].claims.nonce = s.nonce /\ Proven(s.request.proofs[i], 0)
    BY Zenon DEF OnlyProofsSpendANonce
  <2>1. NoncesOf(s.request) = {s.nonce} /\ Proven(s.request.proofs[i], 0)
    BY Zenon DEF IInv, SpentOK
  <2>2. s.request.proofs[i].claims.nonce \in NoncesOf(s.request)
    BY Zenon DEF NoncesOf
  <2> QED BY <2>1, <2>2
<1> QED BY <1>1, InitIsGood, NextIsGood, PTL DEF Spec

(***************************************************************************)
(* N credentials mean N keys, each proven in time by the wallet that holds *)
(* it, and no more than the issuer advertises.                             *)
(***************************************************************************)
THEOREM BoundKeysAreProven == Spec => []EveryKeyIsProven
<1>1. IInv => EveryKeyIsProven
  BY Zenon DEF IInv, ServedOK, Good, EveryKeyIsProven, BatchSize, Advertised
<1> QED BY <1>1, InitIsGood, NextIsGood, PTL DEF Spec

----------------------------------------------------------------------------
(***************************************************************************)
(* And the other way: what an honest wallet sends is served.               *)
(***************************************************************************)
\* What a wallet signs for this issuer, without a slip, passes while fresh.
LEMMA HonestProofPasses ==
  ASSUME call \in Calls, NEW w \in Wallets, NEW n \in DOMAIN KeysOf[w],
         NEW t \in Nat, NEW at \in Nat, at \in (t - MaxAge)..t, NEW k \in Nonces, NEW c, NEW p,
         c = [aud |-> <<Us>>, iat |-> at, exp |-> None, nbf |-> None, iss |-> call.client, nonce |-> k],
         p = SignedBy(KeysOf[w][n], Header(w, n), c)
  PROVE  VerifyProof(p, t) = "ok" /\ NamedKey(p.header) = p.header.key
<1> DEFINE h == p.header
           key == KeysOf[w][n]
           attested == call.attested \/ call.resolver = "context"
           row1 == HeaderChecks(h)
           row2 == KeyParamChecks(h)
           row3 == AttestedCheck(h)
           row4 == SignatureCheck(p)
           row5 == ClaimChecks(p.claims, t)
<1>1. key \in Range(KeysOf[w])
  BY Zenon DEF Range
<1>2. /\ key # None /\ <<key>> # None /\ <<key>> # Bad
      /\ AlgOf[key] \in Allowed /\ key \in DOMAIN Enrolled /\ Enrolled[key] = key
  BY <1>1, AbsenceAssumption, EndpointAssumption, Zenon
<1>3. /\ call.style \in {"jwk", "x5c", "kid"} /\ (call.style = "x5c" => call.anchors)
      /\ call.style = "kid" => call.resolver \in {"registry", "context"} \ {None}
  BY EndpointAssumption, Zenon
<1>4. h = Header(w, n) /\ p.claims = c /\ p.sig = [by |-> key, over |-> <<h, c>>]
  BY DEF SignedBy
<1>5. /\ h.typ = "proof" /\ h.alg = AlgOf[key] /\ h.crit = {} /\ h.params = {call.style}
      /\ h.key = key /\ h.kid = key /\ h.private = FALSE /\ h.chain = TRUE
      /\ h.attest = IF attested THEN <<key>> ELSE None
  <2> DEFINE a == IF attested THEN <<key>> ELSE None
  <2>1. h = [typ |-> "proof", alg |-> AlgOf[key], crit |-> {}, params |-> {call.style},
             key |-> key, kid |-> key, private |-> FALSE, chain |-> TRUE, attest |-> a]
    BY <1>4, Zenon DEF Header
  <2> HIDE DEF a, h, key
  <2>2. /\ h.typ = "proof" /\ h.alg = AlgOf[key] /\ h.crit = {} /\ h.params = {call.style}
        /\ h.key = key /\ h.kid = key /\ h.private = FALSE /\ h.chain = TRUE /\ h.attest = a
    BY <2>1
  <2> QED BY <2>2, Zenon DEF a
<1> HIDE DEF h, key
<1>6. Param(h) = call.style
  BY <1>5 DEF Param
<1>7. NamedKey(h) = key
  <2>1. CASE call.style \in {"jwk", "x5c"}
    BY <1>5, <1>6, <2>1, Zenon DEF NamedKey
  <2>2. CASE call.style = "kid" /\ call.resolver = "registry"
    <3>1. Resolve(h) = key
      BY <1>2, <1>5, <2>2, Zenon DEF Resolve
    <3> QED BY <1>6, <2>2, <3>1 DEF NamedKey
  <2>3. CASE call.style = "kid" /\ call.resolver = "context"
    <3>1. h.attest = <<key>> /\ h.attest \notin {None, Bad}
      BY <1>2, <1>5, <2>3, Zenon
    <3>2. h.attest[1] = key
      BY <3>1
    <3>3. Resolve(h) = key
      BY <2>3, <3>1, <3>2 DEF Resolve
    <3> QED BY <1>6, <2>3, <3>3 DEF NamedKey
  <2> QED BY <1>3, <2>1, <2>2, <2>3, Zenon
<1>8. h.attest # Bad /\ h.attest # <<>> /\ (call.attested => h.attest # None)
      /\ (h.attest # None => key \in Range(h.attest))
  <2>1. CASE attested
    <3>1. h.attest = <<key>>
      BY <1>5, <2>1, Zenon
    <3>2. key \in Range(<<key>>) /\ <<key>> # <<>>
      BY DEF Range
    <3> QED BY <1>2, <3>1, <3>2, Zenon
  <2>2. CASE ~ attested
    <3>1. h.attest = None /\ ~ call.attested
      BY <1>5, <2>2, Zenon
    <3> QED BY <3>1, AbsenceAssumption, Zenon
  <2> QED BY <2>1, <2>2
<1>9. row1 \in Seq(Rows) /\ row2 \in Seq(Rows) /\ row3 \in Seq(Rows) /\ row4 \in Seq(Rows)
      /\ row5 \in Seq(Rows)
  BY ProofRows, Zenon DEF h
<1>10. Len(row1) = 5 /\ \A i \in 1..5 : row1[i].ok
  <2>1. Len(row1) = 5
    BY DEF HeaderChecks
  <2>2. /\ row1[1].ok = (h.typ = "proof")
        /\ row1[2].ok = (h.alg \in Allowed)
        /\ row1[3].ok = (h.crit = {})
        /\ row1[4].ok = (h.attest # Bad /\ h.attest # <<>>)
        /\ row1[5].ok = (call.attested => h.attest # None)
    BY DEF HeaderChecks, Check
  <2> HIDE DEF row1
  <2>3. row1[1].ok /\ row1[2].ok /\ row1[3].ok /\ row1[4].ok /\ row1[5].ok
    BY <1>2, <1>5, <1>8, <2>2, Zenon
  <2> QED BY <2>1, <2>3
<1>11. Len(row2) = 7 /\ \A i \in 1..7 : row2[i].ok
  <2>1. Cardinality(h.params) = 1
    BY <1>5, FS_Singleton, Zenon
  <2>2. h.params = {"x5c"} => call.anchors /\ h.chain
    BY <1>3, <1>5
  <2>3. h.params = {"kid"} => call.resolver # None
    BY <1>3, <1>5
  <2>4. h.params # {"trust_chain"}
    BY <1>3, <1>5
  <2>5. NamedKey(h) # None /\ AlgOf[NamedKey(h)] = h.alg
    BY <1>2, <1>5, <1>7, Zenon
  <2>6. h.params = {"jwk"} => ~ h.private
    BY <1>5
  <2>7. Len(row2) = 7
    BY DEF KeyParamChecks
  <2>8. /\ row2[1].ok = (Cardinality(h.params) = 1)
        /\ row2[2].ok = (h.params = {"jwk"} => ~ h.private)
        /\ row2[3].ok = (h.params = {"x5c"} => call.anchors /\ h.chain)
        /\ row2[4].ok = (h.params = {"kid"} => call.resolver # None)
        /\ row2[5].ok = (h.params # {"trust_chain"})
        /\ row2[6].ok = (NamedKey(h) # None)
        /\ row2[7].ok = (NamedKey(h) # None => AlgOf[NamedKey(h)] = h.alg)
    BY DEF KeyParamChecks, Check
  <2> HIDE DEF row2
  <2>9. row2[1].ok /\ row2[2].ok /\ row2[3].ok /\ row2[4].ok /\ row2[5].ok /\ row2[6].ok /\ row2[7].ok
    BY <2>1, <2>2, <2>3, <2>4, <2>5, <2>6, <2>8, Zenon
  <2> QED BY <2>7, <2>9
<1>12. Len(row3) = 1 /\ \A i \in 1..1 : row3[i].ok
  <2>1. Len(row3) = 1
    BY DEF AttestedCheck
  <2>2. /\ row3[1].ok = (h.attest # None => NamedKey(h) \in Range(h.attest))
    BY DEF AttestedCheck, Check
  <2> HIDE DEF row3
  <2>3. row3[1].ok
    BY <1>7, <1>8, <2>2, Zenon
  <2> QED BY <2>1, <2>3
<1>13. Len(row4) = 1 /\ \A i \in 1..1 : row4[i].ok
  <2>1. p.sig = [by |-> NamedKey(p.header), over |-> <<p.header, p.claims>>]
    BY <1>4, <1>7, Zenon DEF h
  <2>2. Len(row4) = 1
    BY DEF SignatureCheck
  <2>3. /\ row4[1].ok = (p.sig = [by |-> NamedKey(p.header), over |-> <<p.header, p.claims>>])
    BY DEF SignatureCheck, Check
  <2> HIDE DEF row4
  <2>4. row4[1].ok
    BY <2>1, <2>3, Zenon
  <2> QED BY <2>2, <2>4
<1>14. Len(row5) = 7 /\ \A i \in 1..7 : row5[i].ok
  <2>1. /\ p.claims.aud = <<Us>> /\ p.claims.iat = at /\ p.claims.exp = None /\ p.claims.nbf = None
        /\ p.claims.iss = call.client /\ p.claims.nonce = k
    BY <1>4
  <2>2. Len(p.claims.aud) = 1 /\ p.claims.aud[1] = Us
    BY <2>1
  <2>3. FreshAt(p.claims.iat, t)
    BY <2>1, VciAssumption, AbsenceAssumption DEF FreshAt
  <2>4. p.claims.nonce # Bad
    BY <2>1, AbsenceAssumption
  <2>5. /\ p.claims.exp # None => t - p.claims.exp < Skew
        /\ p.claims.nbf # None => p.claims.nbf - t <= Skew
        /\ p.claims.iss # Bad
        /\ call.client # None => p.claims.iss = call.client
    BY <2>1, EndpointAssumption
  <2>6. Len(row5) = 7
    BY DEF ClaimChecks
  <2>7. /\ row5[1].ok = (Len(p.claims.aud) = 1 /\ p.claims.aud[1] = Us)
        /\ row5[2].ok = (FreshAt(p.claims.iat, t))
        /\ row5[3].ok = (p.claims.exp # None => t - p.claims.exp < Skew)
        /\ row5[4].ok = (p.claims.nbf # None => p.claims.nbf - t <= Skew)
        /\ row5[5].ok = (p.claims.iss # Bad)
        /\ row5[6].ok = (call.client # None => p.claims.iss = call.client)
        /\ row5[7].ok = (p.claims.nonce # Bad)
    BY DEF ClaimChecks, Check, FreshAt
  <2> HIDE DEF row5
  <2>8. /\ row5[1].ok /\ row5[2].ok /\ row5[3].ok /\ row5[4].ok
        /\ row5[5].ok /\ row5[6].ok /\ row5[7].ok
    BY <2>2, <2>3, <2>4, <2>5, <2>7, Zenon
  <2> QED BY <2>6, <2>8
<1> HIDE DEF row1, row2, row3, row4, row5
<1>15. FirstError(row1 \o row2) = "ok"
  BY <1>9, <1>10, <1>11, TwoRowsAllOK
<1>16. row3 \o row4 \in Seq(Rows) /\ \A i \in 1..Len(row3 \o row4) : (row3 \o row4)[i].ok
  <2>1. row3 \o row4 \in Seq(Rows) /\ Len(row3 \o row4) = 2
        /\ (row3 \o row4)[1] = row3[1] /\ (row3 \o row4)[2] = row4[1]
    <3>1. Len(row3) = 1 /\ Len(row4) = 1
      BY <1>12, <1>13
    <3>2. row3 \in Seq(Rows) /\ row4 \in Seq(Rows)
      BY <1>9
    <3> QED BY <3>1, <3>2, TwoSingleChecks
  <2>2. row3[1].ok /\ row4[1].ok
    BY <1>12, <1>13
  <2>3. (row3 \o row4)[1].ok /\ (row3 \o row4)[2].ok
    BY <2>1, <2>2, Zenon
  <2> QED BY <2>1, <2>3
<1>17. FirstError((row3 \o row4) \o row5) = "ok"
  BY <1>9, <1>14, <1>16, TwoRowsAllOK
<1>18. VerifyProof(p, t) = "ok"
  BY <1>15, <1>17, Zenon DEF VerifyProof, row1, row2, row3, row4, row5, h
<1>19. NamedKey(p.header) = p.header.key
  BY <1>5, <1>7 DEF h
<1> QED BY <1>18, <1>19

OneOrTwo(proofs) ==
  (\E p : proofs = <<p>>) \/ (\E p, q : proofs = <<p, q>> /\ p.header.key # q.header.key)

AllPass(proofs, t, m) ==
  \A i \in DOMAIN proofs : /\ VerifyProof(proofs[i], t) = "ok"
                          /\ NamedKey(proofs[i].header) = proofs[i].header.key
                          /\ proofs[i].claims.nonce = m

\* A request of proofs that pass, on one nonce and as many keys, passes.
LEMMA HonestRequestPasses ==
  ASSUME call \in Calls, NEW proofs, NEW t, NEW m, m # None,
         OneOrTwo(proofs), AllPass(proofs, t, m), Len(proofs) <= BatchSize(call.metadata[Us])
  PROVE  Verify(Request(proofs), t) = "ok" /\ NoncesOf(Request(proofs)) = {m}
<1> USE DEF OneOrTwo, AllPass
<1> DEFINE r == Request(proofs)
           n == Len(proofs)
           cal == CallChecks
           req == RequestChecks(r)
           bat == BatchChecks(r)
           each == [i \in DOMAIN r.proofs |-> VerifyProof(r.proofs[i], t)]
           row == [i \in DOMAIN each |-> Check(each[i] = "ok", each[i])]
<1>1. n \in Nat /\ n # 0 /\ DOMAIN proofs = 1..n /\ proofs # <<>>
  BY SMT
<1>2. r.config = "pid" /\ r.identifier = None /\ r.types = {"jwt"} /\ r.proofs = proofs
  BY DEF Request
<1> HIDE DEF r
<1>3. NoncesOf(r) = {m}
  <2>1. 1 \in DOMAIN proofs
    BY <1>1
  <2> QED BY <1>2, <2>1, Zenon DEF NoncesOf
<1>4. cal \in Seq(Rows) /\ req \in Seq(Rows)
  BY RequestRows
<1>5. Len(cal) = 1 /\ \A i \in 1..1 : cal[i].ok
  <2>1. Len(cal) = 1 /\ cal[1].ok = (call.requireNonce => call.store)
    BY DEF CallChecks, Check
  <2> HIDE DEF cal
  <2>2. cal[1].ok
    BY <2>1, EndpointAssumption, Zenon
  <2> QED BY <2>1, <2>2
<1>6. Len(req) = 6 /\ \A i \in 1..6 : req[i].ok
  <2>1. Len(req) = 6
    BY DEF RequestChecks
  <2>2. /\ req[1].ok = ((r.config = None) # (r.identifier = None))
        /\ req[2].ok = (r.config # Bad /\ r.identifier # Bad)
        /\ req[3].ok = (Cardinality(r.types) = 1)
        /\ req[4].ok = (r.proofs # <<>>)
        /\ req[5].ok = (Len(r.proofs) <= BatchSize(call.metadata[Us]))
        /\ req[6].ok = (r.types = {"jwt"})
    BY DEF RequestChecks, Check
  <2> HIDE DEF req
  <2>3. Cardinality(r.types) = 1
    BY <1>2, FS_Singleton, Zenon
  <2>4. ((r.config = None) # (r.identifier = None)) /\ r.config # Bad /\ r.identifier # Bad
    BY <1>2, AbsenceAssumption
  <2>5. req[1].ok /\ req[2].ok /\ req[3].ok /\ req[4].ok /\ req[5].ok /\ req[6].ok
    BY <1>1, <1>2, <2>2, <2>3, <2>4, Zenon
  <2> QED BY <2>1, <2>5
<1>7. FirstError(cal \o req) = "ok"
  <2> HIDE DEF cal, req
  <2> QED BY <1>4, <1>5, <1>6, TwoRowsAllOK
<1>8. FirstError(row) = "ok"
  <2>1. DOMAIN each = 1..n /\ \A i \in 1..n : each[i] = "ok"
    BY <1>1, <1>2
  <2> HIDE DEF each
  <2>2. DOMAIN row = 1..n /\ \A i \in 1..n : row[i].ok = (each[i] = "ok")
    BY <2>1 DEF Check
  <2> HIDE DEF row
  <2>3. \A i \in 1..n : row[i].ok
    BY <2>1, <2>2, Zenon
  <2> QED BY <1>1, <2>2, <2>3, AllChecksOK
<1>9. Distinct(KeysIn(r))
  <2>1. KeysIn(r) = [i \in 1..n |-> proofs[i].header.key]
    BY <1>1, <1>2 DEF KeysIn
  <2>2. ASSUME NEW p, proofs = <<p>> PROVE Distinct(KeysIn(r))
    <3>1. Range(KeysIn(r)) = {p.header.key} /\ Len(KeysIn(r)) = 1
      BY <2>1, <2>2 DEF Range
    <3>2. Cardinality({p.header.key}) = 1
      BY FS_Singleton, Zenon
    <3> QED BY <3>1, <3>2, Zenon DEF Distinct
  <2>3. ASSUME NEW p, NEW q, proofs = <<p, q>>, p.header.key # q.header.key
        PROVE  Distinct(KeysIn(r))
    <3>1. Range(KeysIn(r)) = {p.header.key} \cup {q.header.key} /\ Len(KeysIn(r)) = 2
      BY <2>1, <2>3 DEF Range
    <3>2. IsFiniteSet({p.header.key}) /\ Cardinality({p.header.key}) = 1
      BY FS_Singleton, Zenon
    <3>3. q.header.key \notin {p.header.key}
      BY <2>3, Zenon
    <3>4. Cardinality({p.header.key} \cup {q.header.key}) = Cardinality({p.header.key}) + 1
      BY <3>2, <3>3, FS_AddElement, Zenon
    <3> QED BY <3>1, <3>2, <3>4 DEF Distinct
  <2> QED BY <2>2, <2>3, Zenon
<1>10. FirstError(bat) = "ok"
  <2>1. DOMAIN bat = 1..3
    BY DEF BatchChecks
  <2>2. /\ bat[1].ok = (Cardinality(NoncesOf(r)) = 1)
        /\ bat[2].ok = (call.requireNonce => None \notin NoncesOf(r))
        /\ bat[3].ok = Distinct(KeysIn(r))
    BY DEF BatchChecks, Check, Distinct
  <2> HIDE DEF bat
  <2>3. Cardinality(NoncesOf(r)) = 1 /\ None \notin NoncesOf(r)
    BY <1>3, FS_Singleton, Zenon
  <2>4. bat[1].ok /\ bat[2].ok /\ bat[3].ok
    BY <1>9, <2>2, <2>3, Zenon
  <2>5. \A i \in 1..3 : bat[i].ok
    BY <2>4
  <2> QED BY <2>1, <2>5, AllChecksOK
<1>11. Verify(r, t) = "ok"
  BY <1>7, <1>8, <1>10, Zenon DEF Verify
<1> QED BY <1>3, <1>11 DEF r

----------------------------------------------------------------------------
(***************************************************************************)
(* What the invariant adds for that: a wallet signs with the issuer of its *)
(* session and a nonce that the store has, or that bought an issuance.     *)
(***************************************************************************)
Kept(k) == k = None \/ k \in live \/ k \in Redeemed

SessionOK ==
  /\ DOMAIN session = Wallets
  /\ \A w \in Wallets : \A x : x = session[w] /\ x \notin {None, Bad} =>
       \E o \in Offers, k \in Nonces \cup {None} : OfferOK(o) /\ x = Session(o, call, k) /\ Kept(k)

HonestClaims(m, k) ==
  [aud |-> <<session[m.by].issuer>>, iat |-> m.at, exp |-> None, nbf |-> None, iss |-> call.client,
   nonce |-> k]

HonestOK ==
  \A m \in made : m.slip = "none" =>
    /\ m.by \in Wallets /\ Discovered(m.by) /\ m.at \in Nat
    /\ \E n \in DOMAIN KeysOf[m.by], k \in Nonces \cup {None} :
         Kept(k) /\ m.proof = SignedBy(KeysOf[m.by][n], Header(m.by, n), HonestClaims(m, k))

JInv == SessionOK /\ HonestOK

\* With that, an honest request is accepted unless its nonce was redeemed.
LEMMA HonestIsServed ==
  ASSUME IInv, JInv, NEW r \in Arriving, Honest(r, now)
  PROVE  Verify(r, now) = "ok" /\ NoncesOf(r) \subseteq live \cup Redeemed
<1> DEFINE ps == r.proofs
<1>1. PICK w \in Wallets :
        /\ Discovered(w) /\ session[w].issuer = Us /\ Len(ps) <= session[w].batch
        /\ r = Request(ps)
        /\ \A i, j \in DOMAIN ps : ps[i].claims.nonce = ps[j].claims.nonce
        /\ \A i, j \in DOMAIN ps : i # j => ps[i].header.key # ps[j].header.key
        /\ \A i \in DOMAIN ps :
             \E m \in made : /\ m.by = w /\ m.proof = ps[i] /\ m.slip = "none"
                             /\ m.at \in (now - MaxAge)..now /\ ps[i].claims.nonce # None
  BY Zenon DEF Honest
<1>2. (\E p : ps = <<p>>) \/ (\E p, q : ps = <<p, q>>)
  BY ArrivingProofs, Zenon
<1>3. 1 \in DOMAIN ps
  <2> HIDE DEF ps
  <2> QED BY <1>2
<1>4. (\E p : ps = <<p>>) \/ (\E p, q : ps = <<p, q>> /\ p.header.key # q.header.key)
  <2> HIDE DEF ps
  <2>1. ASSUME NEW p, NEW q, ps = <<p, q>> PROVE p.header.key # q.header.key
    <3>1. 1 \in DOMAIN ps /\ 2 \in DOMAIN ps /\ 1 # 2 /\ ps[1] = p /\ ps[2] = q
      BY <2>1
    <3> QED BY <1>1, <3>1, Zenon
  <2> QED BY <1>2, <2>1, Zenon
<1>5. Len(ps) <= BatchSize(call.metadata[Us])
  <2>1. PICK o \in Offers, k \in Nonces \cup {None} :
          OfferOK(o) /\ session[w] = Session(o, call, k) /\ Kept(k)
    <3>1. \A v \in Wallets : \A x : x = session[v] /\ x \notin {None, Bad} =>
            \E o \in Offers, k \in Nonces \cup {None} :
              OfferOK(o) /\ x = Session(o, call, k) /\ Kept(k)
      BY Zenon DEF JInv, SessionOK
    <3>2. session[w] \notin {None, Bad}
      BY <1>1, Zenon DEF Discovered
    <3> QED BY <3>1, <3>2, Zenon
  <2>2. session[w].issuer = o.issuer.id /\ session[w].batch = BatchSize(call.metadata[o.issuer.id])
    BY <2>1 DEF Session
  <2> QED BY <1>1, <2>2, Zenon
<1> DEFINE nonce == ps[1].claims.nonce
<1>6. ASSUME NEW i \in DOMAIN ps
      PROVE  /\ VerifyProof(ps[i], now) = "ok"
             /\ NamedKey(ps[i].header) = ps[i].header.key
             /\ ps[i].claims.nonce # None /\ Kept(ps[i].claims.nonce)
  <2>1. PICK m \in made : /\ m.by = w /\ m.proof = ps[i] /\ m.slip = "none"
                          /\ m.at \in (now - MaxAge)..now /\ ps[i].claims.nonce # None
    BY <1>1, Zenon
  <2>2. PICK n \in DOMAIN KeysOf[w], k \in Nonces \cup {None} :
          Kept(k) /\ ps[i] = SignedBy(KeysOf[w][n], Header(w, n), HonestClaims(m, k))
    BY <2>1, Zenon DEF JInv, HonestOK
  <2>3. HonestClaims(m, k) =
          [aud |-> <<Us>>, iat |-> m.at, exp |-> None, nbf |-> None, iss |-> call.client, nonce |-> k]
    BY <1>1, <2>1, Zenon DEF HonestClaims
  <2> DEFINE c == HonestClaims(m, k)
             p == ps[i]
  <2>4. c.nonce = k
    BY <2>3
  <2> HIDE DEF c, p
  <2>5. p.claims = c
    BY <2>2 DEF SignedBy, c, p
  <2>6. k \in Nonces /\ p.claims.nonce = k
    BY <2>1, <2>2, <2>4, <2>5, Zenon DEF p
  <2>7. m.at \in Nat /\ now \in Nat /\ call \in Calls
    BY <2>1, Zenon DEF IInv, CallOK, JInv, HonestOK
  <2>8. VerifyProof(p, now) = "ok" /\ NamedKey(p.header) = p.header.key
    <3>1. p = SignedBy(KeysOf[w][n], Header(w, n), c)
      BY <2>2, Zenon DEF c, p
    <3>2. c = [aud |-> <<Us>>, iat |-> m.at, exp |-> None, nbf |-> None, iss |-> call.client, nonce |-> k]
      BY <2>3 DEF c
    <3>3. m.at \in (now - MaxAge)..now
      BY <2>1
    <3> QED BY <2>6, <2>7, <3>1, <3>2, <3>3, HonestProofPasses
  <2> QED BY <2>1, <2>2, <2>6, <2>8, Zenon DEF p
<1>7. \A i \in DOMAIN ps : ps[i].claims.nonce = nonce
  BY <1>1, <1>3, Zenon
<1>8. nonce # None /\ Kept(nonce)
  BY <1>3, <1>6, Zenon
<1>9. call \in Calls
  BY DEF IInv, CallOK
<1> HIDE DEF nonce, ps
<1>10. Verify(Request(ps), now) = "ok" /\ NoncesOf(Request(ps)) = {nonce}
  <2>1. AllPass(ps, now, nonce)
    BY <1>6, <1>7, Zenon DEF AllPass
  <2>2. OneOrTwo(ps) /\ nonce # None
    BY <1>4, <1>8 DEF OneOrTwo
  <2> QED BY <1>5, <1>9, <2>1, <2>2, HonestRequestPasses
<1>11. nonce \in live \cup Redeemed
  BY <1>8, Zenon DEF Kept
<1> QED BY <1>1, <1>10, <1>11, Zenon

----------------------------------------------------------------------------
(***************************************************************************)
(* And that is kept.                                                       *)
(***************************************************************************)
LEMMA KeptWhileAdded ==
  ASSUME live \subseteq live', served \subseteq served'
  PROVE  \A k : Kept(k) => Kept(k)'
BY Zenon DEF Kept, Redeemed

\* A nonce leaves the store for a request that is then accepted.
LEMMA KeptWhenConsumed ==
  ASSUME IInv, NEW h \in Handlers, ConsumeNonce(h)
  PROVE  \A k : Kept(k) => Kept(k)'
<1>1. PICK s : s = handler[h]
  OBVIOUS
<1>2. PICK n : n = NonceToConsume(s.request)
  OBVIOUS
<1> DEFINE good == s.verdict = "ok" /\ (n = None \/ n \in live)
           new == [request |-> s.request, at |-> s.at, again |-> n \in Redeemed]
<1>3. /\ s # None /\ live' = live \ {n}
      /\ served' = IF good THEN served \cup {new} ELSE served
  BY <1>1, <1>2, Zenon DEF ConsumeNonce, Idle
<1>4. s.verdict = "ok" /\ Good(s.request, s.at)
  BY <1>1, <1>3, Zenon DEF IInv, HandlersOK
<1>5. PICK m : NoncesOf(s.request) = {m}
  BY <1>4, Zenon DEF Good
<1>6. n = IF call.store THEN m ELSE None
  BY <1>2, <1>5 DEF NonceToConsume
<1>7. new.request = s.request
  OBVIOUS
<1> HIDE DEF new
<1>8. n \in live => n \in Redeemed'
  <2> SUFFICES ASSUME n \in live PROVE n \in Redeemed'
    OBVIOUS
  <2>1. new \in served'
    BY <1>3, <1>4, Zenon
  <2>2. n # None
    BY VciAssumption DEF IInv, StoreOK
  <2>3. n \in NoncesOf(new.request)
    BY <1>5, <1>6, <1>7, <2>2
  <2> QED BY <2>1, <2>3, Zenon DEF Redeemed
<1>9. \A k : k \in Redeemed => k \in Redeemed'
  <2>1. served \subseteq served'
    BY <1>3
  <2> QED BY <2>1, Zenon DEF Redeemed
<1> QED BY <1>3, <1>8, <1>9, Zenon DEF Kept

\* A step that leaves the sessions alone and loses no nonce but by redeeming it.
LEMMA SessionStays ==
  ASSUME SessionOK, call' = call, session' = session, \A k : Kept(k) => Kept(k)'
  PROVE  SessionOK'
<1>1. ASSUME NEW w \in Wallets, NEW x, x = session'[w], x \notin {None, Bad}
      PROVE  \E o \in Offers, k \in Nonces \cup {None} :
               OfferOK(o) /\ x = Session(o, call', k) /\ Kept(k)'
  <2>1. PICK o \in Offers, k \in Nonces \cup {None} : OfferOK(o) /\ x = Session(o, call, k) /\ Kept(k)
    BY <1>1, Zenon DEF SessionOK
  <2> QED BY <2>1, Zenon
<1> QED BY <1>1, Zenon DEF SessionOK

\* What a wallet has signed stands as long as its issuer does.
LEMMA HonestStays ==
  ASSUME HonestOK, call' = call, \A k : Kept(k) => Kept(k)',
         \A w \in Wallets : Discovered(w) => Discovered(w)' /\ session'[w].issuer = session[w].issuer
  PROVE  \A m \in made : m.slip = "none" =>
           /\ m.by \in Wallets /\ Discovered(m.by)' /\ m.at \in Nat
           /\ \E n \in DOMAIN KeysOf[m.by], k \in Nonces \cup {None} :
                Kept(k)' /\ m.proof = SignedBy(KeysOf[m.by][n], Header(m.by, n)', HonestClaims(m, k)')
<1> SUFFICES ASSUME NEW m \in made, m.slip = "none"
             PROVE  /\ m.by \in Wallets /\ Discovered(m.by)' /\ m.at \in Nat
                    /\ \E n \in DOMAIN KeysOf[m.by], k \in Nonces \cup {None} :
                         /\ Kept(k)'
                         /\ m.proof = SignedBy(KeysOf[m.by][n], Header(m.by, n)', HonestClaims(m, k)')
  BY Zenon
<1>1. m.by \in Wallets /\ Discovered(m.by) /\ m.at \in Nat
  BY Zenon DEF HonestOK
<1>2. PICK n \in DOMAIN KeysOf[m.by], k \in Nonces \cup {None} :
        Kept(k) /\ m.proof = SignedBy(KeysOf[m.by][n], Header(m.by, n), HonestClaims(m, k))
  BY Zenon DEF HonestOK
<1>3. Discovered(m.by)' /\ session'[m.by].issuer = session[m.by].issuer
  BY <1>1, Zenon
<1>4. HonestClaims(m, k)' = HonestClaims(m, k)
  BY <1>3, Zenon DEF HonestClaims
<1>5. Header(m.by, n)' = Header(m.by, n)
  BY Zenon DEF Header
<1> QED BY <1>1, <1>2, <1>3, <1>4, <1>5, Zenon

\* A session starts without a nonce.
LEMMA JDiscover ==
  ASSUME IInv, JInv, NEW w \in Wallets, NEW o \in Offers, Discover(w, o)
  PROVE  JInv'
<1> DEFINE new == IF OfferOK(o) /\ MetadataOK(call.metadata[o.issuer.id])
                  THEN Session(o, call, None) ELSE Bad
<1>1. /\ session[w] = None /\ session' = [session EXCEPT ![w] = new]
      /\ UNCHANGED <<now, call, live, unissued, made, handler, served, spent>>
  BY Zenon DEF Discover
<1>2. \A k : Kept(k) => Kept(k)'
  BY <1>1, KeptWhileAdded
<1>3. DOMAIN session = Wallets
  BY Zenon DEF JInv, SessionOK
<1>4. new = Bad \/ (OfferOK(o) /\ new = Session(o, call, None))
  BY Zenon
<1> HIDE DEF new
<1>5. DOMAIN session' = Wallets /\ session'[w] = new
      /\ \A v \in Wallets : v # w => session'[v] = session[v]
  BY <1>1, <1>3, Zenon
<1>6. ASSUME NEW v \in Wallets, NEW x, x = session'[v], x \notin {None, Bad}
      PROVE  \E p \in Offers, k \in Nonces \cup {None} :
               OfferOK(p) /\ x = Session(p, call', k) /\ Kept(k)'
  <2>1. CASE v = w
    <3>1. OfferOK(o) /\ x = Session(o, call', None)
      BY <1>1, <1>4, <1>5, <1>6, <2>1, Zenon
    <3>2. Kept(None)' /\ None \in Nonces \cup {None}
      BY Zenon DEF Kept
    <3> QED BY <3>1, <3>2, Zenon
  <2>2. CASE v # w
    <3>1. PICK p \in Offers, k \in Nonces \cup {None} : OfferOK(p) /\ x = Session(p, call, k) /\ Kept(k)
      BY <1>5, <1>6, <2>2, Zenon DEF JInv, SessionOK
    <3> QED BY <1>1, <1>2, <3>1, Zenon
  <2> QED BY <2>1, <2>2
<1>7. SessionOK'
  BY <1>5, <1>6, Zenon DEF SessionOK
<1>8. \A v \in Wallets : Discovered(v) => Discovered(v)' /\ session'[v].issuer = session[v].issuer
  BY <1>1, <1>5, Zenon DEF Discovered
<1>9. HonestOK' 
  BY <1>1, <1>2, <1>8, HonestStays, Zenon DEF JInv, HonestOK
<1> QED BY <1>7, <1>9, Zenon DEF JInv

\* A nonce that is handed out is in the store.
LEMMA JTakeNonce ==
  ASSUME IInv, JInv, NEW w \in Wallets, TakeNonce(w)
  PROVE  JInv'
<1>1. PICK n \in unissued : /\ live' = live \cup {n}
                            /\ session' = [session EXCEPT ![w] = [session[w] EXCEPT !.nonce = n]]
  BY Zenon DEF TakeNonce
<1>2. UNCHANGED <<now, call, made, handler, served, spent>> /\ Discovered(w)
  BY Zenon DEF TakeNonce
<1>3. \A k : Kept(k) => Kept(k)'
  BY <1>1, <1>2, KeptWhileAdded
<1>4. DOMAIN session = Wallets
  BY Zenon DEF JInv, SessionOK
<1>5. PICK o \in Offers, k \in Nonces \cup {None} : OfferOK(o) /\ session[w] = Session(o, call, k)
  <2>1. \E o \in Offers, k \in Nonces \cup {None} :
          OfferOK(o) /\ session[w] = Session(o, call, k) /\ Kept(k)
    BY <1>2, Zenon DEF JInv, SessionOK, Discovered
  <2> QED BY <2>1
<1> DEFINE new == [session[w] EXCEPT !.nonce = n]
<1>6. new = Session(o, call, n)
  BY <1>5 DEF Session
<1> HIDE DEF new
<1>7. DOMAIN session' = Wallets /\ session'[w] = new
      /\ \A v \in Wallets : v # w => session'[v] = session[v]
  BY <1>1, <1>4, Zenon DEF new
<1>8. n \in Nonces /\ call \in Calls
  BY DEF IInv, StoreOK, CallOK
<1>9. new \notin {None, Bad} /\ new.issuer = session[w].issuer
  <2>1. new \notin {None, Bad}
    BY <1>5, <1>6, <1>8, AbsenceAssumption
  <2>2. new.issuer = o.issuer.id /\ session[w].issuer = o.issuer.id
    BY <1>5, <1>6 DEF Session
  <2> QED BY <2>1, <2>2
<1>10. ASSUME NEW v \in Wallets, NEW x, x = session'[v], x \notin {None, Bad}
       PROVE  \E p \in Offers, j \in Nonces \cup {None} :
                OfferOK(p) /\ x = Session(p, call', j) /\ Kept(j)'
  <2>1. CASE v = w
    <3>1. OfferOK(o) /\ x = Session(o, call', n)
      BY <1>2, <1>5, <1>6, <1>7, <1>10, <2>1, Zenon
    <3>2. Kept(n)' /\ n \in Nonces \cup {None}
      BY <1>1, <1>8, Zenon DEF Kept
    <3> QED BY <3>1, <3>2, Zenon
  <2>2. CASE v # w
    <3>1. PICK p \in Offers, j \in Nonces \cup {None} : OfferOK(p) /\ x = Session(p, call, j) /\ Kept(j)
      BY <1>7, <1>10, <2>2, Zenon DEF JInv, SessionOK
    <3> QED BY <1>2, <1>3, <3>1, Zenon
  <2> QED BY <2>1, <2>2
<1>11. SessionOK'
  BY <1>7, <1>10, Zenon DEF SessionOK
<1>12. \A v \in Wallets : Discovered(v) => Discovered(v)' /\ session'[v].issuer = session[v].issuer
  BY <1>7, <1>9, Zenon DEF Discovered
<1>13. HonestOK'
  BY <1>2, <1>3, <1>12, HonestStays, Zenon DEF JInv, HonestOK
<1> QED BY <1>11, <1>13, Zenon DEF JInv

\* A wallet that makes no slip signs what its session says.
LEMMA JProve ==
  ASSUME IInv, JInv, NEW w \in Wallets, NEW n, NEW slip, Prove(w, n, slip)
  PROVE  JInv'
<1>1. PICK p : /\ made' = made \cup {[by |-> w, proof |-> p, slip |-> slip, at |-> now]}
               /\ slip = "none" => p = SignedBy(KeysOf[w][n], Header(w, n), Claims(w))
  BY DEF Prove
<1>2. /\ UNCHANGED <<now, call, session, live, unissued, handler, served, spent>>
      /\ Discovered(w) /\ n \in DOMAIN KeysOf[w]
  BY Zenon DEF Prove
<1>3. \A k : Kept(k) => Kept(k)'
  BY <1>2, KeptWhileAdded
<1>4. SessionOK'
  BY <1>2, <1>3, SessionStays, Zenon DEF JInv
<1>5. \A v \in Wallets : Discovered(v) => Discovered(v)' /\ session'[v].issuer = session[v].issuer
  BY <1>2, Zenon DEF Discovered
<1>0. PICK new : new = [by |-> w, proof |-> p, slip |-> slip, at |-> now]
  OBVIOUS
<1>6. new.by = w /\ new.proof = p /\ new.slip = slip /\ new.at = now
  BY <1>0
<1>7. PICK o \in Offers, k \in Nonces \cup {None} : session[w] = Session(o, call, k) /\ Kept(k)
  <2>1. \E o \in Offers, k \in Nonces \cup {None} :
          OfferOK(o) /\ session[w] = Session(o, call, k) /\ Kept(k)
    BY <1>2, Zenon DEF JInv, SessionOK, Discovered
  <2> QED BY <2>1
<1>8. session[w].nonce = k
  BY <1>7 DEF Session
<1>9. HonestClaims(new, k)' = Claims(w)
  BY <1>2, <1>6, <1>8, Zenon DEF HonestClaims, Claims
<1>10. Header(w, n)' = Header(w, n) /\ Discovered(w)'
  BY <1>2, Zenon DEF Header, Discovered
<1>11. now \in Nat
  BY DEF IInv, CallOK
<1>12. new.slip = "none" =>
         /\ new.by \in Wallets /\ Discovered(new.by)' /\ new.at \in Nat
         /\ \E i \in DOMAIN KeysOf[new.by], j \in Nonces \cup {None} :
              Kept(j)' /\ new.proof = SignedBy(KeysOf[new.by][i], Header(new.by, i)', HonestClaims(new, j)')
  BY <1>1, <1>2, <1>3, <1>6, <1>7, <1>9, <1>10, <1>11, Zenon
<1>13. HonestOK'
  <2>1. made' = made \cup {new}
    BY <1>0, <1>1, Zenon
  <2> QED BY <1>2, <1>3, <1>5, <1>12, <2>1, HonestStays, Zenon DEF JInv, HonestOK
<1> QED BY <1>4, <1>13, Zenon DEF JInv

\* Any other step leaves the sessions and the proofs alone.
LEMMA JElse ==
  ASSUME JInv, UNCHANGED <<call, session, made>>, \A k : Kept(k) => Kept(k)'
  PROVE  JInv'
<1>1. SessionOK'
  BY SessionStays, Zenon DEF JInv
<1>2. \A v \in Wallets : Discovered(v) => Discovered(v)' /\ session'[v].issuer = session[v].issuer
  BY Zenon DEF Discovered
<1>3. HonestOK'
  BY <1>2, HonestStays, Zenon DEF JInv, HonestOK
<1> QED BY <1>1, <1>3, Zenon DEF JInv

\* There is no session at first.
LEMMA JInit == Init => JInv
BY DEF Init, JInv, SessionOK, HonestOK

\* Every action preserves the second part.
LEMMA JNext == IInv /\ JInv /\ [Next]_vars => JInv'
<1> SUFFICES ASSUME IInv, JInv, [Next]_vars PROVE JInv'
  OBVIOUS
<1>1. ASSUME NEW w \in Wallets, NEW o \in Offers, Discover(w, o) PROVE JInv'
  BY <1>1, JDiscover
<1>2. ASSUME NEW w \in Wallets, TakeNonce(w) PROVE JInv'
  BY <1>2, JTakeNonce
<1>3. ASSUME NEW w \in Wallets, NEW n \in 1..2, NEW slip \in call.slips, Prove(w, n, slip)
      PROVE  JInv'
  BY <1>3, JProve
<1>4. CASE Tick
  <2>1. UNCHANGED <<call, session, live, made, served>>
    BY <1>4, Zenon DEF Tick
  <2>2. \A k : Kept(k) => Kept(k)'
    BY <2>1, KeptWhileAdded
  <2> QED BY <2>1, <2>2, JElse, Zenon
<1>5. ASSUME NEW h \in Handlers, NEW r \in Arriving, Receive(h, r) PROVE JInv'
  <2>1. UNCHANGED <<call, session, live, made, served>>
    BY <1>5, Zenon DEF Receive
  <2>2. \A k : Kept(k) => Kept(k)'
    BY <2>1, KeptWhileAdded
  <2> QED BY <2>1, <2>2, JElse, Zenon
<1>6. ASSUME NEW h \in Handlers, ConsumeNonce(h) PROVE JInv'
  <2>1. UNCHANGED <<call, session, made>>
    BY <1>6, Zenon DEF ConsumeNonce
  <2>2. \A k : Kept(k) => Kept(k)'
    BY <1>6, KeptWhenConsumed
  <2> QED BY <2>1, <2>2, JElse, Zenon
<1>7. CASE UNCHANGED vars
  <2>1. UNCHANGED <<call, session, live, made, served>>
    BY <1>7, Zenon DEF vars
  <2>2. \A k : Kept(k) => Kept(k)'
    BY <2>1, KeptWhileAdded
  <2> QED BY <2>1, <2>2, JElse, Zenon
<1> QED BY <1>1, <1>2, <1>3, <1>4, <1>5, <1>6, <1>7, Zenon DEF Next

(***************************************************************************)
(* A wallet that keeps to the offer and the metadata, and answers in time, *)
(* is refused only when its nonce was spent, and then by a request that    *)
(* was accepted: nobody can burn the nonce of another.                     *)
(***************************************************************************)
THEOREM HonestWalletsAreServed == Spec => []HonestRequestsAreServed
<1>1. IInv /\ JInv => HonestRequestsAreServed
  BY HonestIsServed, Zenon DEF HonestRequestsAreServed
<1> QED BY <1>1, InitIsGood, NextIsGood, JInit, JNext, PTL DEF Spec

----------------------------------------------------------------------------
(***************************************************************************)
(* The bits of a byte.                                                     *)
(***************************************************************************)
\* A byte is made of 8 \div bits statuses; x is what they are.
Byte(x, bits) ==
  CASE bits = 1 -> x[0] + 2 * x[1] + 4 * x[2] + 8 * x[3] + 16 * x[4] + 32 * x[5] + 64 * x[6] + 128 * x[7]
    [] bits = 2 -> x[0] + 4 * x[1] + 16 * x[2] + 64 * x[3]
    [] bits = 4 -> x[0] + 16 * x[1]
    [] bits = 8 -> x[0]

Fields(bits) == [0..(8 \div bits - 1) -> 0..(2^bits - 1)]

LEMMA Powers ==
  /\ 2^0 = 1 /\ 2^1 = 2 /\ 2^2 = 4 /\ 2^3 = 8 /\ 2^4 = 16
  /\ 2^5 = 32 /\ 2^6 = 64 /\ 2^7 = 128 /\ 2^8 = 256
OBVIOUS

LEMMA FieldsAre ==
  /\ Fields(1) = [0..7 -> 0..1] /\ Fields(2) = [0..3 -> 0..3]
  /\ Fields(4) = [0..1 -> 0..15] /\ Fields(8) = [0..0 -> 0..255]
<1>1. 8 \div 1 = 8 /\ 8 \div 2 = 4 /\ 8 \div 4 = 2 /\ 8 \div 8 = 1
  OBVIOUS
<1> QED BY <1>1, Powers DEF Fields

\* The statuses of a byte are those it was made of.
LEMMA FieldsOfByte ==
  ASSUME NEW bits \in {1, 2, 4, 8}, NEW x \in Fields(bits)
  PROVE  /\ Byte(x, bits) \in 0..255
         /\ \A k \in 0..(8 \div bits - 1) : Field(Byte(x, bits), k * bits, bits) = x[k]
<1>1. CASE bits = 1
  <2>1. 8 \div bits - 1 = 7
    BY <1>1
  <2>2. x \in [0..7 -> 0..1]
    BY <1>1, FieldsAre
  <2>3. x[0] \in 0..1 /\ x[1] \in 0..1 /\ x[2] \in 0..1 /\ x[3] \in 0..1 /\ x[4] \in 0..1 /\ x[5] \in 0..1 /\ x[6] \in 0..1 /\ x[7] \in 0..1
    BY <2>2
  <2>4. Byte(x, bits) \in 0..255
    BY <1>1, <2>3 DEF Byte
  <2>5. Field(Byte(x, bits), 0 * bits, bits) = x[0]
    BY <1>1, <2>3, Powers DEF Byte, Field
  <2>6. Field(Byte(x, bits), 1 * bits, bits) = x[1]
    BY <1>1, <2>3, Powers DEF Byte, Field
  <2>7. Field(Byte(x, bits), 2 * bits, bits) = x[2]
    BY <1>1, <2>3, Powers DEF Byte, Field
  <2>8. Field(Byte(x, bits), 3 * bits, bits) = x[3]
    BY <1>1, <2>3, Powers DEF Byte, Field
  <2>9. Field(Byte(x, bits), 4 * bits, bits) = x[4]
    BY <1>1, <2>3, Powers DEF Byte, Field
  <2>10. Field(Byte(x, bits), 5 * bits, bits) = x[5]
    BY <1>1, <2>3, Powers DEF Byte, Field
  <2>11. Field(Byte(x, bits), 6 * bits, bits) = x[6]
    BY <1>1, <2>3, Powers DEF Byte, Field
  <2>12. Field(Byte(x, bits), 7 * bits, bits) = x[7]
    BY <1>1, <2>3, Powers DEF Byte, Field
  <2> QED BY <2>1, <2>4, <2>5, <2>6, <2>7, <2>8, <2>9, <2>10, <2>11, <2>12
<1>2. CASE bits = 2
  <2>1. 8 \div bits - 1 = 3
    BY <1>2
  <2>2. x \in [0..3 -> 0..3]
    BY <1>2, FieldsAre
  <2>3. x[0] \in 0..3 /\ x[1] \in 0..3 /\ x[2] \in 0..3 /\ x[3] \in 0..3
    BY <2>2
  <2>4. Byte(x, bits) \in 0..255
    BY <1>2, <2>3 DEF Byte
  <2>5. Field(Byte(x, bits), 0 * bits, bits) = x[0]
    BY <1>2, <2>3, Powers DEF Byte, Field
  <2>6. Field(Byte(x, bits), 1 * bits, bits) = x[1]
    BY <1>2, <2>3, Powers DEF Byte, Field
  <2>7. Field(Byte(x, bits), 2 * bits, bits) = x[2]
    BY <1>2, <2>3, Powers DEF Byte, Field
  <2>8. Field(Byte(x, bits), 3 * bits, bits) = x[3]
    BY <1>2, <2>3, Powers DEF Byte, Field
  <2> QED BY <2>1, <2>4, <2>5, <2>6, <2>7, <2>8
<1>3. CASE bits = 4
  <2>1. 8 \div bits - 1 = 1
    BY <1>3
  <2>2. x \in [0..1 -> 0..15]
    BY <1>3, FieldsAre
  <2>3. x[0] \in 0..15 /\ x[1] \in 0..15
    BY <2>2
  <2>4. Byte(x, bits) \in 0..255
    BY <1>3, <2>3 DEF Byte
  <2>5. Field(Byte(x, bits), 0 * bits, bits) = x[0]
    BY <1>3, <2>3, Powers DEF Byte, Field
  <2>6. Field(Byte(x, bits), 1 * bits, bits) = x[1]
    BY <1>3, <2>3, Powers DEF Byte, Field
  <2> QED BY <2>1, <2>4, <2>5, <2>6
<1>4. CASE bits = 8
  <2>1. 8 \div bits - 1 = 0
    BY <1>4
  <2>2. x \in [0..0 -> 0..255]
    BY <1>4, FieldsAre
  <2>3. x[0] \in 0..255
    BY <2>2
  <2>4. Byte(x, bits) \in 0..255
    BY <1>4, <2>3 DEF Byte
  <2>5. Field(Byte(x, bits), 0 * bits, bits) = x[0]
    BY <1>4, <2>3, Powers DEF Byte, Field
  <2> QED BY <2>1, <2>4, <2>5
<1> QED BY <1>1, <1>2, <1>3, <1>4

\* And every byte is made of its statuses.
LEMMA ByteOfFields ==
  ASSUME NEW bits \in {1, 2, 4, 8}, NEW b \in 0..255
  PROVE  \E x \in Fields(bits) : b = Byte(x, bits)
<1>1. CASE bits = 1
  <2> DEFINE x == [k \in 0..7 |-> (b \div 2^(k * 1)) % 2]
  <2>1. x[0] = (b \div 1) % 2 /\ x[1] = (b \div 2) % 2 /\ x[2] = (b \div 4) % 2 /\ x[3] = (b \div 8) % 2 /\ x[4] = (b \div 16) % 2 /\ x[5] = (b \div 32) % 2 /\ x[6] = (b \div 64) % 2 /\ x[7] = (b \div 128) % 2
    BY Powers
  <2>2. b = x[0] + 2 * x[1] + 4 * x[2] + 8 * x[3] + 16 * x[4] + 32 * x[5] + 64 * x[6] + 128 * x[7]
    BY <2>1
  <2>3. x \in [0..7 -> 0..1]
    <3>1. \A k \in 0..7 : k = 0 \/ k = 1 \/ k = 2 \/ k = 3 \/ k = 4 \/ k = 5 \/ k = 6 \/ k = 7
      OBVIOUS
    <3>2. x[0] \in 0..1 /\ x[1] \in 0..1 /\ x[2] \in 0..1 /\ x[3] \in 0..1 /\ x[4] \in 0..1 /\ x[5] \in 0..1 /\ x[6] \in 0..1 /\ x[7] \in 0..1
      BY <2>1
    <3>3. \A k \in 0..7 : x[k] \in 0..1
      BY <3>1, <3>2
    <3> QED BY <3>3
  <2> HIDE DEF x
  <2>4. x \in Fields(bits) /\ b = Byte(x, bits)
    BY <1>1, <2>2, <2>3, FieldsAre DEF Byte
  <2> QED BY <2>4
<1>2. CASE bits = 2
  <2> DEFINE x == [k \in 0..3 |-> (b \div 2^(k * 2)) % 4]
  <2>1. x[0] = (b \div 1) % 4 /\ x[1] = (b \div 4) % 4 /\ x[2] = (b \div 16) % 4 /\ x[3] = (b \div 64) % 4
    BY Powers
  <2>2. b = x[0] + 4 * x[1] + 16 * x[2] + 64 * x[3]
    BY <2>1
  <2>3. x \in [0..3 -> 0..3]
    <3>1. \A k \in 0..3 : k = 0 \/ k = 1 \/ k = 2 \/ k = 3
      OBVIOUS
    <3>2. x[0] \in 0..3 /\ x[1] \in 0..3 /\ x[2] \in 0..3 /\ x[3] \in 0..3
      BY <2>1
    <3>3. \A k \in 0..3 : x[k] \in 0..3
      BY <3>1, <3>2
    <3> QED BY <3>3
  <2> HIDE DEF x
  <2>4. x \in Fields(bits) /\ b = Byte(x, bits)
    BY <1>2, <2>2, <2>3, FieldsAre DEF Byte
  <2> QED BY <2>4
<1>3. CASE bits = 4
  <2> DEFINE x == [k \in 0..1 |-> (b \div 2^(k * 4)) % 16]
  <2>1. x[0] = (b \div 1) % 16 /\ x[1] = (b \div 16) % 16
    BY Powers
  <2>2. b = x[0] + 16 * x[1]
    BY <2>1
  <2>3. x \in [0..1 -> 0..15]
    <3>1. \A k \in 0..1 : k = 0 \/ k = 1
      OBVIOUS
    <3>2. x[0] \in 0..15 /\ x[1] \in 0..15
      BY <2>1
    <3>3. \A k \in 0..1 : x[k] \in 0..15
      BY <3>1, <3>2
    <3> QED BY <3>3
  <2> HIDE DEF x
  <2>4. x \in Fields(bits) /\ b = Byte(x, bits)
    BY <1>3, <2>2, <2>3, FieldsAre DEF Byte
  <2> QED BY <2>4
<1>4. CASE bits = 8
  <2> DEFINE x == [k \in 0..0 |-> (b \div 2^(k * 8)) % 256]
  <2>1. x[0] = (b \div 1) % 256
    BY Powers
  <2>2. b = x[0]
    BY <2>1
  <2>3. x \in [0..0 -> 0..255]
    <3>1. \A k \in 0..0 : k = 0
      OBVIOUS
    <3>2. x[0] \in 0..255
      BY <2>1
    <3>3. \A k \in 0..0 : x[k] \in 0..255
      BY <3>1, <3>2
    <3> QED BY <3>3
  <2> HIDE DEF x
  <2>4. x \in Fields(bits) /\ b = Byte(x, bits)
    BY <1>4, <2>2, <2>3, FieldsAre DEF Byte
  <2> QED BY <2>4
<1> QED BY <1>1, <1>2, <1>3, <1>4

\* Writing one of them changes no other.
LEMMA WriteField ==
  ASSUME NEW bits \in {1, 2, 4, 8}, NEW x \in Fields(bits),
         NEW k \in 0..(8 \div bits - 1), NEW v \in 0..(2^bits - 1)
  PROVE  /\ WithField(Byte(x, bits), k * bits, bits, v) = Byte([x EXCEPT ![k] = v], bits)
         /\ [x EXCEPT ![k] = v] \in Fields(bits)
<1>0. /\ [x EXCEPT ![k] = v] \in Fields(bits)
      /\ Field(Byte(x, bits), k * bits, bits) = x[k]
  BY FieldsOfByte DEF Fields
<1>a. WithField(Byte(x, bits), k * bits, bits, v) = Byte(x, bits) + (v - x[k]) * 2^(k * bits)
  BY <1>0 DEF WithField
<1> DEFINE y == [x EXCEPT ![k] = v]
<1>1. CASE bits = 1
  <2>1. k = 0 \/ k = 1 \/ k = 2 \/ k = 3 \/ k = 4 \/ k = 5 \/ k = 6 \/ k = 7
    BY <1>1
  <2>2. x \in [0..7 -> 0..1] /\ v \in 0..1
    BY <1>1, FieldsAre, Powers
  <2>3. x[0] \in 0..1 /\ x[1] \in 0..1 /\ x[2] \in 0..1 /\ x[3] \in 0..1 /\ x[4] \in 0..1 /\ x[5] \in 0..1 /\ x[6] \in 0..1 /\ x[7] \in 0..1
    BY <2>2
  <2>4. y[0] = (IF k = 0 THEN v ELSE x[0]) /\ y[1] = (IF k = 1 THEN v ELSE x[1]) /\ y[2] = (IF k = 2 THEN v ELSE x[2]) /\ y[3] = (IF k = 3 THEN v ELSE x[3]) /\ y[4] = (IF k = 4 THEN v ELSE x[4]) /\ y[5] = (IF k = 5 THEN v ELSE x[5]) /\ y[6] = (IF k = 6 THEN v ELSE x[6]) /\ y[7] = (IF k = 7 THEN v ELSE x[7])
    BY <2>2
  <2> HIDE DEF y
  <2>5. /\ Byte(x, bits) = x[0] + 2 * x[1] + 4 * x[2] + 8 * x[3] + 16 * x[4] + 32 * x[5] + 64 * x[6] + 128 * x[7]
        /\ Byte(y, bits) = y[0] + 2 * y[1] + 4 * y[2] + 8 * y[3] + 16 * y[4] + 32 * y[5] + 64 * y[6] + 128 * y[7]
    BY <1>1 DEF Byte
  <2>6. Byte(y, bits) = Byte(x, bits) + (v - x[k]) * 2^(k * bits)
    <3>1. CASE k = 0
      <4>1. 2^(k * bits) = 1
        BY <1>1, <3>1, Powers
      <4> QED BY <2>2, <2>3, <2>4, <2>5, <3>1, <4>1
    <3>2. CASE k = 1
      <4>1. 2^(k * bits) = 2
        BY <1>1, <3>2, Powers
      <4> QED BY <2>2, <2>3, <2>4, <2>5, <3>2, <4>1
    <3>3. CASE k = 2
      <4>1. 2^(k * bits) = 4
        BY <1>1, <3>3, Powers
      <4> QED BY <2>2, <2>3, <2>4, <2>5, <3>3, <4>1
    <3>4. CASE k = 3
      <4>1. 2^(k * bits) = 8
        BY <1>1, <3>4, Powers
      <4> QED BY <2>2, <2>3, <2>4, <2>5, <3>4, <4>1
    <3>5. CASE k = 4
      <4>1. 2^(k * bits) = 16
        BY <1>1, <3>5, Powers
      <4> QED BY <2>2, <2>3, <2>4, <2>5, <3>5, <4>1
    <3>6. CASE k = 5
      <4>1. 2^(k * bits) = 32
        BY <1>1, <3>6, Powers
      <4> QED BY <2>2, <2>3, <2>4, <2>5, <3>6, <4>1
    <3>7. CASE k = 6
      <4>1. 2^(k * bits) = 64
        BY <1>1, <3>7, Powers
      <4> QED BY <2>2, <2>3, <2>4, <2>5, <3>7, <4>1
    <3>8. CASE k = 7
      <4>1. 2^(k * bits) = 128
        BY <1>1, <3>8, Powers
      <4> QED BY <2>2, <2>3, <2>4, <2>5, <3>8, <4>1
    <3> QED BY <2>1, <3>1, <3>2, <3>3, <3>4, <3>5, <3>6, <3>7, <3>8
  <2> QED BY <1>0, <1>a, <2>6 DEF y
<1>2. CASE bits = 2
  <2>1. k = 0 \/ k = 1 \/ k = 2 \/ k = 3
    BY <1>2
  <2>2. x \in [0..3 -> 0..3] /\ v \in 0..3
    BY <1>2, FieldsAre, Powers
  <2>3. x[0] \in 0..3 /\ x[1] \in 0..3 /\ x[2] \in 0..3 /\ x[3] \in 0..3
    BY <2>2
  <2>4. y[0] = (IF k = 0 THEN v ELSE x[0]) /\ y[1] = (IF k = 1 THEN v ELSE x[1]) /\ y[2] = (IF k = 2 THEN v ELSE x[2]) /\ y[3] = (IF k = 3 THEN v ELSE x[3])
    BY <2>2
  <2> HIDE DEF y
  <2>5. /\ Byte(x, bits) = x[0] + 4 * x[1] + 16 * x[2] + 64 * x[3]
        /\ Byte(y, bits) = y[0] + 4 * y[1] + 16 * y[2] + 64 * y[3]
    BY <1>2 DEF Byte
  <2>6. Byte(y, bits) = Byte(x, bits) + (v - x[k]) * 2^(k * bits)
    <3>1. CASE k = 0
      <4>1. 2^(k * bits) = 1
        BY <1>2, <3>1, Powers
      <4> QED BY <2>2, <2>3, <2>4, <2>5, <3>1, <4>1
    <3>2. CASE k = 1
      <4>1. 2^(k * bits) = 4
        BY <1>2, <3>2, Powers
      <4> QED BY <2>2, <2>3, <2>4, <2>5, <3>2, <4>1
    <3>3. CASE k = 2
      <4>1. 2^(k * bits) = 16
        BY <1>2, <3>3, Powers
      <4> QED BY <2>2, <2>3, <2>4, <2>5, <3>3, <4>1
    <3>4. CASE k = 3
      <4>1. 2^(k * bits) = 64
        BY <1>2, <3>4, Powers
      <4> QED BY <2>2, <2>3, <2>4, <2>5, <3>4, <4>1
    <3> QED BY <2>1, <3>1, <3>2, <3>3, <3>4
  <2> QED BY <1>0, <1>a, <2>6 DEF y
<1>3. CASE bits = 4
  <2>1. k = 0 \/ k = 1
    BY <1>3
  <2>2. x \in [0..1 -> 0..15] /\ v \in 0..15
    BY <1>3, FieldsAre, Powers
  <2>3. x[0] \in 0..15 /\ x[1] \in 0..15
    BY <2>2
  <2>4. y[0] = (IF k = 0 THEN v ELSE x[0]) /\ y[1] = (IF k = 1 THEN v ELSE x[1])
    BY <2>2
  <2> HIDE DEF y
  <2>5. /\ Byte(x, bits) = x[0] + 16 * x[1]
        /\ Byte(y, bits) = y[0] + 16 * y[1]
    BY <1>3 DEF Byte
  <2>6. Byte(y, bits) = Byte(x, bits) + (v - x[k]) * 2^(k * bits)
    <3>1. CASE k = 0
      <4>1. 2^(k * bits) = 1
        BY <1>3, <3>1, Powers
      <4> QED BY <2>2, <2>3, <2>4, <2>5, <3>1, <4>1
    <3>2. CASE k = 1
      <4>1. 2^(k * bits) = 16
        BY <1>3, <3>2, Powers
      <4> QED BY <2>2, <2>3, <2>4, <2>5, <3>2, <4>1
    <3> QED BY <2>1, <3>1, <3>2
  <2> QED BY <1>0, <1>a, <2>6 DEF y
<1>4. CASE bits = 8
  <2>1. k = 0
    BY <1>4
  <2>2. x \in [0..0 -> 0..255] /\ v \in 0..255
    BY <1>4, FieldsAre, Powers
  <2>3. x[0] \in 0..255
    BY <2>2
  <2>4. y[0] = (IF k = 0 THEN v ELSE x[0])
    BY <2>2
  <2> HIDE DEF y
  <2>5. Byte(y, bits) = Byte(x, bits) + (v - x[k]) * 2^(k * bits)
    BY <1>4, <2>1, <2>2, <2>3, <2>4, Powers DEF Byte
  <2> QED BY <1>0, <1>a, <2>5 DEF y
<1> QED BY <1>1, <1>2, <1>3, <1>4

----------------------------------------------------------------------------
(***************************************************************************)
(* The status lists: what a verifier reads at an index is what the issuer  *)
(* of the list means it to be.                                             *)
(***************************************************************************)
AllLists == Lists \cup Tokens

PerByte(l) == IF l \in Lists THEN 8 ELSE 8 \div TokenBits

ListLength(l) == (Capacity + PerByte(l) - 1) \div PerByte(l)

ByteLists(l) == [1..ListLength(l) -> 0..255]

\* get_status_bit, get_status.
ReadAt(l, b, n) == IF l \in Lists THEN GetStatusBit(b, n) ELSE GetStatus(b, n, TokenBits)

\* The value v is what `m` means the status at index n to be.
Meant(m, l, n, v) ==
  \/ \E c \in DOMAIN Slot : Slot[c] = n /\ v = Value(l, m[l][c])
  \/ (\A c \in DOMAIN Slot : Slot[c] # n) /\ v = 0

BytesOK ==
  /\ bytes = [l \in AllLists |-> bytes[l]]
  /\ \A l \in AllLists :
       /\ bytes[l] \in ByteLists(l)
       /\ \A n \in 0..(Room(l) - 1) : Meant(marks, l, n, ReadAt(l, bytes[l], n))

\* What is published, and how it has changed since the call.
WorldOK ==
  /\ args \in Arguments
  /\ keys \in [Issuers -> Nat \ {0}]
  /\ marks = [l \in AllLists |-> [c \in DOMAIN Slot |-> marks[l][c]]]
  /\ \A l \in AllLists : \A c \in DOMAIN Slot : marks[l][c] \in Marks(l)
  /\ changes = {} => \A d \in Issuers : keys[d] = 1
  /\ returned # "uncalled" =>
       \A l \in AllLists : \A c \in DOMAIN Slot : <<l, c>> \notin changes => marks[l][c] = AtFirst[l][c]
  /\ returned = "uncalled" => changes = {} /\ DOMAIN cache = {}

----------------------------------------------------------------------------
(***************************************************************************)
(* What a resolver answers, now or out of the cache of the batch.          *)
(***************************************************************************)
Callables ==
  ({"did", "metadata"} \X Issuers) \cup ({"w3c"} \X Lists) \cup ({"ietf"} \X Tokens)
    \cup ({"schema"} \X DOMAIN Schemas)

\* The bytes have every bit that has been set since before the call.
Told(l, b) ==
  \A c \in DOMAIN Slot :
    Standing[l][c] # "valid" => ReadAt(l, b, Slot[c]) = Value(l, Standing[l][c])

ListCredential(l, b) ==
  [typ |-> "vc", issuer |-> Publisher[l], purpose |-> Purpose[l], bits |-> 1,
   list |-> [stream |-> "gzip", bytes |-> b], fresh |-> TRUE]

ListToken(l, b) ==
  [typ |-> "statuslist+jwt", issuer |-> Publisher[l], sub |-> l, bits |-> TokenBits,
   list |-> [stream |-> "zlib", bytes |-> b], fresh |-> TRUE]

ListOK(l, v) ==
  v = Refused \/ (Authentic(l) /\ \E b \in ByteLists(l) : v = ListCredential(l, b) /\ Told(l, b))

TokenOK(l, v) ==
  v = Refused \/ (Authentic(l) /\ \E b \in ByteLists(l) : v = ListToken(l, b) /\ Told(l, b))

AnswerOK(kind, name, v) ==
  /\ kind \in {"did", "metadata"} => v \in 1..keys[name]
  /\ kind = "w3c" => ListOK(name, v)
  /\ kind = "ietf" => TokenOK(name, v)
  /\ kind = "schema" => v = Schemas[name]
  /\ changes = {} => v = Origin(kind, name)

CacheOK == \A k \in Callables : k \in DOMAIN cache => AnswerOK(k[1], k[2], cache[k])

OnceOK ==
  Sequential => DOMAIN fetched = DOMAIN cache /\ \A k \in DOMAIN fetched : fetched[k] = 1

----------------------------------------------------------------------------
(***************************************************************************)
(* A verification on its way.                                              *)
(***************************************************************************)
IsLocals(s) ==
  s = [pc |-> s.pc, cred |-> s.cred, outer |-> s.outer, depth |-> s.depth, todo |-> s.todo,
       set |-> s.set, verdict |-> s.verdict]

FineNow(c, p, g) == Fine(c, p, g, SinceTheCall, Standing)

\* What is accepted, and what must not be refused.
Whole(n) ==
  LET c == Credentials[n]
  IN  /\ FineNow(c, Asked, args.given)
      /\ c.schema # "none" => SchemaFine(c, Asked, args.given, SinceTheCall, Standing)

Flawless(n) ==
  Credentials[n].format # "odd" /\ Credentials[n].layers <= MaxDepth /\ Whole(n)

\* The inner pass is on the schema credential of the one in the batch, and the
\* outer pass has come that far.
InnerRole(i, s) ==
  /\ s.outer = args.batch[i] /\ s.outer \in DOMAIN Credentials
  /\ "schema" \in args.given
  /\ Credentials[s.outer].schema \in DOMAIN Schemas
  /\ Credentials[s.outer].schema \notin {"none", "odd"}
  /\ Schemas[Credentials[s.outer].schema] = s.cred /\ PinHolds(Credentials[s.outer])
  /\ FineNow(Credentials[s.outer], Asked, args.given)

RoleOK(i, s) ==
  /\ s.cred \in DOMAIN Credentials
  /\ (s.outer = Nothing /\ s.cred = args.batch[i]) \/ InnerRole(i, s)

\* The depth at which this pass was entered.
EnteredAt(s) == IF s.outer = Nothing THEN 0 ELSE Credentials[s.outer].layers + 1

DepthOK(s) ==
  /\ Readable(Cred(s), EnteredAt(s))
  /\ s.outer = Nothing => s.depth = Cred(s).layers

ProvedOK(s) ==
  LET c == Cred(s)
      p == Policy(s)
  IN  /\ SignedFor(c, Given(s), SinceTheCall)
      /\ p.notExpired => ~ c.expired
      /\ p.typed => c.typed

\* An entry whose bit has been read, and is among those seen if it was set.
EntryRead(s, n) ==
  LET e == Cred(s).w3c[n]
  IN  /\ Purpose[e.url] = e.purpose
      /\ Authentic(e.url) /\ e.index.n < Room(e.url)
      /\ Policy(s).bind => Publisher[e.url] \in {Cred(s).iss} \cup Policy(s).allowlist
      /\ \A q \in {"revocation", "suspension"} :
           e.purpose = q /\ Marked(Standing, e.url, e.index.n, q) => q \in s.set

W3cOK(s) ==
  LET named == ParseStatusEntries(Cred(s).w3c)
  IN  /\ "w3c" \in Given(s) /\ W3cShape(Cred(s).w3c) = "entries"
      /\ s.todo # {} /\ s.todo \subseteq named
      /\ \A n \in named \ s.todo : EntryRead(s, n)
      /\ changes = {} =>
           \A q \in s.set : \E n \in named : /\ Cred(s).w3c[n].purpose = q
                                             /\ Marked(Standing, Cred(s).w3c[n].url,
                                                       Cred(s).w3c[n].index.n, q)

W3cDone(s) == W3cFine(Cred(s), Policy(s), Given(s), Standing)

IetfDone(s) == IetfFine(Cred(s), Policy(s), Given(s), Standing)

GoingOn(i, s) ==
  /\ RoleOK(i, s) /\ s.verdict = Nothing
  /\ s.pc \in {"odd", "key", "w3c", "ietf", "schema"}
  /\ s.pc = "odd" => ~ Readable(Cred(s), EnteredAt(s))
  /\ s.pc # "odd" => DepthOK(s)
  /\ s.pc \in {"odd", "key"} => s.todo = ParseStatusEntries(Cred(s).w3c) /\ s.set = {}
  /\ s.pc \in {"w3c", "ietf", "schema"} => ProvedOK(s)
  /\ s.pc = "w3c" => W3cOK(s)
  /\ s.pc = "ietf" => W3cDone(s) /\ "ietf" \in Given(s) /\ IetfShape(Cred(s).ietf) = "entries"
  /\ s.pc = "schema" => /\ W3cDone(s) /\ IetfDone(s)
                        /\ Cred(s).schema # "none" /\ "schema" \in Given(s)

TaskOK(i, s) ==
  /\ IsLocals(s)
  /\ s.pc # "done" => GoingOn(i, s)
  /\ s.pc = "done" /\ s.verdict = "ok" => Whole(args.batch[i])
  /\ s.pc = "done" /\ s.verdict # "ok" /\ i \notin faults /\ changes = {} => ~ Flawless(args.batch[i])

TasksOK == task = [i \in Items |-> task[i]] /\ \A i \in Items : TaskOK(i, task[i])

BatchInv == WorldOK /\ BytesOK /\ CacheOK /\ OnceOK /\ TasksOK

----------------------------------------------------------------------------
(***************************************************************************)
(* Where a status sits, and what a write leaves of the others.             *)
(***************************************************************************)
Width(l) == IF l \in Lists THEN 1 ELSE TokenBits

\* The place of index n in its byte, counted from the low end.
Place(l, n) == IF l \in Lists THEN 7 - (n % 8) ELSE n % PerByte(l)

\* The byte c has the value v at place k, and is otherwise like b.
Overwrites(c, b, k, v, bits) ==
  /\ c \in 0..255 /\ Field(c, k * bits, bits) = v
  /\ \A j \in 0..(8 \div bits - 1) : j # k => Field(c, j * bits, bits) = Field(b, j * bits, bits)

LEMMA WrittenByte ==
  ASSUME NEW bits \in {1, 2, 4, 8}, NEW b \in 0..255,
         NEW k \in 0..(8 \div bits - 1), NEW v \in 0..(2^bits - 1)
  PROVE  Overwrites(WithField(b, k * bits, bits, v), b, k, v, bits)
<1>1. PICK x \in Fields(bits) : b = Byte(x, bits)
  BY ByteOfFields
<1> DEFINE y == [x EXCEPT ![k] = v]
<1>2. y \in Fields(bits) /\ WithField(b, k * bits, bits, v) = Byte(y, bits)
  BY <1>1, WriteField
<1>3. y[k] = v /\ \A j \in 0..(8 \div bits - 1) : j # k => y[j] = x[j]
  BY <1>1 DEF Fields
<1> HIDE DEF y
<1>4. /\ Byte(y, bits) \in 0..255
      /\ \A j \in 0..(8 \div bits - 1) : Field(Byte(y, bits), j * bits, bits) = y[j]
  BY <1>2, FieldsOfByte
<1>5. \A j \in 0..(8 \div bits - 1) : Field(b, j * bits, bits) = x[j]
  BY <1>1, FieldsOfByte
<1> QED BY <1>2, <1>3, <1>4, <1>5 DEF Overwrites

LEMMA ListShape ==
  ASSUME NEW l \in AllLists
  PROVE  /\ Width(l) \in {1, 2, 4, 8} /\ PerByte(l) = 8 \div Width(l) /\ PerByte(l) \in {1, 2, 4, 8}
         /\ ListLength(l) \in Nat /\ ListLength(l) <= MaxBytes
         /\ Room(l) = PerByte(l) * ListLength(l) /\ Capacity <= Room(l) /\ Room(l) \in Nat
<1>1. /\ TokenBits \in {1, 2, 4, 8} /\ Capacity \in Nat /\ MaxBytes \in Nat
      /\ (Capacity + 8 - 1) \div 8 <= MaxBytes
      /\ (Capacity + (8 \div TokenBits) - 1) \div (8 \div TokenBits) <= MaxBytes
  BY ListAssumption
<1>2. 8 \div 1 = 8 /\ 8 \div 2 = 4 /\ 8 \div 4 = 2 /\ 8 \div 8 = 1
  OBVIOUS
<1>3. Width(l) \in {1, 2, 4, 8} /\ PerByte(l) = 8 \div Width(l) /\ PerByte(l) \in {1, 2, 4, 8}
  BY <1>1, <1>2 DEF Width, PerByte
<1>4. ListLength(l) <= MaxBytes
  BY <1>1 DEF ListLength, PerByte
<1>5. /\ ListLength(l) = (Capacity + PerByte(l) - 1) \div PerByte(l)
      /\ Room(l) = PerByte(l) * ListLength(l)
  BY DEF ListLength, Room, PerByte
<1>6. ListLength(l) \in Nat /\ Capacity <= PerByte(l) * ListLength(l) /\ PerByte(l) * ListLength(l) \in Nat
  <2>1. CASE PerByte(l) = 1
    BY <1>1, <1>5, <2>1
  <2>2. CASE PerByte(l) = 2
    BY <1>1, <1>5, <2>2
  <2>3. CASE PerByte(l) = 4
    BY <1>1, <1>5, <2>3
  <2>4. CASE PerByte(l) = 8
    BY <1>1, <1>5, <2>4
  <2> QED BY <1>3, <2>1, <2>2, <2>3, <2>4
<1> QED BY <1>3, <1>4, <1>5, <1>6

LEMMA Quotients ==
  ASSUME NEW d \in {1, 2, 4, 8}, NEW n \in Nat, NEW k \in Nat
  PROVE  /\ n \div d \in Nat /\ n % d \in 0..(d - 1)
         /\ n < d * k <=> n \div d < k
         /\ n = d * (n \div d) + (n % d)
<1>1. CASE d = 1
  BY <1>1
<1>2. CASE d = 2
  BY <1>2
<1>3. CASE d = 4
  BY <1>3
<1>4. CASE d = 8
  BY <1>4
<1> QED BY <1>1, <1>2, <1>3, <1>4

\* Every index has a place of its own.
LEMMA Places ==
  ASSUME NEW l \in AllLists, NEW n \in Nat
  PROVE  /\ n \div PerByte(l) \in Nat /\ n % PerByte(l) \in 0..(PerByte(l) - 1)
         /\ Place(l, n) \in 0..(8 \div Width(l) - 1)
         /\ n < Room(l) <=> n \div PerByte(l) < ListLength(l)
         /\ \A k \in Nat :
              (k \div PerByte(l) = n \div PerByte(l) /\ Place(l, k) = Place(l, n)) => k = n
<1>1. PerByte(l) \in {1, 2, 4, 8} /\ PerByte(l) = 8 \div Width(l) /\ ListLength(l) \in Nat
      /\ Room(l) = PerByte(l) * ListLength(l)
  BY ListShape
<1>2. \A k \in Nat : Place(l, k) = IF l \in Lists THEN 7 - (k % PerByte(l)) ELSE k % PerByte(l)
  BY DEF Place, PerByte
<1>3. l \in Lists => PerByte(l) = 8
  BY DEF PerByte
<1>4. \A k \in Nat : k \div PerByte(l) \in Nat /\ k % PerByte(l) \in 0..(PerByte(l) - 1)
  BY <1>1, Quotients
<1>5. n < Room(l) <=> n \div PerByte(l) < ListLength(l)
  BY <1>1, Quotients
<1>6. Place(l, n) \in 0..(8 \div Width(l) - 1)
  <2>1. n % PerByte(l) \in 0..(PerByte(l) - 1)
    BY <1>4
  <2>2. CASE l \in Lists
    <3>1. PerByte(l) = 8 /\ Place(l, n) = 7 - (n % PerByte(l))
      BY <1>2, <1>3, <2>2
    <3> QED BY <1>1, <2>1, <3>1
  <2>3. CASE l \notin Lists
    BY <1>1, <1>2, <2>1, <2>3
  <2> QED BY <2>2, <2>3
<1>7. ASSUME NEW k \in Nat, k \div PerByte(l) = n \div PerByte(l), Place(l, k) = Place(l, n)
      PROVE  k = n
  <2>1. k % PerByte(l) = n % PerByte(l)
    <3>1. k % PerByte(l) \in Int /\ n % PerByte(l) \in Int
      BY <1>1, <1>4
    <3>2. CASE l \in Lists
      <4>1. 7 - (k % PerByte(l)) = 7 - (n % PerByte(l))
        BY <1>2, <1>7, <3>2
      <4> QED BY <3>1, <4>1
    <3>3. CASE l \notin Lists
      BY <1>2, <1>7, <3>3
    <3> QED BY <3>2, <3>3
  <2>2. /\ k = PerByte(l) * (k \div PerByte(l)) + (k % PerByte(l))
        /\ n = PerByte(l) * (n \div PerByte(l)) + (n % PerByte(l))
    BY <1>1, Quotients
  <2> QED BY <1>7, <2>1, <2>2
<1> QED BY <1>4, <1>5, <1>6, <1>7

LEMMA Located ==
  ASSUME NEW l \in AllLists, NEW n \in Nat
  PROVE  /\ n < Room(l) =>
              /\ Locate(n, PerByte(l), ListLength(l)) = [byte |-> n \div PerByte(l) + 1, pos |-> n % PerByte(l)]
              /\ Locate(n, PerByte(l), ListLength(l)) # Refused
              /\ n \div PerByte(l) + 1 \in 1..ListLength(l)
         /\ ~ (n < Room(l)) => Locate(n, PerByte(l), ListLength(l)) = Refused
<1>1. /\ n \div PerByte(l) \in Nat /\ n % PerByte(l) \in 0..(PerByte(l) - 1)
      /\ n < Room(l) <=> n \div PerByte(l) < ListLength(l)
  BY Places
<1>a. PerByte(l) \in Nat /\ ListLength(l) \in Nat
  BY ListShape
<1>2. [byte |-> n \div PerByte(l) + 1, pos |-> n % PerByte(l)] \in [byte : Nat, pos : Nat]
  BY <1>1, <1>a
<1>3. [byte |-> n \div PerByte(l) + 1, pos |-> n % PerByte(l)] # Refused
  BY <1>2, RefusedAssumption
<1> QED BY <1>1, <1>3, <1>a DEF Locate

LEMMA BytesAreSeq ==
  ASSUME NEW n \in Nat, NEW b \in [1..n -> 0..255]
  PROVE  b \in Seq(0..255) /\ Len(b) = n
OBVIOUS

LEMMA ByteListLen ==
  ASSUME NEW l \in AllLists, NEW b \in ByteLists(l)
  PROVE  b \in Seq(0..255) /\ Len(b) = ListLength(l)
BY ListShape, BytesAreSeq, Zenon DEF ByteLists

LEMMA ReadAtIs ==
  ASSUME NEW l \in AllLists, NEW b \in ByteLists(l), NEW n \in Nat
  PROVE  /\ n < Room(l) => ReadAt(l, b, n) = Field(b[n \div PerByte(l) + 1], Place(l, n) * Width(l), Width(l))
         /\ ~ (n < Room(l)) => ReadAt(l, b, n) = Refused
<1>1. Len(b) = ListLength(l)
  BY ByteListLen
<1>2. Place(l, n) \in Int /\ TokenBits \in {1, 2, 4, 8}
  BY Places, ListShape, ListAssumption
<1>3. CASE l \in Lists
  <2>1. PerByte(l) = 8 /\ Width(l) = 1 /\ Place(l, n) = 7 - (n % 8)
    BY <1>3 DEF PerByte, Width, Place
  <2>2. Place(l, n) * 1 = 7 - (n % 8)
    BY <1>2, <2>1
  <2>3. ReadAt(l, b, n) = GetStatusBit(b, n)
    BY <1>3 DEF ReadAt
  <2> DEFINE at == Locate(n, 8, Len(b))
  <2>4. GetStatusBit(b, n) = IF at = Refused THEN Refused ELSE Field(b[at.byte], 7 - at.pos, 1)
    BY DEF GetStatusBit
  <2>5. n < Room(l) => at # Refused /\ at.byte = n \div 8 + 1 /\ at.pos = n % 8
    BY <1>1, <2>1, Located
  <2>6. ~ (n < Room(l)) => at = Refused
    BY <1>1, <2>1, Located
  <2> HIDE DEF at
  <2> QED BY <2>1, <2>2, <2>3, <2>4, <2>5, <2>6
<1>4. CASE l \notin Lists
  <2>1. PerByte(l) = 8 \div TokenBits /\ Width(l) = TokenBits /\ Place(l, n) = n % PerByte(l)
    BY <1>4 DEF PerByte, Width, Place
  <2>2. ReadAt(l, b, n) = GetStatus(b, n, TokenBits)
    BY <1>4 DEF ReadAt
  <2> QED BY <1>1, <1>2, <2>1, <2>2, Located DEF GetStatus
<1> QED BY <1>3, <1>4

LEMMA ValueFits ==
  ASSUME NEW l \in AllLists, NEW m \in Marks(l)
  PROVE  Value(l, m) \in 0..(2^Width(l) - 1)
<1>1. CASE l \in Lists
  BY <1>1, Powers DEF Value, Width, StatusInvalid
<1>2. CASE l \notin Lists
  <2>1. m = "valid" \/ (m \in {"revocation", "suspension"} /\ Value(l, m) < 2^TokenBits)
    BY <1>2 DEF Marks
  <2>2. 2^TokenBits \in Nat /\ 2^TokenBits > 0
    <3>1. CASE TokenBits = 1
      BY <3>1, Powers
    <3>2. CASE TokenBits = 2
      BY <3>2, Powers
    <3>3. CASE TokenBits = 4
      BY <3>3, Powers
    <3>4. CASE TokenBits = 8
      BY <3>4, Powers
    <3> QED BY <3>1, <3>2, <3>3, <3>4, ListAssumption
  <2> QED BY <1>2, <2>1, <2>2 DEF Value, Width, StatusInvalid, StatusSuspended
<1> QED BY <1>1, <1>2

LEMMA WriteIs ==
  ASSUME NEW l \in AllLists, NEW b \in ByteLists(l), NEW c \in DOMAIN Slot, NEW m \in Marks(l)
  PROVE  LET n == Slot[c]
             at == n \div PerByte(l) + 1
         IN  Write(l, b, c, m)
               = [b EXCEPT ![at] = WithField(b[at], Place(l, n) * Width(l), Width(l), Value(l, m))]
<1> DEFINE n == Slot[c]
<1>1. n \in Nat /\ n < Room(l)
  BY ListShape, ListAssumption
<1>2. Len(b) = ListLength(l)
  BY ByteListLen
<1>3. Place(l, n) \in Int
  BY <1>1, Places, ListShape
<1>4. Locate(n, PerByte(l), ListLength(l)) = [byte |-> n \div PerByte(l) + 1, pos |-> n % PerByte(l)]
  BY <1>1, Located
<1> HIDE DEF n
<1>5. CASE l \in Lists
  <2>1. PerByte(l) = 8 /\ Width(l) = 1 /\ Place(l, n) = 7 - (n % 8)
    BY <1>5 DEF PerByte, Width, Place
  <2>2. Place(l, n) * 1 = 7 - (n % 8)
    BY <1>3, <2>1
  <2>3. Write(l, b, c, m) = SetStatusBit(b, n, Value(l, m))
    BY <1>5 DEF Write, n
  <2>4. SetStatusBit(b, n, Value(l, m))
          = [b EXCEPT ![n \div 8 + 1] = WithField(b[n \div 8 + 1], 7 - (n % 8), 1, Value(l, m))]
    <3> DEFINE at == Locate(n, 8, Len(b))
    <3>1. at.byte = n \div 8 + 1 /\ at.pos = n % 8
      BY <1>2, <1>4, <2>1
    <3>2. SetStatusBit(b, n, Value(l, m)) = [b EXCEPT ![at.byte] = WithField(b[at.byte], 7 - at.pos, 1, Value(l, m))]
      BY DEF SetStatusBit
    <3> QED BY <3>1, <3>2, Zenon
  <2> QED BY <2>1, <2>2, <2>3, <2>4 DEF n
<1>6. CASE l \notin Lists
  <2>1. PerByte(l) = 8 \div TokenBits /\ Width(l) = TokenBits /\ Place(l, n) = n % PerByte(l)
    BY <1>6 DEF PerByte, Width, Place
  <2>2. Write(l, b, c, m) = PutStatus(b, n, Value(l, m), TokenBits)
    BY <1>6 DEF Write, n
  <2>3. PutStatus(b, n, Value(l, m), TokenBits)
          = [b EXCEPT ![n \div PerByte(l) + 1]
               = WithField(b[n \div PerByte(l) + 1], (n % PerByte(l)) * TokenBits, TokenBits, Value(l, m))]
    <3> DEFINE at == Locate(n, 8 \div TokenBits, Len(b))
    <3>1. at.byte = n \div PerByte(l) + 1 /\ at.pos = n % PerByte(l)
      BY <1>2, <1>4, <2>1
    <3>2. PutStatus(b, n, Value(l, m), TokenBits)
            = [b EXCEPT ![at.byte] = WithField(b[at.byte], at.pos * TokenBits, TokenBits, Value(l, m))]
      BY DEF PutStatus
    <3> QED BY <3>1, <3>2, Zenon
  <2> QED BY <2>1, <2>2, <2>3 DEF n
<1> QED BY <1>5, <1>6

\* What is written is read, and nothing else has changed.
LEMMA WriteThenRead ==
  ASSUME NEW l \in AllLists, NEW b \in ByteLists(l), NEW c \in DOMAIN Slot, NEW m \in Marks(l)
  PROVE  /\ Write(l, b, c, m) \in ByteLists(l)
         /\ \A n \in 0..(Room(l) - 1) :
              ReadAt(l, Write(l, b, c, m), n) = IF n = Slot[c] THEN Value(l, m) ELSE ReadAt(l, b, n)
<1> DEFINE k == Slot[c]
           at == k \div PerByte(l) + 1
           new == WithField(b[at], Place(l, k) * Width(l), Width(l), Value(l, m))
           w == Write(l, b, c, m)
<1>1. k \in Nat /\ k < Room(l) /\ Room(l) \in Nat
  BY ListShape, ListAssumption
<1>2. at \in 1..ListLength(l) /\ b[at] \in 0..255
  BY <1>1, Located DEF ByteLists
<1>3. w = [b EXCEPT ![at] = new]
  BY WriteIs
<1>4. Place(l, k) \in 0..(8 \div Width(l) - 1) /\ Width(l) \in {1, 2, 4, 8}
  BY <1>1, Places, ListShape
<1>5. Value(l, m) \in 0..(2^Width(l) - 1)
  BY ValueFits
<1>6. /\ new \in 0..255 /\ Field(new, Place(l, k) * Width(l), Width(l)) = Value(l, m)
      /\ \A j \in 0..(8 \div Width(l) - 1) : j # Place(l, k) =>
           Field(new, j * Width(l), Width(l)) = Field(b[at], j * Width(l), Width(l))
  <2> DEFINE old == b[at]
             pl == Place(l, k)
             wd == Width(l)
             vl == Value(l, m)
  <2>1. old \in 0..255 /\ wd \in {1, 2, 4, 8} /\ pl \in 0..(8 \div wd - 1) /\ vl \in 0..(2^wd - 1)
    BY <1>2, <1>4, <1>5
  <2> HIDE DEF old, pl, wd, vl
  <2>2. Overwrites(WithField(old, pl * wd, wd, vl), old, pl, vl, wd)
    BY <2>1, WrittenByte, Zenon
  <2> QED BY <2>2 DEF Overwrites, old, pl, wd, vl
<1> HIDE DEF new, w
<1>7. w \in ByteLists(l)
  BY <1>2, <1>3, <1>6 DEF ByteLists
<1>8. ASSUME NEW n \in 0..(Room(l) - 1)
      PROVE  ReadAt(l, w, n) = IF n = k THEN Value(l, m) ELSE ReadAt(l, b, n)
  <2> DEFINE pl == n \div PerByte(l) + 1
  <2>1. n \in Nat /\ n < Room(l)
    BY <1>1
  <2>2. /\ ReadAt(l, w, n) = Field(w[pl], Place(l, n) * Width(l), Width(l))
        /\ ReadAt(l, b, n) = Field(b[pl], Place(l, n) * Width(l), Width(l))
    BY <1>7, <2>1, ReadAtIs
  <2>3. pl \in 1..ListLength(l) /\ Place(l, n) \in 0..(8 \div Width(l) - 1)
    BY <2>1, Located, Places
  <2>4. CASE pl = at
    <3>1. w[pl] = new
      BY <1>3, <2>3, <2>4 DEF ByteLists
    <3>2. n # k => Place(l, n) # Place(l, k)
      BY <1>1, <2>1, <2>4, Places
    <3> HIDE DEF pl, at, k
    <3>3. CASE n = k
      BY <1>6, <2>2, <3>1, <3>3
    <3>4. CASE n # k
      BY <1>6, <2>2, <2>3, <2>4, <3>1, <3>2, <3>4
    <3> QED BY <3>3, <3>4
  <2>5. CASE pl # at
    <3>1. w[pl] = b[pl] /\ n # k
      BY <1>3, <2>3, <2>5 DEF ByteLists
    <3> QED BY <2>2, <3>1
  <2> QED BY <2>4, <2>5
<1> QED BY <1>7, <1>8 DEF w

LEMMA BlankReads ==
  ASSUME NEW l \in AllLists
  PROVE  /\ Blank(l) \in ByteLists(l)
         /\ \A n \in 0..(Room(l) - 1) : ReadAt(l, Blank(l), n) = 0
<1>1. ListLength(l) \in Nat /\ ListLength(l) <= MaxBytes /\ MaxBytes \in Nat /\ Capacity \in Nat
  BY ListShape, ListAssumption
<1>2. PackedLength(Capacity, PerByte(l)) = ListLength(l)
  BY <1>1 DEF PackedLength, ListLength
<1>3. Blank(l) = [n \in 1..ListLength(l) |-> 0]
  BY <1>2 DEF Blank, NewBitstring, NewStatusList, PerByte
<1>4. Blank(l) \in ByteLists(l)
  BY <1>3 DEF ByteLists
<1>5. ASSUME NEW n \in 0..(Room(l) - 1) PROVE ReadAt(l, Blank(l), n) = 0
  <2>1. n \in Nat /\ n < Room(l)
    BY ListShape
  <2>2. Blank(l)[n \div PerByte(l) + 1] = 0
    BY <1>3, <2>1, Located
  <2>3. Field(0, Place(l, n) * Width(l), Width(l)) = 0
    <3>1. Place(l, n) \in 0..(8 \div Width(l) - 1) /\ Width(l) \in {1, 2, 4, 8}
      BY <2>1, Places, ListShape
    <3>2. PICK x \in Fields(Width(l)) : 0 = Byte(x, Width(l))
      BY <3>1, ByteOfFields
    <3> DEFINE zero == [k \in 0..(8 \div Width(l) - 1) |-> 0]
    <3>3. zero \in Fields(Width(l))
      BY <3>1, Powers DEF Fields
    <3>4. Byte(zero, Width(l)) = 0
      BY <3>1 DEF Byte
    <3>5. Field(Byte(zero, Width(l)), Place(l, n) * Width(l), Width(l)) = zero[Place(l, n)]
      BY <3>1, <3>3, FieldsOfByte
    <3> QED BY <3>1, <3>4, <3>5
  <2> QED BY <1>4, <2>1, <2>2, <2>3, ReadAtIs
<1> QED BY <1>4, <1>5

----------------------------------------------------------------------------
(***************************************************************************)
(* What a resolver answers.                                                *)
(***************************************************************************)
LEMMA StandingIs ==
  ASSUME WorldOK, NEW l \in AllLists, NEW c \in DOMAIN Slot
  PROVE  Standing[l][c] = IF <<l, c>> \in changes THEN "valid" ELSE AtFirst[l][c]
<1>1. DOMAIN marks[l] = DOMAIN Slot
  BY DEF WorldOK
<1> QED BY <1>1 DEF Standing, AllLists

LEMMA CalmStanding ==
  ASSUME WorldOK, returned # "uncalled", changes = {}, NEW l \in AllLists, NEW c \in DOMAIN Slot
  PROVE  Standing[l][c] = marks[l][c]
<1>1. <<l, c>> \notin changes
  OBVIOUS
<1>2. marks[l][c] = AtFirst[l][c]
  BY <1>1 DEF WorldOK
<1> QED BY <1>1, <1>2, StandingIs

LEMMA SlotInRoom ==
  ASSUME NEW l \in AllLists, NEW c \in DOMAIN Slot
  PROVE  Slot[c] \in 0..(Room(l) - 1)
BY ListShape, ListAssumption

LEMMA BytesAreTold ==
  ASSUME WorldOK, BytesOK, returned # "uncalled", NEW l \in AllLists
  PROVE  bytes[l] \in ByteLists(l) /\ Told(l, bytes[l])
<1> SUFFICES ASSUME NEW c \in DOMAIN Slot, Standing[l][c] # "valid"
             PROVE  ReadAt(l, bytes[l], Slot[c]) = Value(l, Standing[l][c])
  BY DEF Told, BytesOK
<1>1. Standing[l][c] = marks[l][c]
  BY StandingIs DEF WorldOK
<1>2. Meant(marks, l, Slot[c], ReadAt(l, bytes[l], Slot[c]))
  BY SlotInRoom DEF BytesOK
<1>3. \A d \in DOMAIN Slot : Slot[d] = Slot[c] => d = c
  BY ListAssumption
<1> QED BY <1>1, <1>2, <1>3, Zenon DEF Meant

LEMMA HostedIs ==
  ASSUME WorldOK, NEW l \in AllLists
  PROVE  Hosted[l] \in [issuer : Issuers \cup {Nothing}, sub : Lists \cup Tokens, fresh : BOOLEAN]
BY CallAssumption DEF WorldOK, Hosted, AllLists

LEMMA PublisherIs ==
  ASSUME NEW l \in AllLists
  PROVE  Publisher[l] \in Issuers /\ Publisher[l] # Nothing
BY ListAssumption, BatchAssumption DEF AllLists

\* A list that is served is refused, or it is authentic and what its issuer
\* built.
LEMMA ListServed ==
  ASSUME WorldOK, NEW l \in Lists
  PROVE  LET v == ResolveList(Served(l), Publisher[l])
         IN  IF Authentic(l) THEN v = ListCredential(l, bytes[l]) ELSE v = Refused
<1>1. Served(l) = [typ |-> "vc", issuer |-> Hosted[l].issuer, purpose |-> Purpose[l], bits |-> 1,
                   list |-> [stream |-> "gzip", bytes |-> bytes[l]], fresh |-> Hosted[l].fresh]
  BY DEF Served, BuildListCredential, Encode
<1>2. /\ Authentic(l) <=> Hosted[l].issuer \in {Nothing, Publisher[l]} /\ Hosted[l].fresh
      /\ Hosted[l].fresh \in BOOLEAN
  BY HostedIs DEF Authentic, AllLists
<1>3. CASE Hosted[l].issuer \in {Nothing, Publisher[l]} /\ Hosted[l].fresh
  <2>0. PICK yes : yes = TRUE /\ Hosted[l].fresh = yes
    BY <1>2, <1>3
  <2>1. ResolveList(Served(l), Publisher[l]) = [Served(l) EXCEPT !.issuer = Publisher[l]]
    BY <1>1, <1>3 DEF ResolveList
  <2> DEFINE v == [typ |-> "vc", issuer |-> Hosted[l].issuer, purpose |-> Purpose[l], bits |-> 1,
                   list |-> [stream |-> "gzip", bytes |-> bytes[l]], fresh |-> yes]
             w == [typ |-> "vc", issuer |-> Publisher[l], purpose |-> Purpose[l], bits |-> 1,
                   list |-> [stream |-> "gzip", bytes |-> bytes[l]], fresh |-> yes]
  <2>2. Served(l) = v
    BY <1>1, <2>0
  <2>3. [v EXCEPT !.issuer = Publisher[l]] = w
    OBVIOUS
  <2>4. w = ListCredential(l, bytes[l])
    BY <2>0, Zenon DEF ListCredential
  <2> HIDE DEF v, w
  <2> QED BY <1>2, <1>3, <2>1, <2>2, <2>3, <2>4, Zenon
<1>4. CASE ~ (Hosted[l].issuer \in {Nothing, Publisher[l]} /\ Hosted[l].fresh)
  BY <1>1, <1>2, <1>4 DEF ResolveList
<1> QED BY <1>3, <1>4

LEMMA TokenServed ==
  ASSUME WorldOK, NEW l \in Tokens
  PROVE  LET v == ResolveToken(Served(l), Publisher[l], l)
         IN  IF Authentic(l) THEN v = ListToken(l, bytes[l]) ELSE v = Refused
<1> DEFINE sv == Served(l)
           row == << Check(sv.issuer # Nothing,         "iss"),
                     Check(sv.issuer = Publisher[l],    "signature"),
                     Check(sv.typ = "statuslist+jwt",   "typ"),
                     Check(sv.sub = l,                  "sub"),
                     Check(sv.fresh,                    "temporal") >>
<1>0. l \notin Lists /\ l \in AllLists
  BY BatchAssumption DEF AllLists
<1>1. sv = [typ |-> "statuslist+jwt", issuer |-> Hosted[l].issuer, sub |-> Hosted[l].sub, bits |-> TokenBits,
            list |-> [stream |-> "zlib", bytes |-> bytes[l]], fresh |-> Hosted[l].fresh]
  BY <1>0 DEF Served, BuildListToken, Encode
<1>2. Authentic(l) <=> Hosted[l] = [issuer |-> Publisher[l], sub |-> l, fresh |-> TRUE]
  BY <1>0 DEF Authentic
<1>3. Hosted[l] = [issuer |-> Hosted[l].issuer, sub |-> Hosted[l].sub, fresh |-> Hosted[l].fresh]
      /\ Hosted[l].fresh \in BOOLEAN
  BY <1>0, HostedIs
<1>4. Publisher[l] # Nothing
  BY <1>0, PublisherIs
<1> HIDE DEF sv
<1>5. /\ DOMAIN row = 1..5
      /\ row[1].ok <=> sv.issuer # Nothing
      /\ row[2].ok <=> sv.issuer = Publisher[l]
      /\ row[3].ok <=> sv.typ = "statuslist+jwt"
      /\ row[4].ok <=> sv.sub = l
      /\ row[5].ok = sv.fresh
      /\ \A i \in 1..5 : row[i].err # "ok"
  <2>1. DOMAIN row = 1..5
    OBVIOUS
  <2>2. row[1].ok = (sv.issuer # Nothing) /\ row[1].err = "iss"
    BY DEF Check
  <2>3. row[2].ok = (sv.issuer = Publisher[l]) /\ row[2].err = "signature"
    BY DEF Check
  <2>4. row[3].ok = (sv.typ = "statuslist+jwt") /\ row[3].err = "typ"
    BY DEF Check
  <2>5. row[4].ok = (sv.sub = l) /\ row[4].err = "sub"
    BY DEF Check
  <2>6. row[5].ok = sv.fresh /\ row[5].err = "temporal"
    BY DEF Check
  <2> HIDE DEF row
  <2>7. \A i \in 1..5 : row[i].err # "ok"
    BY <2>2, <2>3, <2>4, <2>5, <2>6
  <2> QED BY <2>1, <2>2, <2>3, <2>4, <2>5, <2>6, <2>7
<1>6. ResolveToken(sv, Publisher[l], l) = IF FirstError(row) # "ok" THEN Refused ELSE sv
  BY DEF ResolveToken
<1> HIDE DEF row
<1>7. CASE Authentic(l)
  <2>0. Hosted[l].issuer = Publisher[l] /\ Hosted[l].sub = l /\ Hosted[l].fresh = TRUE
    BY <1>2, <1>7
  <2>1. sv = ListToken(l, bytes[l])
    BY <1>1, <2>0 DEF ListToken
  <2>2. sv.issuer = Publisher[l] /\ sv.typ = "statuslist+jwt" /\ sv.sub = l /\ sv.fresh = TRUE
    BY <2>1 DEF ListToken
  <2>3. \A i \in 1..5 : row[i].ok
    <3>1. row[1].ok /\ row[2].ok /\ row[3].ok /\ row[4].ok /\ row[5].ok
      BY <1>4, <1>5, <2>2, Zenon
    <3>2. \A i \in 1..5 : i = 1 \/ i = 2 \/ i = 3 \/ i = 4 \/ i = 5
      OBVIOUS
    <3> QED BY <3>1, <3>2, Zenon
  <2>4. FirstError(row) = "ok"
    BY <1>5, <2>3, AllChecksOK
  <2> QED BY <1>6, <1>7, <2>1, <2>4 DEF sv
<1>8. CASE ~ Authentic(l)
  <2>1. FirstError(row) # "ok"
    <3> SUFFICES ASSUME FirstError(row) = "ok" PROVE FALSE
      OBVIOUS
    <3>1. \A i \in 1..5 : row[i].ok
      BY <1>5, FirstErrorOK
    <3>2. row[2].ok /\ row[4].ok /\ row[5].ok
      BY <3>1
    <3>3. sv.issuer = Publisher[l] /\ sv.sub = l /\ sv.fresh
      BY <1>5, <3>2, Zenon
    <3>4. Hosted[l].issuer = Publisher[l] /\ Hosted[l].sub = l /\ Hosted[l].fresh
      BY <1>1, <3>3
    <3> QED BY <1>2, <1>3, <1>8, <3>4
  <2> QED BY <1>6, <1>8, <2>1 DEF sv
<1> QED BY <1>7, <1>8

LEMMA OriginIsOK ==
  ASSUME WorldOK, BytesOK, returned # "uncalled", NEW kind, NEW name, <<kind, name>> \in Callables
  PROVE  AnswerOK(kind, name, Origin(kind, name))
<1>1. \/ kind \in {"did", "metadata"} /\ name \in Issuers
      \/ kind = "w3c" /\ name \in Lists
      \/ kind = "ietf" /\ name \in Tokens
      \/ kind = "schema" /\ name \in DOMAIN Schemas
  BY DEF Callables
<1>2. CASE kind \in {"did", "metadata"} /\ name \in Issuers
  <2>1. Origin(kind, name) = keys[name]
    BY <1>2 DEF Origin
  <2>2. keys[name] \in 1..keys[name]
    BY <1>2 DEF WorldOK
  <2> QED BY <1>2, <2>1, <2>2 DEF AnswerOK
<1>3. CASE kind = "w3c" /\ name \in Lists
  <2>1. Origin(kind, name) = ResolveList(Served(name), Publisher[name])
    BY <1>3 DEF Origin
  <2>2. bytes[name] \in ByteLists(name) /\ Told(name, bytes[name])
    BY <1>3, BytesAreTold DEF AllLists
  <2>3. IF Authentic(name) THEN Origin(kind, name) = ListCredential(name, bytes[name])
        ELSE Origin(kind, name) = Refused
    BY <1>3, <2>1, ListServed
  <2>4. ListOK(name, Origin(kind, name))
    BY <2>2, <2>3, Zenon DEF ListOK
  <2> QED BY <1>3, <2>4 DEF AnswerOK
<1>4. CASE kind = "ietf" /\ name \in Tokens
  <2>1. Origin(kind, name) = ResolveToken(Served(name), Publisher[name], name)
    BY <1>4 DEF Origin
  <2>2. bytes[name] \in ByteLists(name) /\ Told(name, bytes[name])
    BY <1>4, BytesAreTold DEF AllLists
  <2>3. IF Authentic(name) THEN Origin(kind, name) = ListToken(name, bytes[name])
        ELSE Origin(kind, name) = Refused
    BY <1>4, <2>1, TokenServed
  <2>4. TokenOK(name, Origin(kind, name))
    BY <2>2, <2>3, Zenon DEF TokenOK
  <2> QED BY <1>4, <2>4 DEF AnswerOK
<1>5. CASE kind = "schema" /\ name \in DOMAIN Schemas
  <2>1. Origin(kind, name) = Schemas[name]
    BY <1>5 DEF Origin
  <2> QED BY <1>5, <2>1 DEF AnswerOK
<1> QED BY <1>1, <1>2, <1>3, <1>4, <1>5

LEMMA AnswerIsOK ==
  ASSUME WorldOK, BytesOK, CacheOK, returned # "uncalled", NEW kind, NEW name,
         <<kind, name>> \in Callables
  PROVE  AnswerOK(kind, name, Answer(kind, name))
<1>1. CASE Cached(kind, name)
  <2>1. <<kind, name>> \in DOMAIN cache /\ Answer(kind, name) = cache[<<kind, name>>]
    BY <1>1 DEF Cached, Answer, Key
  <2> QED BY <2>1 DEF CacheOK
<1>2. CASE ~ Cached(kind, name)
  BY <1>2, OriginIsOK DEF Answer
<1> QED BY <1>1, <1>2

----------------------------------------------------------------------------
(***************************************************************************)
(* The two passes.                                                         *)
(***************************************************************************)
LEMMA AskedIs ==
  ASSUME WorldOK
  PROVE  Asked \in [typed : BOOLEAN, notExpired : BOOLEAN, notRevoked : BOOLEAN,
                    status : BOOLEAN, schema : BOOLEAN, bind : BOOLEAN,
                    allowlist : SUBSET Issuers]
BY CallAssumption DEF WorldOK, Asked

LEMMA InnerPolicyIs ==
  ASSUME WorldOK
  PROVE  LET q == InnerPolicy(Asked)
             r == [Asked EXCEPT !.typed = FALSE, !.notExpired = TRUE, !.notRevoked = TRUE]
         IN  /\ q.typed = r.typed /\ q.notExpired = r.notExpired /\ q.notRevoked = r.notRevoked
             /\ q.status = r.status /\ q.bind = r.bind /\ q.allowlist = r.allowlist
             /\ q.schema = FALSE
BY AskedIs DEF InnerPolicy

\* Whether a credential is fine does not depend on what is said of schemas.
LEMMA FineDepends ==
  ASSUME NEW c, NEW p, NEW q, NEW g, NEW h, NEW pub, NEW m,
         p.typed = q.typed, p.notExpired = q.notExpired, p.notRevoked = q.notRevoked,
         p.status = q.status, p.bind = q.bind, p.allowlist = q.allowlist,
         \A x \in {"anchors", "https", "w3c", "ietf"} : x \in g <=> x \in h
  PROVE  Fine(c, p, g, pub, m) <=> Fine(c, q, h, pub, m)
<1>0. /\ "anchors" \in g <=> "anchors" \in h
      /\ "https" \in g <=> "https" \in h
      /\ "w3c" \in g <=> "w3c" \in h
      /\ "ietf" \in g <=> "ietf" \in h
  OBVIOUS
<1>1. SignedFor(c, g, pub) <=> SignedFor(c, h, pub)
  BY <1>0, Zenon DEF SignedFor
<1>2. \A list, n, purposes : Live(c, list, n, p, purposes, m) <=> Live(c, list, n, q, purposes, m)
  BY Zenon DEF Live
<1>3. W3cFine(c, p, g, m) <=> W3cFine(c, q, h, m)
  BY <1>0, <1>2, Zenon DEF W3cFine
<1>4. IetfFine(c, p, g, m) <=> IetfFine(c, q, h, m)
  BY <1>0, <1>2, Zenon DEF IetfFine
<1> QED BY <1>1, <1>3, <1>4, Zenon DEF Fine, StatusFine

LEMMA InnerFine ==
  ASSUME WorldOK, NEW c, NEW pub, NEW m
  PROVE  Fine(c, InnerPolicy(Asked), InnerGiven(args.given), pub, m)
           <=> Fine(c, [Asked EXCEPT !.typed = FALSE, !.notExpired = TRUE, !.notRevoked = TRUE],
                    args.given, pub, m)
<1> DEFINE q == InnerPolicy(Asked)
           r == [Asked EXCEPT !.typed = FALSE, !.notExpired = TRUE, !.notRevoked = TRUE]
<1>1. /\ q.typed = r.typed /\ q.notExpired = r.notExpired /\ q.notRevoked = r.notRevoked
      /\ q.status = r.status /\ q.bind = r.bind /\ q.allowlist = r.allowlist
  BY InnerPolicyIs
<1>2. \A x \in {"anchors", "https", "w3c", "ietf"} : x \in InnerGiven(args.given) <=> x \in args.given
  BY DEF InnerGiven
<1> HIDE DEF q, r
<1>3. Fine(c, q, InnerGiven(args.given), pub, m) <=> Fine(c, r, args.given, pub, m)
  BY <1>1, <1>2, FineDepends, Zenon
<1> QED BY <1>3 DEF q, r

LEMMA RolesAre ==
  ASSUME NEW i, NEW s, RoleOK(i, s)
  PROVE  /\ s.cred \in DOMAIN Credentials
         /\ s.outer = Nothing => /\ s.cred = args.batch[i] /\ EnteredAt(s) = 0
                                 /\ Policy(s) = Asked /\ Given(s) = args.given
         /\ s.outer # Nothing => /\ InnerRole(i, s) /\ EnteredAt(s) = Credentials[args.batch[i]].layers + 1
                                 /\ Policy(s) = InnerPolicy(Asked) /\ Given(s) = InnerGiven(args.given)
BY BatchAssumption DEF RoleOK, InnerRole, EnteredAt, Policy, Given

\* A pass over what has no flaw finds none.
LEMMA RoleFine ==
  ASSUME WorldOK, NEW i, NEW s, RoleOK(i, s), Flawless(args.batch[i])
  PROVE  /\ Readable(Cred(s), EnteredAt(s))
         /\ FineNow(Cred(s), Policy(s), Given(s))
         /\ s.outer # Nothing => Cred(s).wraps /\ Credentials[args.batch[i]].conforms
<1> DEFINE n == args.batch[i]
           c == Credentials[n]
<1>0. /\ c.format # "odd" /\ c.layers <= MaxDepth /\ FineNow(c, Asked, args.given)
      /\ c.schema # "none" => SchemaFine(c, Asked, args.given, SinceTheCall, Standing)
  BY DEF Flawless, Whole
<1>1. CASE s.outer = Nothing
  <2>1. s.cred \in DOMAIN Credentials /\ s.cred = n /\ EnteredAt(s) = 0 /\ Policy(s) = Asked /\ Given(s) = args.given
    BY <1>1, RolesAre
  <2>2. c.layers \in Nat
    BY <2>1, CredentialAssumption
  <2> QED BY <1>0, <1>1, <2>1, <2>2 DEF Readable, Cred
<1>2. CASE s.outer # Nothing
  <2>1. /\ s.cred \in DOMAIN Credentials /\ InnerRole(i, s) /\ EnteredAt(s) = c.layers + 1
        /\ Policy(s) = InnerPolicy(Asked) /\ Given(s) = InnerGiven(args.given)
    BY <1>2, RolesAre
  <2>2. c.schema # "none" /\ "schema" \in args.given /\ Schemas[c.schema] = s.cred
    BY <2>1 DEF InnerRole
  <2>3. s.cred # Nothing
    BY <2>1, BatchAssumption
  <2>4. /\ c.conforms /\ Cred(s).wraps /\ Cred(s).format # "odd"
        /\ Cred(s).layers = 0 \/ c.layers + 1 + Cred(s).layers <= MaxDepth
        /\ Fine(Cred(s), [Asked EXCEPT !.typed = FALSE, !.notExpired = TRUE, !.notRevoked = TRUE],
                args.given, SinceTheCall, Standing)
    BY <1>0, <2>2, <2>3 DEF SchemaFine, Cred
  <2>5. FineNow(Cred(s), InnerPolicy(Asked), InnerGiven(args.given))
    BY <2>4, InnerFine DEF FineNow
  <2> QED BY <1>2, <2>1, <2>4, <2>5 DEF Readable
<1> QED BY <1>1, <1>2

\* What is known of the batch's credential when a pass over it, or over its
\* schema credential, has come to its end.
LEMMA PassIsOver ==
  ASSUME WorldOK, NEW i, NEW s, RoleOK(i, s), DepthOK(s), ProvedOK(s), W3cDone(s), IetfDone(s)
  PROVE  /\ FineNow(Cred(s), Policy(s), Given(s))
         /\ FineNow(Credentials[args.batch[i]], Asked, args.given)
         /\ s.outer # Nothing /\ Cred(s).wraps /\ Credentials[args.batch[i]].conforms
              => Whole(args.batch[i])
<1> DEFINE n == args.batch[i]
           c == Credentials[n]
<1>1. FineNow(Cred(s), Policy(s), Given(s))
  BY DEF FineNow, Fine, StatusFine, ProvedOK, W3cDone, IetfDone
<1>2. CASE s.outer = Nothing
  BY <1>1, <1>2, RolesAre DEF Cred
<1>3. CASE s.outer # Nothing
  <2>1. /\ s.cred \in DOMAIN Credentials /\ InnerRole(i, s) /\ EnteredAt(s) = c.layers + 1
        /\ Policy(s) = InnerPolicy(Asked) /\ Given(s) = InnerGiven(args.given)
    BY <1>3, RolesAre
  <2>2. /\ c.schema \notin {"none", "odd"} /\ "schema" \in args.given /\ Schemas[c.schema] = s.cred
        /\ FineNow(c, Asked, args.given) /\ (c.pinned # "none" => c.pinned = c.schema)
    BY <2>1 DEF InnerRole, PinHolds
  <2>3. Fine(Cred(s), [Asked EXCEPT !.typed = FALSE, !.notExpired = TRUE, !.notRevoked = TRUE],
             args.given, SinceTheCall, Standing)
    BY <1>1, <2>1, InnerFine DEF FineNow
  <2>4. Cred(s).format # "odd" /\ (Cred(s).layers = 0 \/ c.layers + 1 + Cred(s).layers <= MaxDepth)
    BY <2>1 DEF DepthOK, Readable
  <2>5. Cred(s).wraps /\ c.conforms => SchemaFine(c, Asked, args.given, SinceTheCall, Standing)
    BY <2>2, <2>3, <2>4 DEF SchemaFine, Cred
  <2> QED BY <1>1, <2>2, <2>5 DEF Whole
<1> QED BY <1>2, <1>3, <1>1

----------------------------------------------------------------------------
(***************************************************************************)
(* How a step of a verification ends: in a state that is as it should be.  *)
(***************************************************************************)
Landed(i) == \E t : task' = [task EXCEPT ![i] = t] /\ TaskOK(i, t)

\* There is a flaw to blame a rejection on.
Flaw(i) == i \notin faults /\ changes = {} => ~ Flawless(args.batch[i])

LEMMA Ends ==
  ASSUME TasksOK, NEW i \in Items, NEW v, Finish(i, v),
         v = "ok" => Whole(args.batch[i]), v # "ok" => Flaw(i)
  PROVE  Landed(i)
<1> DEFINE t == [task[i] EXCEPT !.pc = "done", !.verdict = v]
<1>1. task' = [task EXCEPT ![i].pc = "done", ![i].verdict = v]
  BY DEF Finish
<1>2. IsLocals(task[i])
  BY DEF TasksOK, TaskOK
<1>3. t.pc = "done" /\ t.verdict = v /\ IsLocals(t)
  <2> DEFINE u == [task[i] EXCEPT !.pc = "done"]
  <2>1. u = [pc |-> "done", cred |-> task[i].cred, outer |-> task[i].outer, depth |-> task[i].depth,
             todo |-> task[i].todo, set |-> task[i].set, verdict |-> task[i].verdict]
    BY <1>2 DEF IsLocals
  <2>2. t = [u EXCEPT !.verdict = v]
    OBVIOUS
  <2> HIDE DEF t, u
  <2>3. t = [pc |-> "done", cred |-> task[i].cred, outer |-> task[i].outer, depth |-> task[i].depth,
             todo |-> task[i].todo, set |-> task[i].set, verdict |-> v]
    BY <2>1, <2>2
  <2> QED BY <2>3 DEF IsLocals
<1>4. TaskOK(i, t)
  BY <1>3 DEF TaskOK, Flaw
<1>5. task' = [task EXCEPT ![i] = t]
  BY <1>1, <1>2 DEF TasksOK, IsLocals
<1> QED BY <1>4, <1>5, Zenon DEF Landed

LEMMA Fails ==
  ASSUME TasksOK, NEW i \in Items, NEW s, NEW e, Fail(i, s, e), e # "ok", Flaw(i)
  PROVE  Landed(i)
<1>1. CASE s.outer = Nothing
  BY <1>1, Ends DEF Fail
<1>2. CASE s.outer # Nothing
  BY <1>2, Ends DEF Fail
<1> QED BY <1>1, <1>2

LEMMA Puts ==
  ASSUME NEW i, NEW t, Put(i, t), TaskOK(i, t)
  PROVE  Landed(i)
BY Zenon DEF Landed, Put

\* A verification that has proved its credential.
Proved(i, s) == IsLocals(s) /\ RoleOK(i, s) /\ DepthOK(s) /\ ProvedOK(s) /\ s.verdict = Nothing

LEMMA AcceptLands ==
  ASSUME WorldOK, TasksOK, NEW i \in Items, NEW s, Proved(i, s), W3cDone(s), IetfDone(s), Accept(i, s),
         s.outer = Nothing => Whole(args.batch[i])
  PROVE  Landed(i)
<1>0. RoleOK(i, s) /\ DepthOK(s) /\ ProvedOK(s)
  BY DEF Proved
<1>1. CASE s.outer = Nothing
  <2>1. Finish(i, "ok")
    BY <1>1 DEF Accept
  <2> QED BY <1>1, <2>1, Ends
<1>2. CASE s.outer # Nothing /\ ~ Cred(s).wraps
  <2>1. Finish(i, "schemaUnresolved")
    BY <1>2 DEF Accept
  <2>2. Flaw(i)
    BY <1>0, <1>2, RoleFine, Zenon DEF Flaw
  <2> QED BY <2>1, <2>2, Ends
<1>3. CASE s.outer # Nothing /\ Cred(s).wraps
  <2>1. Conform(i, Credentials[s.outer])
    BY <1>3 DEF Accept
  <2>2. s.outer = args.batch[i]
    BY <1>0, <1>3, RolesAre DEF InnerRole
  <2>3. CASE Credentials[s.outer].conforms
    <3>1. Finish(i, "ok")
      BY <2>1, <2>3 DEF Conform
    <3>2. Whole(args.batch[i])
      BY <1>0, <1>3, <2>2, <2>3, PassIsOver, Zenon
    <3> QED BY <3>1, <3>2, Ends
  <2>4. CASE ~ Credentials[s.outer].conforms
    <3>1. Finish(i, "schemaInvalid")
      BY <2>1, <2>4 DEF Conform
    <3>2. Flaw(i)
      BY <1>0, <1>3, <2>2, <2>4, RoleFine, Zenon DEF Flaw
    <3> QED BY <3>1, <3>2, Ends
  <2> QED BY <2>3, <2>4
<1> QED BY <1>1, <1>2, <1>3

----------------------------------------------------------------------------
(***************************************************************************)
(* From one stage to the next.                                             *)
(***************************************************************************)
LEMMA ToSchemaLands ==
  ASSUME WorldOK, TasksOK, NEW i \in Items, NEW s, Proved(i, s), W3cDone(s), IetfDone(s), ToSchema(i, s)
  PROVE  Landed(i)
<1>0. /\ IsLocals(s) /\ RoleOK(i, s) /\ DepthOK(s) /\ ProvedOK(s) /\ s.verdict = Nothing
      /\ FineNow(Credentials[args.batch[i]], Asked, args.given)
  BY PassIsOver DEF Proved
<1>1. s.outer = Nothing => s.cred = args.batch[i] /\ Policy(s) = Asked /\ Given(s) = args.given
  BY <1>0, RolesAre
<1>2. CASE Cred(s).schema = "none"
  <2>1. Accept(i, s)
    BY <1>2 DEF ToSchema
  <2>2. s.outer = Nothing => Whole(args.batch[i])
    BY <1>0, <1>1, <1>2 DEF Whole, Cred
  <2> QED BY <2>1, <2>2, AcceptLands
<1>3. CASE Cred(s).schema # "none" /\ "schema" \in Given(s)
  <2> DEFINE t == [s EXCEPT !.pc = "schema"]
  <2>1. Put(i, t)
    BY <1>3 DEF ToSchema
  <2>2. t = [pc |-> "schema", cred |-> s.cred, outer |-> s.outer, depth |-> s.depth,
             todo |-> s.todo, set |-> s.set, verdict |-> s.verdict]
    BY <1>0 DEF IsLocals
  <2> HIDE DEF t
  <2>3. /\ t.pc = "schema" /\ t.cred = s.cred /\ t.outer = s.outer /\ t.depth = s.depth
        /\ t.verdict = Nothing /\ IsLocals(t)
    BY <1>0, <2>2 DEF IsLocals
  <2>4. Cred(t) = Cred(s) /\ Policy(t) = Policy(s) /\ Given(t) = Given(s) /\ EnteredAt(t) = EnteredAt(s)
    BY <2>3 DEF Cred, Policy, Given, EnteredAt
  <2>5. RoleOK(i, t) /\ DepthOK(t) /\ ProvedOK(t) /\ W3cDone(t) /\ IetfDone(t)
    BY <1>0, <2>3, <2>4, Zenon DEF RoleOK, InnerRole, DepthOK, ProvedOK, W3cDone, IetfDone
  <2>6. TaskOK(i, t)
    BY <1>3, <2>3, <2>4, <2>5 DEF TaskOK, GoingOn
  <2> QED BY <2>1, <2>6, Puts
<1>4. CASE Cred(s).schema # "none" /\ "schema" \notin Given(s) /\ Policy(s).schema
  <2>1. Fail(i, s, "schemaUnavailable")
    BY <1>4 DEF ToSchema
  <2>2. s.outer = Nothing
    <3> SUFFICES ASSUME s.outer # Nothing PROVE FALSE
      OBVIOUS
    <3>1. Policy(s) = InnerPolicy(Asked)
      BY <1>0, RolesAre
    <3>2. Policy(s).schema = FALSE
      BY <3>1, InnerPolicyIs
    <3> QED BY <1>4, <3>2
  <2>3. Flaw(i)
    BY <1>1, <1>4, <2>2 DEF Flaw, Flawless, Whole, SchemaFine, Cred
  <2> QED BY <2>1, <2>3, Fails
<1>5. CASE Cred(s).schema # "none" /\ "schema" \notin Given(s) /\ ~ Policy(s).schema
  <2>1. Accept(i, s)
    BY <1>5 DEF ToSchema
  <2>2. s.outer = Nothing => Whole(args.batch[i])
    BY <1>0, <1>1, <1>5 DEF Whole, SchemaFine, Cred
  <2> QED BY <2>1, <2>2, AcceptLands
<1> QED BY <1>2, <1>3, <1>4, <1>5

LEMMA IndexIs ==
  ASSUME NEW v, NEW strings \in BOOLEAN
  PROVE  /\ StatusIndex(v, strings) # Refused
              <=> v.form \in (IF strings THEN {"int", "digits"} ELSE {"int"}) /\ v.n \in 0..(MaxBytes * 8 - 1)
         /\ StatusIndex(v, strings) # Refused => StatusIndex(v, strings) = v.n /\ v.n \in Nat
<1>1. MaxBytes \in Nat /\ Refused \notin Nat
  BY ListAssumption, RefusedAssumption
<1>2. v.n \in 0..(MaxBytes * 8 - 1) => v.n \in Nat /\ v.n # Refused
  BY <1>1
<1> QED BY <1>2 DEF StatusIndex, MaxStatusIndex

LEMMA IetfShapeIs ==
  ASSUME NEW raw
  PROVE  /\ IetfShape(raw) \in {"none", "odd", "malformed", "entries"}
         /\ IetfShape(raw) = "none" <=> raw = Nothing
         /\ raw # Nothing => (IetfShape(raw) = "odd" <=> raw.form # "ref")
         /\ raw # Nothing /\ raw.form = "ref" =>
              (IetfShape(raw) = "entries" <=> Points(raw.uri, raw.index, {"int"}))
<1>1. StatusIndex(raw.index, FALSE) # Refused
        <=> raw.index.form \in {"int"} /\ raw.index.n \in 0..(MaxBytes * 8 - 1)
  BY IndexIs
<1> QED BY <1>1 DEF IetfShape, Points

LEMMA GateIs ==
  ASSUME NEW shape \in {"none", "odd", "malformed", "entries"}, NEW given \in BOOLEAN, NEW p
  PROVE  /\ Gate(shape, given, p) \in {"statusMalformed", "check", "skip", "statusUnavailable"}
         /\ Gate(shape, given, p) = "check" <=> shape = "entries" /\ given
         /\ Gate(shape, given, p) = "skip"
              <=> shape = "none" \/ (shape # "malformed" /\ ~ (shape = "entries" /\ given) /\ ~ p.status)
BY DEF Gate

LEMMA ToIetfLands ==
  ASSUME WorldOK, TasksOK, NEW i \in Items, NEW s, Proved(i, s), W3cDone(s), ToIetf(i, s)
  PROVE  Landed(i)
<1>0. IsLocals(s) /\ RoleOK(i, s) /\ DepthOK(s) /\ ProvedOK(s) /\ s.verdict = Nothing
  BY DEF Proved
<1> DEFINE raw == Cred(s).ietf
           shape == IetfShape(raw)
           given == "ietf" \in Given(s)
           g == Gate(shape, given, Policy(s))
<1>1. /\ shape \in {"none", "odd", "malformed", "entries"}
      /\ shape = "none" <=> raw = Nothing
      /\ raw # Nothing => (shape = "odd" <=> raw.form # "ref")
      /\ raw # Nothing /\ raw.form = "ref" => (shape = "entries" <=> Points(raw.uri, raw.index, {"int"}))
  BY IetfShapeIs
<1>2. /\ g \in {"statusMalformed", "check", "skip", "statusUnavailable"}
      /\ g = "check" <=> shape = "entries" /\ given
      /\ g = "skip" <=> shape = "none" \/ (shape # "malformed" /\ ~ (shape = "entries" /\ given) /\ ~ Policy(s).status)
  <2>1. given \in BOOLEAN
    OBVIOUS
  <2> HIDE DEF shape, given
  <2> QED BY <1>1, <2>1, GateIs
<1>3. /\ g = "check" => Put(i, [s EXCEPT !.pc = "ietf"])
      /\ g = "skip" => ToSchema(i, s)
      /\ g \notin {"check", "skip"} => Fail(i, s, g)
  BY <1>2 DEF ToIetf
<1>4. IetfDone(s) <=> (raw # Nothing =>
                        /\ raw.form = "ref" => Points(raw.uri, raw.index, {"int"})
                        /\ IF raw.form # "ref" \/ ~ given THEN ~ Policy(s).status
                           ELSE Live(Cred(s), raw.uri, raw.index.n, Policy(s), {"revocation", "suspension"}, Standing))
  BY DEF IetfDone, IetfFine
<1> HIDE DEF g, shape
<1>5. CASE g = "check"
  <2> DEFINE t == [s EXCEPT !.pc = "ietf"]
  <2>1. Put(i, t)
    BY <1>3, <1>5
  <2>2. t = [pc |-> "ietf", cred |-> s.cred, outer |-> s.outer, depth |-> s.depth,
             todo |-> s.todo, set |-> s.set, verdict |-> s.verdict]
    BY <1>0 DEF IsLocals
  <2> HIDE DEF t
  <2>3. /\ t.pc = "ietf" /\ t.cred = s.cred /\ t.outer = s.outer /\ t.depth = s.depth
        /\ t.verdict = Nothing /\ IsLocals(t)
    BY <1>0, <2>2 DEF IsLocals
  <2>4. Cred(t) = Cred(s) /\ Policy(t) = Policy(s) /\ Given(t) = Given(s) /\ EnteredAt(t) = EnteredAt(s)
    BY <2>3 DEF Cred, Policy, Given, EnteredAt
  <2>5. RoleOK(i, t) /\ DepthOK(t) /\ ProvedOK(t) /\ W3cDone(t)
    BY <1>0, <2>3, <2>4, Zenon DEF RoleOK, InnerRole, DepthOK, ProvedOK, W3cDone
  <2>6. TaskOK(i, t)
    BY <1>2, <1>5, <2>3, <2>4, <2>5 DEF TaskOK, GoingOn, shape
  <2> QED BY <2>1, <2>6, Puts
<1>6. CASE g = "skip"
  <2>1. IetfDone(s)
    BY <1>1, <1>2, <1>4, <1>6, Zenon
  <2> QED BY <1>3, <1>6, <2>1, ToSchemaLands
<1>7. CASE g \notin {"check", "skip"}
  <2>1. ~ IetfDone(s)
    BY <1>1, <1>2, <1>4, <1>7
  <2>2. Flaw(i)
    <3> SUFFICES ASSUME Flawless(args.batch[i]) PROVE FALSE
      BY DEF Flaw
    <3>1. FineNow(Cred(s), Policy(s), Given(s))
      BY <1>0, RoleFine
    <3> QED BY <2>1, <3>1 DEF FineNow, Fine, StatusFine, IetfDone
  <2>3. g # "ok" /\ Fail(i, s, g)
    BY <1>2, <1>3, <1>7
  <2> QED BY <2>2, <2>3, Fails
<1> QED BY <1>5, <1>6, <1>7

LEMMA EntryIs ==
  ASSUME NEW e
  PROVE  FirstError(EntryChecks(e)) = "ok"
           <=> /\ e.form = "object" /\ e.type # "absent"
               /\ e.type = "list" => Points(e.url, e.index, {"int", "digits"})
<1> DEFINE row == EntryChecks(e)
<1>1. StatusIndex(e.index, TRUE) # Refused
        <=> e.index.form \in {"int", "digits"} /\ e.index.n \in 0..(MaxBytes * 8 - 1)
  BY IndexIs
<1>2. /\ DOMAIN row = 1..3
      /\ row[1].ok = (e.form = "object") /\ row[1].err = "member"
      /\ row[2].ok = (e.form = "object" => e.type # "absent") /\ row[2].err = "type"
      /\ row[3].ok = (e.form = "object" /\ e.type = "list" => e.url # Nothing /\ StatusIndex(e.index, TRUE) # Refused)
      /\ row[3].err = "pointer"
  <2>1. DOMAIN row = 1..3
    BY DEF EntryChecks
  <2>2. row[1].ok = (e.form = "object") /\ row[1].err = "member"
    BY DEF EntryChecks, Check
  <2>3. row[2].ok = (e.form = "object" => e.type # "absent") /\ row[2].err = "type"
    BY DEF EntryChecks, Check
  <2>4. row[3].ok = (e.form = "object" /\ e.type = "list" => e.url # Nothing /\ StatusIndex(e.index, TRUE) # Refused)
        /\ row[3].err = "pointer"
    BY DEF EntryChecks, Check
  <2> QED BY <2>1, <2>2, <2>3, <2>4
<1> HIDE DEF row
<1>3. \A k \in 1..3 : row[k].err # "ok"
  BY <1>2
<1>4. FirstError(row) = "ok" <=> row[1].ok /\ row[2].ok /\ row[3].ok
  <2>1. ASSUME FirstError(row) = "ok" PROVE row[1].ok /\ row[2].ok /\ row[3].ok
    <3>1. \A k \in 1..3 : row[k].ok
      BY <1>2, <1>3, <2>1, FirstErrorOK
    <3> QED BY <3>1
  <2>2. ASSUME row[1].ok, row[2].ok, row[3].ok PROVE FirstError(row) = "ok"
    <3>1. \A k \in 1..3 : row[k].ok
      <4>1. \A k \in 1..3 : k = 1 \/ k = 2 \/ k = 3
        OBVIOUS
      <4> QED BY <2>2, <4>1, Zenon
    <3> QED BY <1>2, <3>1, AllChecksOK
  <2> QED BY <2>1, <2>2
<1>5. e.url # Nothing /\ StatusIndex(e.index, TRUE) # Refused <=> Points(e.url, e.index, {"int", "digits"})
  BY <1>1, Zenon DEF Points
<1>6. FirstError(row) = "ok" <=> /\ e.form = "object"
                                 /\ e.form = "object" => e.type # "absent"
                                 /\ e.form = "object" /\ e.type = "list" => Points(e.url, e.index, {"int", "digits"})
  BY <1>2, <1>4, <1>5, Zenon
<1> QED BY <1>6, Zenon DEF row

LEMMA W3cShapeIs ==
  ASSUME NEW raw
  PROVE  /\ W3cShape(raw) \in {"none", "odd", "malformed", "entries"}
         /\ W3cShape(raw) = "none" <=> raw = <<>>
         /\ raw # <<>> =>
              (W3cShape(raw) # "malformed"
                 <=> /\ \A n \in DOMAIN raw : raw[n].form = "object" /\ raw[n].type # "absent"
                     /\ \A n \in ParseStatusEntries(raw) : Points(raw[n].url, raw[n].index, {"int", "digits"}))
         /\ raw # <<>> /\ W3cShape(raw) # "malformed" =>
              (W3cShape(raw) = "entries" <=> ParseStatusEntries(raw) # {})
<1>1. \A n \in DOMAIN raw : FirstError(EntryChecks(raw[n])) = "ok"
           <=> /\ raw[n].form = "object" /\ raw[n].type # "absent"
               /\ raw[n].type = "list" => Points(raw[n].url, raw[n].index, {"int", "digits"})
  BY EntryIs
<1> DEFINE bad == \E n \in DOMAIN raw : FirstError(EntryChecks(raw[n])) # "ok"
<1>2. ~ bad <=> /\ \A n \in DOMAIN raw : raw[n].form = "object" /\ raw[n].type # "absent"
                /\ \A n \in ParseStatusEntries(raw) : Points(raw[n].url, raw[n].index, {"int", "digits"})
  BY <1>1, Zenon DEF ParseStatusEntries
<1>3. ~ bad => ((\E n \in DOMAIN raw : raw[n].type = "list") <=> ParseStatusEntries(raw) # {})
  BY <1>2 DEF ParseStatusEntries
<1>4. /\ W3cShape(raw) = IF raw = <<>> THEN "none" ELSE IF bad THEN "malformed"
                         ELSE IF \E n \in DOMAIN raw : raw[n].type = "list" THEN "entries" ELSE "odd"
  BY DEF W3cShape
<1> HIDE DEF bad
<1>5. CASE raw = <<>>
  BY <1>4, <1>5
<1>6. CASE raw # <<>> /\ bad
  BY <1>2, <1>4, <1>6
<1>7. CASE raw # <<>> /\ ~ bad
  BY <1>2, <1>3, <1>4, <1>7
<1> QED BY <1>5, <1>6, <1>7

LEMMA W3cFineIs ==
  ASSUME NEW c, NEW p, NEW g, NEW m
  PROVE  W3cFine(c, p, g, m) <=>
           /\ \A n \in DOMAIN c.w3c : c.w3c[n].form = "object" /\ c.w3c[n].type # "absent"
           /\ \A n \in ParseStatusEntries(c.w3c) : Points(c.w3c[n].url, c.w3c[n].index, {"int", "digits"})
           /\ c.w3c # <<>> /\ (ParseStatusEntries(c.w3c) = {} \/ "w3c" \notin g) => ~ p.status
           /\ "w3c" \in g =>
                \A n \in ParseStatusEntries(c.w3c) :
                  /\ Purpose[c.w3c[n].url] = c.w3c[n].purpose
                  /\ Live(c, c.w3c[n].url, c.w3c[n].index.n, p, {c.w3c[n].purpose}, m)
BY Zenon DEF W3cFine, ParseStatusEntries

\* Where a pass fails for a reason that makes its credential less than fine.
LEMMA NotFine ==
  ASSUME WorldOK, NEW i, NEW s, RoleOK(i, s),
         i \notin faults /\ changes = {} => ~ FineNow(Cred(s), Policy(s), Given(s))
  PROVE  Flaw(i)
BY RoleFine DEF Flaw

LEMMA NotW3cFine ==
  ASSUME WorldOK, NEW i, NEW s, RoleOK(i, s), changes = {} => ~ W3cDone(s)
  PROVE  Flaw(i)
BY NotFine DEF FineNow, Fine, StatusFine, W3cDone

LEMMA NotIetfFine ==
  ASSUME WorldOK, NEW i, NEW s, RoleOK(i, s), changes = {} => ~ IetfDone(s)
  PROVE  Flaw(i)
BY NotFine DEF FineNow, Fine, StatusFine, IetfDone

LEMMA ToStatusLands ==
  ASSUME WorldOK, TasksOK, NEW i \in Items, NEW s, Proved(i, s), ToStatus(i, s),
         s.todo = ParseStatusEntries(Cred(s).w3c), s.set = {}
  PROVE  Landed(i)
<1>0. IsLocals(s) /\ RoleOK(i, s) /\ DepthOK(s) /\ ProvedOK(s) /\ s.verdict = Nothing
  BY DEF Proved
<1> DEFINE raw == Cred(s).w3c
           shape == W3cShape(raw)
           given == "w3c" \in Given(s)
           g == Gate(shape, given, Policy(s))
<1>1. /\ shape \in {"none", "odd", "malformed", "entries"}
      /\ shape = "none" <=> raw = <<>>
      /\ raw # <<>> =>
           (shape # "malformed"
              <=> /\ \A n \in DOMAIN raw : raw[n].form = "object" /\ raw[n].type # "absent"
                  /\ \A n \in ParseStatusEntries(raw) : Points(raw[n].url, raw[n].index, {"int", "digits"}))
      /\ raw # <<>> /\ shape # "malformed" => (shape = "entries" <=> ParseStatusEntries(raw) # {})
  BY W3cShapeIs
<1>2. /\ g \in {"statusMalformed", "check", "skip", "statusUnavailable"}
      /\ g = "check" <=> shape = "entries" /\ given
      /\ g = "skip" <=> shape = "none" \/ (shape # "malformed" /\ ~ (shape = "entries" /\ given) /\ ~ Policy(s).status)
  <2>1. given \in BOOLEAN
    OBVIOUS
  <2> HIDE DEF shape, given
  <2> QED BY <1>1, <2>1, GateIs
<1>3. /\ g = "check" => Put(i, [s EXCEPT !.pc = "w3c"])
      /\ g = "skip" => ToIetf(i, s)
      /\ g \notin {"check", "skip"} => Fail(i, s, g)
  BY <1>2 DEF ToStatus
<1>4. W3cDone(s) <=>
        /\ \A n \in DOMAIN raw : raw[n].form = "object" /\ raw[n].type # "absent"
        /\ \A n \in ParseStatusEntries(raw) : Points(raw[n].url, raw[n].index, {"int", "digits"})
        /\ raw # <<>> /\ (ParseStatusEntries(raw) = {} \/ ~ given) => ~ Policy(s).status
        /\ given =>
             \A n \in ParseStatusEntries(raw) :
               /\ Purpose[raw[n].url] = raw[n].purpose
               /\ Live(Cred(s), raw[n].url, raw[n].index.n, Policy(s), {raw[n].purpose}, Standing)
  BY W3cFineIs, Zenon DEF W3cDone
<1> HIDE DEF g, shape
<1>5. CASE g = "check"
  <2> DEFINE t == [s EXCEPT !.pc = "w3c"]
  <2>1. Put(i, t)
    BY <1>3, <1>5
  <2>2. t = [pc |-> "w3c", cred |-> s.cred, outer |-> s.outer, depth |-> s.depth,
             todo |-> s.todo, set |-> s.set, verdict |-> s.verdict]
    BY <1>0 DEF IsLocals
  <2> HIDE DEF t
  <2>3. /\ t.pc = "w3c" /\ t.cred = s.cred /\ t.outer = s.outer /\ t.depth = s.depth
        /\ t.todo = s.todo /\ t.set = {} /\ t.verdict = Nothing /\ IsLocals(t)
    BY <1>0, <2>2 DEF IsLocals
  <2>4. Cred(t) = Cred(s) /\ Policy(t) = Policy(s) /\ Given(t) = Given(s) /\ EnteredAt(t) = EnteredAt(s)
    BY <2>3 DEF Cred, Policy, Given, EnteredAt
  <2>5. RoleOK(i, t) /\ DepthOK(t) /\ ProvedOK(t)
    BY <1>0, <2>3, <2>4, Zenon DEF RoleOK, InnerRole, DepthOK, ProvedOK
  <2>6. shape = "entries" /\ given /\ ParseStatusEntries(raw) # {}
    BY <1>1, <1>2, <1>5
  <2>7. W3cOK(t)
    BY <2>3, <2>4, <2>6 DEF W3cOK, shape
  <2>8. TaskOK(i, t)
    BY <2>3, <2>5, <2>7 DEF TaskOK, GoingOn
  <2> QED BY <2>1, <2>8, Puts
<1>6. CASE g = "skip"
  <2>1. CASE raw = <<>>
    <3>1. DOMAIN raw = {} /\ ParseStatusEntries(raw) = {}
      BY <2>1 DEF ParseStatusEntries
    <3>2. W3cDone(s)
      BY <1>4, <2>1, <3>1
    <3> QED BY <1>3, <1>6, <3>2, ToIetfLands
  <2>2. CASE raw # <<>>
    <3>1. shape # "malformed" /\ ~ (shape = "entries" /\ given) /\ ~ Policy(s).status
      BY <1>1, <1>2, <1>6, <2>2
    <3>2. given => ParseStatusEntries(raw) = {}
      BY <1>1, <2>2, <3>1
    <3>3. W3cDone(s)
      BY <1>1, <1>4, <2>2, <3>1, <3>2
    <3> QED BY <1>3, <1>6, <3>3, ToIetfLands
  <2> QED BY <2>1, <2>2
<1>7. CASE g \notin {"check", "skip"}
  <2>1. raw # <<>> /\ (shape = "malformed" \/ (~ (shape = "entries" /\ given) /\ Policy(s).status))
    BY <1>1, <1>2, <1>7
  <2>2. ~ W3cDone(s)
    BY <1>1, <1>4, <2>1
  <2>3. Flaw(i)
    BY <1>0, <2>2, NotW3cFine
  <2>4. g # "ok" /\ Fail(i, s, g)
    BY <1>2, <1>3, <1>7
  <2> QED BY <2>3, <2>4, Fails
<1> QED BY <1>5, <1>6, <1>7

----------------------------------------------------------------------------
(***************************************************************************)
(* The proof.                                                              *)
(***************************************************************************)
LEMMA ProofHoldsLands ==
  ASSUME WorldOK, TasksOK, NEW i \in Items, NEW s, IsLocals(s), GoingOn(i, s), s.pc = "key",
         NEW key, ProofHolds(i, s, key),
         key = Cred(s).key /\ SignedByIssuer(Cred(s)) => SignedFor(Cred(s), Given(s), SinceTheCall),
         changes = {} /\ SignedFor(Cred(s), Given(s), SinceTheCall)
           => key = Cred(s).key /\ SignedByIssuer(Cred(s))
  PROVE  Landed(i)
<1> DEFINE c == Cred(s)
           p == Policy(s)
           row == ProofChecks(s, key)
           e == FirstError(row)
<1>0. /\ RoleOK(i, s) /\ DepthOK(s) /\ s.verdict = Nothing
      /\ s.todo = ParseStatusEntries(c.w3c) /\ s.set = {}
  BY DEF GoingOn
<1>1. /\ DOMAIN row = 1..4
      /\ row[1].ok = (key = c.key) /\ row[1].err = "proof"
      /\ row[2].ok = (c.expired => ~ p.notExpired) /\ row[2].err = "expired"
      /\ row[3].ok = SignedByIssuer(c) /\ row[3].err = "binding"
      /\ row[4].ok = TypesOK(c, p) /\ row[4].err = "types"
  <2>1. DOMAIN row = 1..4
    BY DEF ProofChecks
  <2>2. row[1].ok = (key = c.key) /\ row[1].err = "proof"
    BY DEF ProofChecks, Check
  <2>3. row[2].ok = (c.expired => ~ p.notExpired) /\ row[2].err = "expired"
    BY DEF ProofChecks, Check
  <2>4. row[3].ok = SignedByIssuer(c) /\ row[3].err = "binding"
    BY DEF ProofChecks, Check
  <2>5. row[4].ok = TypesOK(c, p) /\ row[4].err = "types"
    BY DEF ProofChecks, Check
  <2> QED BY <2>1, <2>2, <2>3, <2>4, <2>5
<1> HIDE DEF row, c, p
<1>2. \A k \in 1..4 : row[k].err # "ok"
  BY <1>1
<1>3. CASE e = "ok"
  <2>1. \A k \in 1..4 : row[k].ok
    BY <1>1, <1>2, <1>3, FirstErrorOK
  <2>2. row[1].ok /\ row[2].ok /\ row[3].ok /\ row[4].ok
    BY <2>1
  <2>3. key = c.key /\ (c.expired => ~ p.notExpired) /\ SignedByIssuer(c) /\ TypesOK(c, p)
    BY <1>1, <2>2, Zenon
  <2>4. ProvedOK(s)
    BY <2>3, Zenon DEF ProvedOK, TypesOK, c, p
  <2>5. ToStatus(i, s)
    BY <1>3 DEF ProofHolds, row
  <2>6. Proved(i, s)
    BY <1>0, <2>4 DEF Proved
  <2> QED BY <1>0, <2>5, <2>6, ToStatusLands DEF c
<1>4. CASE e # "ok"
  <2>1. Fail(i, s, e)
    BY <1>4 DEF ProofHolds, row
  <2>2. ASSUME changes = {}, FineNow(c, p, Given(s)) PROVE FALSE
    <3>1. SignedFor(c, Given(s), SinceTheCall) /\ (p.notExpired => ~ c.expired) /\ (p.typed => c.typed)
      BY <2>2 DEF FineNow, Fine
    <3>2. key = c.key /\ SignedByIssuer(c)
      BY <2>2, <3>1 DEF c
    <3>3. row[1].ok /\ row[2].ok /\ row[3].ok /\ row[4].ok
      BY <1>1, <3>1, <3>2, Zenon DEF TypesOK
    <3>4. \A k \in 1..4 : k = 1 \/ k = 2 \/ k = 3 \/ k = 4
      OBVIOUS
    <3>5. \A k \in 1..4 : row[k].ok
      BY <3>3, <3>4, Zenon
    <3> QED BY <1>1, <1>4, <3>5, AllChecksOK
  <2>3. Flaw(i)
    BY <1>0, <2>2, NotFine DEF c, p
  <2> QED BY <1>4, <2>1, <2>3, Fails
<1> QED BY <1>3, <1>4

LEMMA AtIs ==
  ASSUME TasksOK, NEW i, NEW pc, pc # "done", At(i, pc)
  PROVE  /\ i \in Items /\ IsLocals(task[i]) /\ GoingOn(i, task[i]) /\ task[i].pc = pc
         /\ RoleOK(i, task[i]) /\ returned # "uncalled"
BY DEF At, TasksOK, TaskOK, GoingOn, Turn

LEMMA CredIs ==
  ASSUME NEW i, NEW s, RoleOK(i, s)
  PROVE  LET c == Cred(s)
         IN  /\ c.iss \in Issuers /\ c.signer \in Issuers /\ c.layers \in Nat
             /\ DOMAIN c.w3c \subseteq Nat
             /\ \A k \in ParseStatusEntries(c.w3c) : c.w3c[k].url \in Lists \cup {Nothing}
             /\ c.ietf # Nothing /\ c.ietf.form = "ref" => c.ietf.uri \in Tokens \cup {Nothing}
             /\ c.schema \in {"none", "odd"} \cup DOMAIN Schemas
BY CredentialAssumption DEF RoleOK, Cred

\* The four ways a proof is checked without a failing call.
LEMMA ChainLands ==
  ASSUME WorldOK, TasksOK, NEW i, At(i, "key"), ByChain(task[i]),
         IF Cred(task[i]).x5c = "good" THEN ProofHolds(i, task[i], Cred(task[i]).key) ELSE Fail(i, task[i], "key")
  PROVE  Landed(i)
<1> DEFINE s == task[i]
           c == Cred(s)
<1>0. /\ i \in Items /\ IsLocals(s) /\ GoingOn(i, s) /\ s.pc = "key" /\ RoleOK(i, s)
  BY AtIs
<1>1. c.format = "jose" /\ c.x5c # "none" /\ "anchors" \in Given(s)
  BY DEF ByChain
<1>2. SignedFor(c, Given(s), SinceTheCall) <=> c.x5c = "good"
  BY <1>1 DEF SignedFor
<1>3. CASE c.x5c = "good"
  <2>1. SignedByIssuer(c)
    BY <1>1 DEF SignedByIssuer
  <2> QED BY <1>0, <1>2, <1>3, <2>1, ProofHoldsLands
<1>4. CASE c.x5c # "good"
  <2>1. Flaw(i)
    BY <1>0, <1>2, <1>4, NotFine DEF FineNow, Fine
  <2> QED BY <1>0, <1>4, <2>1, Fails
<1> QED BY <1>3, <1>4

LEMMA NoMetadataLands ==
  ASSUME WorldOK, TasksOK, NEW i, At(i, "key"), ~ ByChain(task[i]), ByMetadata(Cred(task[i])),
         "https" \notin Given(task[i]), Fail(i, task[i], "key")
  PROVE  Landed(i)
<1>1. i \in Items /\ RoleOK(i, task[i])
  BY AtIs
<1>2. ~ SignedFor(Cred(task[i]), Given(task[i]), SinceTheCall)
  BY DEF SignedFor, ByChain, ByMetadata
<1>3. Flaw(i)
  BY <1>1, <1>2, NotFine DEF FineNow, Fine
<1> QED BY <1>1, <1>3, Fails

LEMMA KeyLands ==
  ASSUME WorldOK, BytesOK, CacheOK, TasksOK, NEW i, At(i, "key"), ~ ByChain(task[i]),
         ByMetadata(Cred(task[i])) => "https" \in Given(task[i]),
         NEW kind, kind = IF ByMetadata(Cred(task[i])) THEN "metadata" ELSE "did",
         NEW name, name = IF Cred(task[i]).format = "di" THEN Cred(task[i]).signer ELSE Cred(task[i]).iss,
         ProofHolds(i, task[i], Answer(kind, name))
  PROVE  Landed(i) /\ <<kind, name>> \in Callables
<1> DEFINE s == task[i]
           c == Cred(s)
           key == Answer(kind, name)
<1>0. /\ i \in Items /\ IsLocals(s) /\ GoingOn(i, s) /\ s.pc = "key" /\ RoleOK(i, s) /\ returned # "uncalled"
  BY AtIs
<1>1. c.iss \in Issuers /\ c.signer \in Issuers
  BY <1>0, CredIs
<1>2. kind \in {"did", "metadata"} /\ name \in Issuers /\ <<kind, name>> \in Callables
  BY <1>1 DEF Callables
<1>3. AnswerOK(kind, name, key)
  BY <1>0, <1>2, AnswerIsOK
<1>4. key \in 1..keys[name] /\ (changes = {} => key = keys[name])
  BY <1>2, <1>3 DEF AnswerOK, Origin
<1>5. SignedFor(c, Given(s), SinceTheCall) <=> SignedByIssuer(c) /\ c.key \in 1..keys[c.iss]
  BY <1>1 DEF SignedFor, SignedByIssuer, ByChain, ByMetadata, SinceTheCall
<1>6. SignedByIssuer(c) => name = c.iss
  BY DEF SignedByIssuer
<1>7. key = c.key /\ SignedByIssuer(c) => SignedFor(c, Given(s), SinceTheCall)
  BY <1>4, <1>5, <1>6
<1>8. ASSUME changes = {}, SignedFor(c, Given(s), SinceTheCall) PROVE key = c.key /\ SignedByIssuer(c)
  <2>1. keys[c.iss] = 1 /\ name = c.iss /\ c.key \in 1..keys[c.iss]
    BY <1>1, <1>5, <1>6, <1>8 DEF WorldOK
  <2> QED BY <1>4, <1>5, <1>8, <2>1
<1> QED BY <1>0, <1>2, <1>7, <1>8, ProofHoldsLands

----------------------------------------------------------------------------
(***************************************************************************)
(* What a verifier reads in a list it accepts.                             *)
(***************************************************************************)
LEMMA ReadIsNumber ==
  ASSUME NEW l \in AllLists, NEW b \in ByteLists(l), NEW n \in Nat, n < Room(l)
  PROVE  ReadAt(l, b, n) \in Nat
<1> DEFINE byte == b[n \div PerByte(l) + 1]
           k == Place(l, n)
           wd == Width(l)
<1>1. ReadAt(l, b, n) = Field(byte, k * wd, wd)
  BY ReadAtIs
<1>2. wd \in {1, 2, 4, 8} /\ k \in 0..(8 \div wd - 1) /\ byte \in 0..255
  BY ListShape, Places, Located DEF ByteLists
<1> HIDE DEF byte, k, wd
<1>3. PICK x \in Fields(wd) : byte = Byte(x, wd)
  BY <1>2, ByteOfFields
<1>4. Field(byte, k * wd, wd) = x[k]
  BY <1>2, <1>3, FieldsOfByte
<1>5. x[k] \in 0..(2^wd - 1)
  BY <1>2, <1>3, Zenon DEF Fields
<1>6. x[k] \in Nat
  <2>1. CASE wd = 1
    BY <1>5, <2>1, Powers
  <2>2. CASE wd = 2
    BY <1>5, <2>2, Powers
  <2>3. CASE wd = 4
    BY <1>5, <2>3, Powers
  <2>4. CASE wd = 8
    BY <1>5, <2>4, Powers
  <2> QED BY <1>2, <2>1, <2>2, <2>3, <2>4
<1> QED BY <1>1, <1>4, <1>6

\* What the list says of a status is what its issuer means, if nothing has
\* changed; what has stood since before the call is told in any case.
LEMMA TellsWhatStands ==
  ASSUME WorldOK, BytesOK, returned # "uncalled", NEW l \in AllLists, NEW b \in ByteLists(l), Told(l, b),
         changes = {} => b = bytes[l], NEW n \in Nat, n < Room(l)
  PROVE  /\ \A q : q # "valid" /\ Marked(Standing, l, n, q) => ReadAt(l, b, n) = Value(l, q)
         /\ changes = {} /\ ReadAt(l, b, n) # 0 =>
              \E q \in Marks(l) \ {"valid"} : Marked(Standing, l, n, q) /\ ReadAt(l, b, n) = Value(l, q)
<1>1. ASSUME NEW q, q # "valid", Marked(Standing, l, n, q) PROVE ReadAt(l, b, n) = Value(l, q)
  <2>1. PICK c \in DOMAIN Slot : Slot[c] = n /\ Standing[l][c] = q
    BY <1>1 DEF Marked
  <2> QED BY <1>1, <2>1 DEF Told
<1>2. ASSUME changes = {}, ReadAt(l, b, n) # 0
      PROVE  \E q \in Marks(l) \ {"valid"} : Marked(Standing, l, n, q) /\ ReadAt(l, b, n) = Value(l, q)
  <2>1. Room(l) \in Nat /\ n \in 0..(Room(l) - 1)
    BY ListShape
  <2>2. Meant(marks, l, n, ReadAt(l, b, n))
    BY <1>2, <2>1 DEF BytesOK
  <2>3. PICK c \in DOMAIN Slot : Slot[c] = n /\ ReadAt(l, b, n) = Value(l, marks[l][c])
    BY <1>2, <2>2 DEF Meant
  <2>4. marks[l][c] \in Marks(l) /\ marks[l][c] = Standing[l][c]
    BY <1>2, CalmStanding DEF WorldOK
  <2>5. marks[l][c] # "valid"
    BY <1>2, <2>3 DEF Value
  <2>6. Marked(Standing, l, n, marks[l][c])
    BY <2>3, <2>4, Zenon DEF Marked
  <2> QED BY <2>3, <2>4, <2>5, <2>6
<1> QED BY <1>1, <1>2

LEMMA ListRead ==
  ASSUME WorldOK, BytesOK, returned # "uncalled", NEW e, e.url \in Lists,
         Points(e.url, e.index, {"int", "digits"}), NEW list, AnswerOK("w3c", e.url, list), list # Refused
  PROVE  LET bit == ReadStatusBit(list, e)
             n == e.index.n
         IN  /\ Authentic(e.url) /\ list.issuer = Publisher[e.url]
             /\ bit # Refused <=> Purpose[e.url] = e.purpose /\ n < Room(e.url)
             /\ bit # Refused /\ Marked(Standing, e.url, n, e.purpose) => bit = 1
             /\ changes = {} /\ bit = 1 => Marked(Standing, e.url, n, e.purpose)
<1> DEFINE l == e.url
           n == e.index.n
           bit == ReadStatusBit(list, e)
<1>0. l \in Lists /\ l \in AllLists
  BY DEF AllLists
<1>1. Authentic(l) /\ \E b \in ByteLists(l) : list = ListCredential(l, b) /\ Told(l, b)
  BY DEF AnswerOK, ListOK
<1>2. PICK b \in ByteLists(l) : list = ListCredential(l, b) /\ Told(l, b)
  BY <1>1
<1>3. StatusIndex(e.index, TRUE) = n /\ n \in Nat
  BY IndexIs DEF Points
<1> HIDE DEF l, n
<1>4. /\ list.issuer = Publisher[l] /\ list.purpose = Purpose[l] /\ list.list.stream = "gzip"
      /\ list.list.bytes = b
  BY <1>2 DEF ListCredential
<1>5. b \in Seq(0..255) /\ Len(b) <= MaxBytes /\ b # Refused
  BY <1>0, ByteListLen, ListShape, RefusedAssumption
<1>6. Decode("gzip", list.list) = b
  BY <1>4, <1>5 DEF Decode
<1>7. bit = IF Purpose[l] \notin {Nothing, e.purpose} THEN Refused ELSE ReadAt(l, b, n)
  BY <1>0, <1>3, <1>4, <1>5, <1>6 DEF ReadStatusBit, ReadAt
<1>8. Purpose[l] # Nothing /\ Purpose[l] # "valid"
  BY <1>0, ListAssumption
<1> HIDE DEF bit
<1>9. ~ (n < Room(l)) => ReadAt(l, b, n) = Refused
  BY <1>0, <1>3, ReadAtIs
<1>10. n < Room(l) => ReadAt(l, b, n) # Refused
  BY <1>0, <1>3, ReadIsNumber, RefusedAssumption
<1>11. bit # Refused <=> Purpose[l] = e.purpose /\ n < Room(l)
  BY <1>7, <1>8, <1>9, <1>10
<1>12. changes = {} => b = bytes[l]
  <2> SUFFICES ASSUME changes = {} PROVE b = bytes[l]
    OBVIOUS
  <2>1. list = ResolveList(Served(l), Publisher[l])
    BY DEF AnswerOK, Origin, l
  <2>2. list = ListCredential(l, bytes[l])
    BY <1>0, <1>1, <2>1, ListServed DEF l
  <2> QED BY <1>4, <2>2 DEF ListCredential
<1>13. ASSUME bit # Refused
       PROVE  /\ Marked(Standing, l, n, e.purpose) => bit = 1
              /\ changes = {} /\ bit = 1 => Marked(Standing, l, n, e.purpose)
  <2>1. Purpose[l] = e.purpose /\ n < Room(l) /\ bit = ReadAt(l, b, n)
    BY <1>7, <1>11, <1>13
  <2>2. /\ \A q : q # "valid" /\ Marked(Standing, l, n, q) => bit = Value(l, q)
        /\ changes = {} /\ bit # 0 =>
             \E q \in Marks(l) \ {"valid"} : Marked(Standing, l, n, q) /\ bit = Value(l, q)
    BY <1>0, <1>2, <1>3, <1>12, <2>1, TellsWhatStands
  <2>3. Value(l, e.purpose) = 1
    BY <1>0, <1>8, <2>1 DEF Value, StatusInvalid
  <2>4. \A q \in Marks(l) \ {"valid"} : q = e.purpose
    BY <1>0, <2>1 DEF Marks
  <2>5. e.purpose # "valid"
    BY <1>8, <2>1
  <2> QED BY <2>2, <2>3, <2>4, <2>5
<1>14. bit = 1 => bit # Refused
  BY RefusedAssumption
<1> QED BY <1>1, <1>4, <1>11, <1>13, <1>14 DEF l, n, bit

LEMMA TokenRead ==
  ASSUME WorldOK, BytesOK, returned # "uncalled", NEW ref, ref.uri \in Tokens,
         Points(ref.uri, ref.index, {"int"}), NEW token, AnswerOK("ietf", ref.uri, token), token # Refused
  PROVE  LET status == TokenStatus(token, ref)
             n == ref.index.n
         IN  /\ Authentic(ref.uri) /\ token.issuer = Publisher[ref.uri]
             /\ status # Refused <=> n < Room(ref.uri)
             /\ \A q \in {"revocation", "suspension"} :
                  /\ status # Refused /\ Marked(Standing, ref.uri, n, q) => q \in Meaning(status)
                  /\ status # Refused /\ changes = {} /\ q \in Meaning(status) => Marked(Standing, ref.uri, n, q)
<1> DEFINE l == ref.uri
           n == ref.index.n
           status == TokenStatus(token, ref)
<1>0. l \in Tokens /\ l \in AllLists /\ l \notin Lists
  BY BatchAssumption DEF AllLists
<1>1. Authentic(l) /\ \E b \in ByteLists(l) : token = ListToken(l, b) /\ Told(l, b)
  BY DEF AnswerOK, TokenOK
<1>2. PICK b \in ByteLists(l) : token = ListToken(l, b) /\ Told(l, b)
  BY <1>1
<1>3. StatusIndex(ref.index, FALSE) = n /\ n \in Nat
  BY IndexIs DEF Points
<1> HIDE DEF l, n
<1>4. /\ token.issuer = Publisher[l] /\ token.bits = TokenBits /\ token.list.stream = "zlib"
      /\ token.list.bytes = b
  BY <1>2 DEF ListToken
<1>5. b \in Seq(0..255) /\ Len(b) <= MaxBytes /\ b # Refused
  BY <1>0, ByteListLen, ListShape, RefusedAssumption
<1>6. Decode("zlib", token.list) = b
  BY <1>4, <1>5 DEF Decode
<1>7. status = ReadAt(l, b, n)
  BY <1>0, <1>3, <1>4, <1>5, <1>6 DEF TokenStatus, ReadAt
<1> HIDE DEF status
<1>9. ~ (n < Room(l)) => ReadAt(l, b, n) = Refused
  BY <1>0, <1>3, ReadAtIs
<1>10. n < Room(l) => ReadAt(l, b, n) # Refused
  BY <1>0, <1>3, ReadIsNumber, RefusedAssumption
<1>11. status # Refused <=> n < Room(l)
  BY <1>7, <1>9, <1>10
<1>12. changes = {} => b = bytes[l]
  <2> SUFFICES ASSUME changes = {} PROVE b = bytes[l]
    OBVIOUS
  <2>1. token = ResolveToken(Served(l), Publisher[l], l)
    BY DEF AnswerOK, Origin, l
  <2>2. token = ListToken(l, bytes[l])
    BY <1>0, <1>1, <2>1, TokenServed DEF l
  <2> QED BY <1>4, <2>2 DEF ListToken
<1>13. ASSUME status # Refused, NEW q \in {"revocation", "suspension"}
       PROVE  /\ Marked(Standing, l, n, q) => q \in Meaning(status)
              /\ changes = {} /\ q \in Meaning(status) => Marked(Standing, l, n, q)
  <2>1. n < Room(l) /\ status = ReadAt(l, b, n)
    BY <1>7, <1>11, <1>13
  <2>2. /\ \A r : r # "valid" /\ Marked(Standing, l, n, r) => status = Value(l, r)
        /\ changes = {} /\ status # 0 =>
             \E r \in Marks(l) \ {"valid"} : Marked(Standing, l, n, r) /\ status = Value(l, r)
    BY <1>0, <1>2, <1>3, <1>12, <2>1, TellsWhatStands
  <2>3. Value(l, "revocation") = 1 /\ Value(l, "suspension") = 2
    BY <1>0 DEF Value, StatusInvalid, StatusSuspended
  <2>4. \A r \in Marks(l) \ {"valid"} : r \in {"revocation", "suspension"}
    BY <1>0 DEF Marks
  <2>5. /\ status = 1 => Meaning(status) = {"revocation"}
        /\ status = 2 => Meaning(status) = {"suspension"}
        /\ status \notin {1, 2} => Meaning(status) = {}
    BY DEF Meaning, StatusInvalid, StatusSuspended
  <2>6. Marked(Standing, l, n, q) => q \in Meaning(status)
    BY <1>13, <2>2, <2>3, <2>5
  <2>7. ASSUME changes = {}, q \in Meaning(status) PROVE Marked(Standing, l, n, q)
    <3>1. (status = 1 /\ q = "revocation") \/ (status = 2 /\ q = "suspension")
      BY <2>5, <2>7
    <3>2. PICK r \in Marks(l) \ {"valid"} : Marked(Standing, l, n, r) /\ status = Value(l, r)
      BY <2>2, <2>7, <3>1
    <3> QED BY <2>3, <2>4, <3>1, <3>2
  <2> QED BY <2>6, <2>7
<1> QED BY <1>1, <1>4, <1>11, <1>13 DEF l, n, status

----------------------------------------------------------------------------
(***************************************************************************)
(* The statuses.                                                           *)
(***************************************************************************)
LEMMA DispositionIs ==
  ASSUME NEW set, NEW p
  PROVE  Disposition(set, p) = "ok" <=> ("revocation" \in set => ~ p.notRevoked) /\ "suspension" \notin set
<1> DEFINE row == << Check("revocation" \in set => ~ p.notRevoked, "revoked"),
                     Check("suspension" \notin set,                "suspended") >>
<1>1. DOMAIN row = 1..2
  OBVIOUS
<1>2. row[1].ok = ("revocation" \in set => ~ p.notRevoked) /\ row[1].err = "revoked"
  BY DEF Check
<1>3. row[2].ok = ("suspension" \notin set) /\ row[2].err = "suspended"
  BY DEF Check
<1>4. Disposition(set, p) = FirstError(row)
  BY DEF Disposition
<1> HIDE DEF row
<1>5. \A k \in 1..2 : row[k].err # "ok"
  BY <1>2, <1>3
<1>6. ASSUME FirstError(row) = "ok" PROVE row[1].ok /\ row[2].ok
  <2>1. \A k \in 1..2 : row[k].ok
    BY <1>1, <1>5, <1>6, FirstErrorOK
  <2> QED BY <2>1
<1>7. ASSUME row[1].ok, row[2].ok PROVE FirstError(row) = "ok"
  <2>1. \A k \in 1..2 : k = 1 \/ k = 2
    OBVIOUS
  <2>2. \A k \in 1..2 : row[k].ok
    BY <1>7, <2>1, Zenon
  <2> QED BY <1>1, <2>2, AllChecksOK
<1> QED BY <1>2, <1>3, <1>4, <1>6, <1>7, Zenon

LEMMA SamePass ==
  ASSUME NEW i, NEW s, NEW t, Proved(i, s), IsLocals(t), t.cred = s.cred, t.outer = s.outer,
         t.depth = s.depth, t.verdict = s.verdict
  PROVE  /\ Proved(i, t) /\ Cred(t) = Cred(s) /\ Policy(t) = Policy(s) /\ Given(t) = Given(s)
         /\ W3cDone(t) <=> W3cDone(s)
<1>1. Cred(t) = Cred(s) /\ Policy(t) = Policy(s) /\ Given(t) = Given(s) /\ EnteredAt(t) = EnteredAt(s)
  BY DEF Cred, Policy, Given, EnteredAt
<1>2. RoleOK(i, t) /\ DepthOK(t) /\ ProvedOK(t)
  BY <1>1, Zenon DEF Proved, RoleOK, InnerRole, DepthOK, ProvedOK
<1> QED BY <1>1, <1>2 DEF Proved, W3cDone

\* The pass s, further on.
OnFrom(i, s, t, todo, set) ==
  /\ Proved(i, t) /\ Cred(t) = Cred(s) /\ Policy(t) = Policy(s) /\ Given(t) = Given(s)
  /\ W3cDone(t) <=> W3cDone(s)
  /\ t.pc = s.pc /\ t.todo = todo /\ t.set = set

LEMMA Moved ==
  ASSUME NEW i, NEW s, NEW todo, NEW set, Proved(i, s)
  PROVE  OnFrom(i, s, [s EXCEPT !.todo = todo, !.set = set], todo, set)
<1> DEFINE u == [s EXCEPT !.todo = todo]
           t == [s EXCEPT !.todo = todo, !.set = set]
<1>1. u = [pc |-> s.pc, cred |-> s.cred, outer |-> s.outer, depth |-> s.depth,
           todo |-> todo, set |-> s.set, verdict |-> s.verdict]
  BY DEF IsLocals, Proved
<1>2. t = [u EXCEPT !.set = set]
  OBVIOUS
<1> HIDE DEF t, u
<1>3. t = [pc |-> s.pc, cred |-> s.cred, outer |-> s.outer, depth |-> s.depth,
           todo |-> todo, set |-> set, verdict |-> s.verdict]
  BY <1>1, <1>2
<1>4. /\ IsLocals(t) /\ t.cred = s.cred /\ t.outer = s.outer /\ t.depth = s.depth /\ t.verdict = s.verdict
      /\ t.pc = s.pc /\ t.todo = todo /\ t.set = set
  BY <1>3 DEF IsLocals
<1>5. /\ Proved(i, t) /\ Cred(t) = Cred(s) /\ Policy(t) = Policy(s) /\ Given(t) = Given(s)
      /\ W3cDone(t) <=> W3cDone(s)
  BY <1>4, SamePass
<1>6. OnFrom(i, s, t, todo, set)
  BY <1>4, <1>5 DEF OnFrom
<1> QED BY <1>6, Zenon DEF t

\* What is known where an entry is looked up.
LEMMA W3cAt ==
  ASSUME WorldOK, BytesOK, CacheOK, TasksOK, NEW i, At(i, "w3c"), NEW n, n = Min(task[i].todo)
  PROVE  LET s == task[i]
             named == ParseStatusEntries(Cred(s).w3c)
             e == Cred(s).w3c[n]
         IN  /\ i \in Items /\ Proved(i, s) /\ W3cOK(s) /\ returned # "uncalled" /\ s.pc = "w3c"
             /\ n \in s.todo /\ n \in named /\ e.url \in Lists /\ <<"w3c", e.url>> \in Callables
             /\ Points(e.url, e.index, {"int", "digits"})
             /\ AnswerOK("w3c", e.url, Answer("w3c", e.url))
             /\ W3cDone(s) <=>
                  \A k \in named :
                    /\ Purpose[Cred(s).w3c[k].url] = Cred(s).w3c[k].purpose
                    /\ Live(Cred(s), Cred(s).w3c[k].url, Cred(s).w3c[k].index.n, Policy(s),
                            {Cred(s).w3c[k].purpose}, Standing)
<1> DEFINE s == task[i]
           raw == Cred(s).w3c
           named == ParseStatusEntries(raw)
           e == raw[n]
<1>0. /\ i \in Items /\ IsLocals(s) /\ GoingOn(i, s) /\ s.pc = "w3c" /\ RoleOK(i, s) /\ returned # "uncalled"
  BY AtIs
<1>1. Proved(i, s) /\ W3cOK(s)
  BY <1>0 DEF GoingOn, Proved
<1>2. "w3c" \in Given(s) /\ W3cShape(raw) = "entries" /\ s.todo # {} /\ s.todo \subseteq named
  BY <1>1 DEF W3cOK
<1>3. /\ DOMAIN raw \subseteq Nat
      /\ \A k \in named : raw[k].url \in Lists \cup {Nothing}
  BY <1>0, CredIs
<1>4. named \subseteq DOMAIN raw
  BY DEF ParseStatusEntries
<1>5. s.todo \subseteq Nat
  BY <1>2, <1>3, <1>4
<1>6. n \in s.todo /\ n \in named
  BY <1>2, <1>5, MinOfNats
<1>7. /\ raw # <<>> /\ W3cShape(raw) # "malformed"
      /\ \A k \in DOMAIN raw : raw[k].form = "object" /\ raw[k].type # "absent"
      /\ \A k \in named : Points(raw[k].url, raw[k].index, {"int", "digits"})
  <2>1. raw # <<>>
    BY <1>2, W3cShapeIs
  <2> QED BY <1>2, <2>1, W3cShapeIs
<1>8. Points(e.url, e.index, {"int", "digits"}) /\ e.url \in Lists /\ <<"w3c", e.url>> \in Callables
  BY <1>3, <1>6, <1>7 DEF Points, Callables
<1>9. AnswerOK("w3c", e.url, Answer("w3c", e.url))
  BY <1>0, <1>8, AnswerIsOK
<1>10. W3cDone(s) <=>
         /\ \A k \in DOMAIN raw : raw[k].form = "object" /\ raw[k].type # "absent"
         /\ \A k \in named : Points(raw[k].url, raw[k].index, {"int", "digits"})
         /\ raw # <<>> /\ (named = {} \/ "w3c" \notin Given(s)) => ~ Policy(s).status
         /\ "w3c" \in Given(s) =>
              \A k \in named :
                /\ Purpose[raw[k].url] = raw[k].purpose
                /\ Live(Cred(s), raw[k].url, raw[k].index.n, Policy(s), {raw[k].purpose}, Standing)
  BY W3cFineIs, Zenon DEF W3cDone
<1>11. W3cDone(s) <=>
         \A k \in named :
           /\ Purpose[raw[k].url] = raw[k].purpose
           /\ Live(Cred(s), raw[k].url, raw[k].index.n, Policy(s), {raw[k].purpose}, Standing)
  <2>1. named # {}
    BY <1>6
  <2> QED BY <1>2, <1>7, <1>10, <2>1, Zenon
<1> QED BY <1>0, <1>1, <1>6, <1>8, <1>9, <1>11

LEMMA EntryLands ==
  ASSUME WorldOK, BytesOK, CacheOK, TasksOK, NEW i, At(i, "w3c"), NEW n, n = Min(task[i].todo),
         NEW e, e = Cred(task[i]).w3c[n], NEW list, list = Answer("w3c", e.url), list # Refused,
         ReadEntry(i, task[i], n, list, ReadStatusBit(list, e))
  PROVE  Landed(i)
<1> DEFINE s == task[i]
           raw == Cred(s).w3c
           named == ParseStatusEntries(raw)
           bit == ReadStatusBit(list, e)
           set == IF bit = 1 THEN s.set \cup {e.purpose} ELSE s.set
           d == Disposition(set, Policy(s))
           Fits(k) == /\ Purpose[raw[k].url] = raw[k].purpose
                      /\ Live(Cred(s), raw[k].url, raw[k].index.n, Policy(s), {raw[k].purpose}, Standing)
<1>1. /\ i \in Items /\ Proved(i, s) /\ W3cOK(s) /\ returned # "uncalled" /\ s.pc = "w3c"
      /\ n \in s.todo /\ n \in named /\ e.url \in Lists
      /\ Points(e.url, e.index, {"int", "digits"}) /\ AnswerOK("w3c", e.url, list)
      /\ W3cDone(s) <=> \A k \in named : Fits(k)
  BY W3cAt
<1>2. RoleOK(i, s)
  BY <1>1 DEF Proved
<1>3. /\ Authentic(e.url) /\ list.issuer = Publisher[e.url]
      /\ bit # Refused <=> Purpose[e.url] = e.purpose /\ e.index.n < Room(e.url)
      /\ bit # Refused /\ Marked(Standing, e.url, e.index.n, e.purpose) => bit = 1
      /\ changes = {} /\ bit = 1 => Marked(Standing, e.url, e.index.n, e.purpose)
  BY <1>1, ListRead
<1>4. ReadEntry(i, s, n, list, bit)
  OBVIOUS
<1>5. /\ \A k \in named \ s.todo : EntryRead(s, k)
      /\ s.todo \subseteq named /\ "w3c" \in Given(s) /\ W3cShape(raw) = "entries"
      /\ changes = {} => \A q \in s.set : \E k \in named : raw[k].purpose = q /\ Marked(Standing, raw[k].url, raw[k].index.n, q)
  BY <1>1 DEF W3cOK
<1>6. Fits(n) => /\ Purpose[e.url] = e.purpose /\ e.index.n < Room(e.url)
                 /\ Policy(s).bind => Publisher[e.url] \in {Cred(s).iss} \cup Policy(s).allowlist
  BY DEF Live
<1> HIDE DEF bit
<1>7. CASE ~ Bound(s, list)
  <2>1. Fail(i, s, "statusIssuer")
    BY <1>4, <1>7 DEF ReadEntry
  <2>2. ~ Fits(n)
    BY <1>3, <1>6, <1>7 DEF Bound
  <2>3. Flaw(i)
    BY <1>1, <1>2, <2>2, NotW3cFine
  <2> QED BY <1>1, <2>1, <2>3, Fails
<1>8. CASE Bound(s, list) /\ bit = Refused
  <2>1. Fail(i, s, "statusMalformed")
    BY <1>4, <1>8 DEF ReadEntry
  <2>2. ~ Fits(n)
    BY <1>3, <1>6, <1>8
  <2>3. Flaw(i)
    BY <1>1, <1>2, <2>2, NotW3cFine
  <2> QED BY <1>1, <2>1, <2>3, Fails
<1>9. CASE Bound(s, list) /\ bit # Refused
  <2>1. /\ s.todo # {n} => Put(i, [s EXCEPT !.todo = s.todo \ {n}, !.set = set])
        /\ s.todo = {n} /\ d # "ok" => Fail(i, s, d)
        /\ s.todo = {n} /\ d = "ok" => ToIetf(i, [s EXCEPT !.todo = {}, !.set = {}])
    BY <1>4, <1>9 DEF ReadEntry
  <2>2. /\ Purpose[e.url] = e.purpose /\ e.index.n < Room(e.url)
        /\ Policy(s).bind => Publisher[e.url] \in {Cred(s).iss} \cup Policy(s).allowlist
    BY <1>3, <1>9 DEF Bound
  <2>3. s.set \subseteq set /\ (Marked(Standing, e.url, e.index.n, e.purpose) => e.purpose \in set)
    BY <1>3, <1>9
  <2>4. ASSUME changes = {}, NEW q \in set
        PROVE  \E k \in named : raw[k].purpose = q /\ Marked(Standing, raw[k].url, raw[k].index.n, q)
    <3>1. CASE q \in s.set
      BY <1>5, <2>4, <3>1
    <3>2. CASE q \notin s.set
      <4>1. bit = 1 /\ q = e.purpose
        BY <2>4, <3>2
      <4>2. Marked(Standing, e.url, e.index.n, e.purpose)
        BY <1>3, <2>4, <4>1
      <4> QED BY <1>1, <4>1, <4>2
    <3> QED BY <3>1, <3>2
  <2> HIDE DEF set
  <2>5. \A k \in named \ (s.todo \ {n}) :
          /\ Purpose[raw[k].url] = raw[k].purpose
          /\ Authentic(raw[k].url) /\ raw[k].index.n < Room(raw[k].url)
          /\ Policy(s).bind => Publisher[raw[k].url] \in {Cred(s).iss} \cup Policy(s).allowlist
          /\ \A q \in {"revocation", "suspension"} :
               raw[k].purpose = q /\ Marked(Standing, raw[k].url, raw[k].index.n, q) => q \in set
    <3> SUFFICES ASSUME NEW k \in named \ (s.todo \ {n})
                 PROVE  /\ Purpose[raw[k].url] = raw[k].purpose
                        /\ Authentic(raw[k].url) /\ raw[k].index.n < Room(raw[k].url)
                        /\ Policy(s).bind => Publisher[raw[k].url] \in {Cred(s).iss} \cup Policy(s).allowlist
                        /\ \A q \in {"revocation", "suspension"} :
                             raw[k].purpose = q /\ Marked(Standing, raw[k].url, raw[k].index.n, q) => q \in set
      OBVIOUS
    <3>1. CASE k = n
      BY <1>3, <2>2, <2>3, <3>1
    <3>2. CASE k # n
      <4>1. EntryRead(s, k)
        BY <1>5, <3>2
      <4> QED BY <2>3, <4>1 DEF EntryRead
    <3> QED BY <3>1, <3>2
  <2>6. CASE s.todo # {n}
    <3> DEFINE left == s.todo \ {n}
               t == [s EXCEPT !.todo = left, !.set = set]
    <3> HIDE DEF left
    <3>1. /\ Proved(i, t) /\ Cred(t) = Cred(s) /\ Policy(t) = Policy(s) /\ Given(t) = Given(s)
          /\ t.pc = "w3c" /\ t.todo = left /\ t.set = set
      <4>1. OnFrom(i, s, t, left, set)
        BY <1>1, Moved, Zenon
      <4> HIDE DEF t
      <4> QED BY <1>1, <4>1 DEF OnFrom
    <3>2. Put(i, t)
      BY <2>1, <2>6 DEF left
    <3> HIDE DEF t
    <3>3. t.todo # {} /\ t.todo \subseteq named
      BY <1>1, <1>5, <2>6, <3>1 DEF left
    <3>4. \A k \in named \ t.todo : EntryRead(t, k)
      BY <2>5, <3>1, Zenon DEF EntryRead, left
    <3>5. W3cOK(t)
      BY <1>5, <2>4, <3>1, <3>3, <3>4, Zenon DEF W3cOK
    <3>6. TaskOK(i, t)
      BY <3>1, <3>5 DEF TaskOK, GoingOn, Proved
    <3> QED BY <3>2, <3>6, Puts
  <2>7. CASE s.todo = {n} /\ d # "ok"
    <3>1. ("revocation" \in set /\ Policy(s).notRevoked) \/ "suspension" \in set
      BY <2>7, DispositionIs
    <3>2. ASSUME changes = {}, W3cDone(s) PROVE FALSE
      <4>1. \A k \in named : Fits(k)
        BY <1>1, <3>2
      <4>2. PICK q \in {"revocation", "suspension"} : q \in set /\ (q = "revocation" => Policy(s).notRevoked)
        BY <3>1
      <4>3. PICK k \in named : raw[k].purpose = q /\ Marked(Standing, raw[k].url, raw[k].index.n, q)
        BY <2>4, <3>2, <4>2
      <4>4. Live(Cred(s), raw[k].url, raw[k].index.n, Policy(s), {q}, Standing)
        BY <4>1, <4>3
      <4> QED BY <4>2, <4>3, <4>4 DEF Live
    <3>3. Flaw(i)
      BY <1>2, <3>2, NotW3cFine
    <3> QED BY <1>1, <2>1, <2>7, <3>3, Fails
  <2>8. CASE s.todo = {n} /\ d = "ok"
    <3> DEFINE t == [s EXCEPT !.todo = {}, !.set = {}]
    <3>1. ("revocation" \in set => ~ Policy(s).notRevoked) /\ "suspension" \notin set
      BY <2>8, DispositionIs
    <3>2. ASSUME NEW k \in named PROVE Fits(k)
      <4>1. k \in named \ (s.todo \ {n})
        BY <2>8
      <4>2. /\ Purpose[raw[k].url] = raw[k].purpose
            /\ Authentic(raw[k].url) /\ raw[k].index.n < Room(raw[k].url)
            /\ Policy(s).bind => Publisher[raw[k].url] \in {Cred(s).iss} \cup Policy(s).allowlist
            /\ \A q \in {"revocation", "suspension"} :
                 raw[k].purpose = q /\ Marked(Standing, raw[k].url, raw[k].index.n, q) => q \in set
        BY <2>5, <4>1
      <4>3. "suspension" \in {raw[k].purpose} => ~ Marked(Standing, raw[k].url, raw[k].index.n, "suspension")
        BY <3>1, <4>2
      <4>4. Policy(s).notRevoked /\ "revocation" \in {raw[k].purpose}
              => ~ Marked(Standing, raw[k].url, raw[k].index.n, "revocation")
        BY <3>1, <4>2
      <4> QED BY <4>2, <4>3, <4>4, Zenon DEF Live
    <3>3. W3cDone(s)
      BY <1>1, <3>2
    <3>4. Proved(i, t) /\ W3cDone(t)
      <4>1. OnFrom(i, s, t, {}, {})
        BY <1>1, Moved, Zenon
      <4> HIDE DEF t
      <4> QED BY <3>3, <4>1 DEF OnFrom
    <3> QED BY <1>1, <2>1, <2>8, <3>4, ToIetfLands
  <2> QED BY <2>6, <2>7, <2>8
<1> QED BY <1>7, <1>8, <1>9

\* An authentic list is not refused.
LEMMA RefusedList ==
  ASSUME WorldOK, BytesOK, changes = {}, NEW l \in Lists, AnswerOK("w3c", l, Refused)
  PROVE  ~ Authentic(l)
<1> SUFFICES ASSUME Authentic(l) PROVE FALSE
  OBVIOUS
<1>1. Refused = ResolveList(Served(l), Publisher[l])
  BY DEF AnswerOK, Origin
<1>2. Refused = ListCredential(l, bytes[l])
  BY <1>1, ListServed
<1>3. bytes[l] \in Seq(0..255) /\ Publisher[l] \in Issuers
  BY ByteListLen, PublisherIs DEF BytesOK, AllLists
<1>4. ListCredential(l, bytes[l])
        \in [typ : {"vc"}, issuer : Issuers, purpose : {Purpose[k] : k \in Lists}, bits : {1},
             list : [stream : {"gzip"}, bytes : Seq(0..255)], fresh : {TRUE}]
  BY <1>3 DEF ListCredential
<1> QED BY <1>2, <1>4, RefusedAssumption

LEMMA RefusedToken ==
  ASSUME WorldOK, BytesOK, changes = {}, NEW l \in Tokens, AnswerOK("ietf", l, Refused)
  PROVE  ~ Authentic(l)
<1> SUFFICES ASSUME Authentic(l) PROVE FALSE
  OBVIOUS
<1>1. Refused = ResolveToken(Served(l), Publisher[l], l)
  BY DEF AnswerOK, Origin
<1>2. Refused = ListToken(l, bytes[l])
  BY <1>1, TokenServed
<1>3. bytes[l] \in Seq(0..255) /\ Publisher[l] \in Issuers
  BY ByteListLen, PublisherIs DEF BytesOK, AllLists
<1>4. ListToken(l, bytes[l])
        \in [typ : {"statuslist+jwt"}, issuer : Issuers, sub : Tokens, bits : {TokenBits},
             list : [stream : {"zlib"}, bytes : Seq(0..255)], fresh : {TRUE}]
  BY <1>3 DEF ListToken
<1> QED BY <1>2, <1>4, RefusedAssumption

LEMMA RejectedListLands ==
  ASSUME WorldOK, BytesOK, CacheOK, TasksOK, NEW i, At(i, "w3c"), NEW n, n = Min(task[i].todo),
         Rejects(i, "w3c", Cred(task[i]).w3c[n].url)
  PROVE  Landed(i)
<1> DEFINE s == task[i]
           e == Cred(s).w3c[n]
           named == ParseStatusEntries(Cred(s).w3c)
<1>1. /\ i \in Items /\ Proved(i, s) /\ n \in named /\ e.url \in Lists
      /\ AnswerOK("w3c", e.url, Answer("w3c", e.url))
      /\ W3cDone(s) => \A k \in named : Live(Cred(s), Cred(s).w3c[k].url, Cred(s).w3c[k].index.n, Policy(s),
                                             {Cred(s).w3c[k].purpose}, Standing)
  BY W3cAt
<1>2. Answer("w3c", e.url) = Refused /\ Fail(i, s, "statusFetch")
  BY DEF Rejects
<1>3. changes = {} => ~ W3cDone(s)
  <2> SUFFICES ASSUME changes = {}, W3cDone(s) PROVE FALSE
    OBVIOUS
  <2>1. ~ Authentic(e.url)
    BY <1>1, <1>2, RefusedList
  <2> QED BY <1>1, <2>1 DEF Live
<1>4. Flaw(i)
  BY <1>1, <1>3, NotW3cFine DEF Proved
<1> QED BY <1>1, <1>2, <1>4, Fails

\* What is known where a token is looked up.
LEMMA IetfAt ==
  ASSUME WorldOK, BytesOK, CacheOK, TasksOK, NEW i, At(i, "ietf")
  PROVE  LET s == task[i]
             ref == Cred(s).ietf
         IN  /\ i \in Items /\ Proved(i, s) /\ W3cDone(s) /\ returned # "uncalled"
             /\ ref.uri \in Tokens /\ <<"ietf", ref.uri>> \in Callables
             /\ Points(ref.uri, ref.index, {"int"})
             /\ AnswerOK("ietf", ref.uri, Answer("ietf", ref.uri))
             /\ IetfDone(s) <=> Live(Cred(s), ref.uri, ref.index.n, Policy(s), {"revocation", "suspension"}, Standing)
<1> DEFINE s == task[i]
           ref == Cred(s).ietf
<1>0. /\ i \in Items /\ IsLocals(s) /\ GoingOn(i, s) /\ s.pc = "ietf" /\ RoleOK(i, s) /\ returned # "uncalled"
  BY AtIs
<1>1. Proved(i, s) /\ W3cDone(s) /\ "ietf" \in Given(s) /\ IetfShape(ref) = "entries"
  BY <1>0 DEF GoingOn, Proved
<1>2. ref # Nothing /\ ref.form = "ref"
  BY <1>1, IetfShapeIs
<1>3. Points(ref.uri, ref.index, {"int"})
  BY <1>1, <1>2, IetfShapeIs
<1>4. ref.uri \in Tokens /\ <<"ietf", ref.uri>> \in Callables
  BY <1>0, <1>2, <1>3, CredIs DEF Points, Callables
<1>5. AnswerOK("ietf", ref.uri, Answer("ietf", ref.uri))
  BY <1>0, <1>4, AnswerIsOK
<1>6. IetfDone(s) <=> Live(Cred(s), ref.uri, ref.index.n, Policy(s), {"revocation", "suspension"}, Standing)
  BY <1>1, <1>2, <1>3, Zenon DEF IetfDone, IetfFine
<1> QED BY <1>0, <1>1, <1>3, <1>4, <1>5, <1>6

LEMMA TokenLands ==
  ASSUME WorldOK, BytesOK, CacheOK, TasksOK, NEW i, At(i, "ietf"), NEW ref, ref = Cred(task[i]).ietf,
         NEW token, token = Answer("ietf", ref.uri), token # Refused,
         ReadToken(i, task[i], token, TokenStatus(token, ref))
  PROVE  Landed(i)
<1> DEFINE s == task[i]
           status == TokenStatus(token, ref)
           d == Disposition(Meaning(status), Policy(s))
           n == ref.index.n
<1>1. /\ i \in Items /\ Proved(i, s) /\ W3cDone(s) /\ returned # "uncalled" /\ ref.uri \in Tokens
      /\ Points(ref.uri, ref.index, {"int"}) /\ AnswerOK("ietf", ref.uri, token)
      /\ IetfDone(s) <=> Live(Cred(s), ref.uri, n, Policy(s), {"revocation", "suspension"}, Standing)
  BY IetfAt
<1>2. RoleOK(i, s)
  BY <1>1 DEF Proved
<1>3. /\ Authentic(ref.uri) /\ token.issuer = Publisher[ref.uri]
      /\ status # Refused <=> n < Room(ref.uri)
      /\ \A q \in {"revocation", "suspension"} :
           /\ status # Refused /\ Marked(Standing, ref.uri, n, q) => q \in Meaning(status)
           /\ status # Refused /\ changes = {} /\ q \in Meaning(status) => Marked(Standing, ref.uri, n, q)
  BY <1>1, TokenRead
<1>4. ReadToken(i, s, token, status)
  OBVIOUS
<1> HIDE DEF status
<1>5. CASE ~ Bound(s, token)
  <2>1. Fail(i, s, "statusIssuer")
    BY <1>4, <1>5 DEF ReadToken
  <2>2. ~ IetfDone(s)
    BY <1>1, <1>3, <1>5 DEF Bound, Live
  <2>3. Flaw(i)
    BY <1>2, <2>2, NotIetfFine
  <2> QED BY <1>1, <2>1, <2>3, Fails
<1>6. CASE Bound(s, token) /\ status = Refused
  <2>1. Fail(i, s, "statusMalformed")
    BY <1>4, <1>6 DEF ReadToken
  <2>2. ~ IetfDone(s)
    BY <1>1, <1>3, <1>6 DEF Live
  <2>3. Flaw(i)
    BY <1>2, <2>2, NotIetfFine
  <2> QED BY <1>1, <2>1, <2>3, Fails
<1>7. CASE Bound(s, token) /\ status # Refused
  <2>1. IF d # "ok" THEN Fail(i, s, d) ELSE ToSchema(i, s)
    BY <1>4, <1>7 DEF ReadToken
  <2>2. d = "ok" <=> ("revocation" \in Meaning(status) => ~ Policy(s).notRevoked) /\ "suspension" \notin Meaning(status)
    BY DispositionIs
  <2>3. CASE d # "ok"
    <3>1. changes = {} => ~ IetfDone(s)
      BY <1>1, <1>3, <1>7, <2>2, <2>3 DEF Live
    <3>2. Flaw(i)
      BY <1>2, <3>1, NotIetfFine
    <3> QED BY <1>1, <2>1, <2>3, <3>2, Fails
  <2>4. CASE d = "ok"
    <3>1. IetfDone(s)
      BY <1>1, <1>3, <1>7, <2>2, <2>4 DEF Bound, Live
    <3> QED BY <1>1, <2>1, <2>4, <3>1, ToSchemaLands
  <2> QED BY <2>3, <2>4
<1> QED BY <1>5, <1>6, <1>7

LEMMA RejectedTokenLands ==
  ASSUME WorldOK, BytesOK, CacheOK, TasksOK, NEW i, At(i, "ietf"), Rejects(i, "ietf", Cred(task[i]).ietf.uri)
  PROVE  Landed(i)
<1> DEFINE s == task[i]
           ref == Cred(s).ietf
<1>1. /\ i \in Items /\ Proved(i, s) /\ ref.uri \in Tokens
      /\ AnswerOK("ietf", ref.uri, Answer("ietf", ref.uri))
      /\ IetfDone(s) <=> Live(Cred(s), ref.uri, ref.index.n, Policy(s), {"revocation", "suspension"}, Standing)
  BY IetfAt
<1>2. Answer("ietf", ref.uri) = Refused /\ Fail(i, s, "statusFetch")
  BY DEF Rejects
<1>3. changes = {} => ~ IetfDone(s)
  <2> SUFFICES ASSUME changes = {}, IetfDone(s) PROVE FALSE
    OBVIOUS
  <2>1. ~ Authentic(ref.uri)
    BY <1>1, <1>2, RefusedToken
  <2> QED BY <1>1, <2>1 DEF Live
<1>4. Flaw(i)
  BY <1>1, <1>3, NotIetfFine DEF Proved
<1> QED BY <1>1, <1>2, <1>4, Fails

----------------------------------------------------------------------------
(***************************************************************************)
(* The schema, and a credential that cannot be read.                       *)
(***************************************************************************)
LEMMA SmallerOf ==
  ASSUME NEW a \in Nat, NEW b \in Nat
  PROVE  Min({a, b}) = IF a <= b THEN a ELSE b
<1>1. {a, b} \subseteq Nat /\ {a, b} # {}
  OBVIOUS
<1>2. Min({a, b}) \in {a, b} /\ \A n \in {a, b} : Min({a, b}) <= n
  BY <1>1, MinOfNats
<1> HIDE DEF Min
<1> QED BY <1>2

\* A pass that is entered is as it should be.
LEMMA EnteredIs ==
  ASSUME NEW i, NEW n, NEW depth \in Nat, NEW outer, NEW t, t = Entered(n, depth, outer),
         n \in DOMAIN Credentials, RoleOK(i, t), EnteredAt(t) = depth
  PROVE  TaskOK(i, t)
<1>1. t = [pc |-> IF Readable(Credentials[n], depth) THEN "key" ELSE "odd", cred |-> n, outer |-> outer,
           depth |-> Min({depth + Credentials[n].layers, MaxDepth + 1}),
           todo |-> ParseStatusEntries(Credentials[n].w3c), set |-> {}, verdict |-> Nothing]
  BY DEF Entered
<1>2. /\ t.pc = IF Readable(Credentials[n], depth) THEN "key" ELSE "odd"
      /\ t.cred = n /\ t.outer = outer /\ t.depth = Min({depth + Credentials[n].layers, MaxDepth + 1})
      /\ t.todo = ParseStatusEntries(Credentials[n].w3c) /\ t.set = {} /\ t.verdict = Nothing
      /\ IsLocals(t)
  BY <1>1 DEF IsLocals
<1>3. Cred(t) = Credentials[n]
  BY <1>2 DEF Cred
<1>4. Credentials[n].layers \in Nat /\ MaxDepth \in Nat
  BY CredentialAssumption, BatchAssumption
<1>5. Readable(Cred(t), EnteredAt(t)) /\ t.outer = Nothing => t.depth = Cred(t).layers
  <2> SUFFICES ASSUME Readable(Cred(t), EnteredAt(t)), t.outer = Nothing PROVE t.depth = Cred(t).layers
    OBVIOUS
  <2>1. EnteredAt(t) = 0 /\ depth = 0
    BY DEF EnteredAt
  <2>2. Credentials[n].layers <= MaxDepth
    BY <1>3, <1>4, <2>1 DEF Readable
  <2> QED BY <1>2, <1>3, <1>4, <2>1, <2>2, SmallerOf
<1>6. GoingOn(i, t)
  BY <1>2, <1>3, <1>5 DEF GoingOn, DepthOK
<1> QED BY <1>2, <1>6 DEF TaskOK

LEMMA UnreadableLands ==
  ASSUME WorldOK, TasksOK, NEW i, At(i, "odd"), Fail(i, task[i], "format")
  PROVE  Landed(i)
<1>1. /\ i \in Items /\ GoingOn(i, task[i]) /\ task[i].pc = "odd" /\ RoleOK(i, task[i])
  BY AtIs
<1>2. ~ Readable(Cred(task[i]), EnteredAt(task[i]))
  BY <1>1 DEF GoingOn
<1>3. Flaw(i)
  BY <1>1, <1>2, RoleFine DEF Flaw
<1> QED BY <1>1, <1>3, Fails

\* What is known where a schema is looked up: it is the outer pass.
LEMMA SchemaAt ==
  ASSUME WorldOK, BytesOK, CacheOK, TasksOK, NEW i, At(i, "schema")
  PROVE  LET s == task[i]
             url == Cred(s).schema
         IN  /\ i \in Items /\ Proved(i, s) /\ s.outer = Nothing /\ s.cred = args.batch[i]
             /\ s.depth = Cred(s).layers /\ s.cred \in DOMAIN Credentials
             /\ FineNow(Cred(s), Asked, args.given) /\ "schema" \in args.given
             /\ url # "none" /\ url \in {"odd"} \cup DOMAIN Schemas
             /\ url # "odd" => <<"schema", url>> \in Callables /\ Answer("schema", url) = Schemas[url]
<1> DEFINE s == task[i]
           url == Cred(s).schema
<1>0. /\ i \in Items /\ IsLocals(s) /\ GoingOn(i, s) /\ s.pc = "schema" /\ RoleOK(i, s) /\ returned # "uncalled"
  BY AtIs
<1>1. Proved(i, s) /\ W3cDone(s) /\ IetfDone(s) /\ url # "none" /\ "schema" \in Given(s)
  BY <1>0 DEF GoingOn, Proved
<1>2. s.outer = Nothing
  BY <1>0, <1>1, RolesAre DEF InnerGiven
<1>3. /\ s.cred = args.batch[i] /\ s.cred \in DOMAIN Credentials /\ Given(s) = args.given /\ s.depth = Cred(s).layers
  BY <1>0, <1>1, <1>2, RolesAre DEF Proved, DepthOK
<1>4. FineNow(Cred(s), Asked, args.given)
  BY <1>0, <1>1, <1>2, <1>3, PassIsOver DEF Proved, Cred
<1>5. url \in {"odd"} \cup DOMAIN Schemas
  BY <1>0, <1>1, CredIs
<1>6. ASSUME url # "odd" PROVE <<"schema", url>> \in Callables /\ Answer("schema", url) = Schemas[url]
  <2>1. <<"schema", url>> \in Callables
    BY <1>5, <1>6 DEF Callables
  <2>2. AnswerOK("schema", url, Answer("schema", url))
    BY <1>0, <2>1, AnswerIsOK
  <2> QED BY <2>1, <2>2 DEF AnswerOK
<1> QED BY <1>0, <1>1, <1>2, <1>3, <1>4, <1>5, <1>6

LEMMA OddSchemaLands ==
  ASSUME WorldOK, BytesOK, CacheOK, TasksOK, NEW i, At(i, "schema"), Cred(task[i]).schema = "odd",
         Fail(i, task[i], "schemaUnresolved")
  PROVE  Landed(i)
<1>1. /\ i \in Items /\ task[i].cred = args.batch[i] /\ "schema" \in args.given
  BY SchemaAt
<1>2. Flaw(i)
  BY <1>1 DEF Flaw, Flawless, Whole, SchemaFine, Cred
<1> QED BY <1>1, <1>2, Fails

LEMMA SchemaLands ==
  ASSUME WorldOK, BytesOK, CacheOK, TasksOK, NEW i, At(i, "schema"), NEW url, url = Cred(task[i]).schema,
         url # "odd",
         IF ~ PinHolds(Cred(task[i])) THEN Fail(i, task[i], "schemaUnresolved")
         ELSE IF Answer("schema", url) = Nothing THEN Conform(i, Cred(task[i]))
         ELSE Put(i, Entered(Answer("schema", url), task[i].depth + 1, task[i].cred))
  PROVE  Landed(i)
<1> DEFINE s == task[i]
           c == Cred(s)
<1>1. /\ i \in Items /\ Proved(i, s) /\ s.outer = Nothing /\ s.cred = args.batch[i]
      /\ s.depth = c.layers /\ s.cred \in DOMAIN Credentials
      /\ FineNow(c, Asked, args.given) /\ "schema" \in args.given
      /\ url # "none" /\ url \in DOMAIN Schemas /\ Answer("schema", url) = Schemas[url]
  BY SchemaAt
<1>2. c = Credentials[args.batch[i]]
  BY <1>1 DEF Cred
<1>5. CASE ~ PinHolds(c)
  <2>1. Flaw(i)
    BY <1>1, <1>2, <1>5 DEF Flaw, Flawless, Whole, SchemaFine, PinHolds
  <2> QED BY <1>1, <1>5, <2>1, Fails
<1>3. CASE PinHolds(c) /\ Schemas[url] = Nothing
  <2>1. Conform(i, c)
    BY <1>1, <1>3
  <2>2. CASE c.conforms
    <3>1. Finish(i, "ok")
      BY <2>1, <2>2 DEF Conform
    <3>2. SchemaFine(c, Asked, args.given, SinceTheCall, Standing)
      BY <1>1, <1>3, <2>2 DEF SchemaFine, PinHolds
    <3>3. Whole(args.batch[i])
      BY <1>1, <1>2, <3>2 DEF Whole
    <3> QED BY <1>1, <3>1, <3>3, Ends
  <2>3. CASE ~ c.conforms
    <3>1. Finish(i, "schemaInvalid")
      BY <2>1, <2>3 DEF Conform
    <3>2. Flaw(i)
      BY <1>1, <1>2, <2>3 DEF Flaw, Flawless, Whole, SchemaFine
    <3> QED BY <1>1, <3>1, <3>2, Ends
  <2> QED BY <2>2, <2>3
<1>4. CASE PinHolds(c) /\ Schemas[url] # Nothing
  <2> DEFINE n == Schemas[url]
             t == Entered(n, s.depth + 1, s.cred)
  <2>1. Put(i, t)
    BY <1>1, <1>4
  <2>2. n \in DOMAIN Credentials
    BY <1>1, <1>4, CredentialAssumption
  <2>3. t.cred = n /\ t.outer = s.cred
    BY DEF Entered
  <2>4. s.cred # Nothing /\ c.layers \in Nat
    BY <1>1, BatchAssumption, CredentialAssumption DEF Cred
  <2>5. EnteredAt(t) = s.depth + 1 /\ s.depth + 1 \in Nat
    BY <1>1, <2>3, <2>4 DEF EnteredAt, Cred
  <2> HIDE DEF t
  <2>6. InnerRole(i, t)
    BY <1>1, <1>2, <1>4, <2>2, <2>3 DEF InnerRole
  <2>7. RoleOK(i, t)
    BY <2>2, <2>3, <2>6 DEF RoleOK
  <2>8. TaskOK(i, t)
    BY <2>2, <2>5, <2>7, EnteredIs DEF t
  <2> QED BY <2>1, <2>8, Puts
<1> QED BY <1>3, <1>4, <1>5

----------------------------------------------------------------------------
(***************************************************************************)
(* What others do leaves a verification as it is.                          *)
(***************************************************************************)
LEMMA FineStays ==
  ASSUME args' = args, SinceTheCall' = SinceTheCall, Standing' = Standing
  PROVE  /\ Asked' = Asked
         /\ \A c, p, g : W3cFine(c, p, g, Standing)' <=> W3cFine(c, p, g, Standing)
         /\ \A c, p, g : IetfFine(c, p, g, Standing)' <=> IetfFine(c, p, g, Standing)
         /\ \A c, p, g : FineNow(c, p, g)' <=> FineNow(c, p, g)
         /\ \A n : Whole(n)' <=> Whole(n)
<1>1. Asked' = Asked
  BY DEF Asked
<1>2. \A l : Authentic(l)' <=> Authentic(l)
  BY DEF Authentic, Hosted
<1>3. \A c, p, g : W3cFine(c, p, g, Standing)' <=> W3cFine(c, p, g, Standing)
  <2> SUFFICES ASSUME NEW c, NEW p, NEW g
               PROVE  W3cFine(c, p, g, Standing)' <=> W3cFine(c, p, g, Standing)
    OBVIOUS
  <2>1. \A l, n, q : Live(c, l, n, p, q, Standing)' <=> Live(c, l, n, p, q, Standing)
    BY <1>2, Zenon DEF Live
  <2> QED BY <2>1, W3cFineIs, Zenon DEF W3cFine
<1>4. \A c, p, g : IetfFine(c, p, g, Standing)' <=> IetfFine(c, p, g, Standing)
  BY <1>2, Zenon DEF IetfFine, Live
<1>5. \A c, p, g : FineNow(c, p, g)' <=> FineNow(c, p, g)
  BY <1>3, <1>4, Zenon DEF FineNow, Fine, StatusFine
<1>6. ASSUME NEW n PROVE Whole(n)' <=> Whole(n)
  <2> DEFINE c == Credentials[n]
  <2>1. FineNow(c, Asked, args.given)' <=> FineNow(c, Asked, args.given)
    BY <1>1, <1>5, Zenon
  <2>2. SchemaFine(c, Asked, args.given, SinceTheCall, Standing)'
          <=> SchemaFine(c, Asked, args.given, SinceTheCall, Standing)
    BY <1>1, <1>5, Zenon DEF SchemaFine, FineNow
  <2> QED BY <2>1, <2>2, Zenon DEF Whole
<1> QED BY <1>1, <1>3, <1>4, <1>5, <1>6

LEMMA TaskStays ==
  ASSUME args' = args, SinceTheCall' = SinceTheCall, Standing' = Standing, changes' = changes,
         faults \subseteq faults', NEW i, NEW s, TaskOK(i, s)
  PROVE  TaskOK(i, s)'
<1>1. /\ Asked' = Asked
      /\ \A c, p, g : W3cFine(c, p, g, Standing)' <=> W3cFine(c, p, g, Standing)
      /\ \A c, p, g : IetfFine(c, p, g, Standing)' <=> IetfFine(c, p, g, Standing)
      /\ \A c, p, g : FineNow(c, p, g)' <=> FineNow(c, p, g)
      /\ \A n : Whole(n)' <=> Whole(n)
  BY FineStays
<1>2. Policy(s)' = Policy(s) /\ Given(s)' = Given(s)
  BY <1>1 DEF Policy, Given
<1>3. \A l : Authentic(l)' <=> Authentic(l)
  BY DEF Authentic, Hosted
<1>4. RoleOK(i, s) => RoleOK(i, s)'
  BY <1>1, Zenon DEF RoleOK, InnerRole
<1>5. ProvedOK(s) => ProvedOK(s)'
  BY <1>2, Zenon DEF ProvedOK, SignedFor
<1>6. W3cDone(s) => W3cDone(s)'
  BY <1>1, <1>2, Zenon DEF W3cDone
<1>7. IetfDone(s) => IetfDone(s)'
  BY <1>1, <1>2, Zenon DEF IetfDone
<1>8. \A n : EntryRead(s, n) => EntryRead(s, n)'
  BY <1>2, <1>3, Zenon DEF EntryRead
<1>9. W3cOK(s) => W3cOK(s)'
  BY <1>2, <1>8, Zenon DEF W3cOK
<1>10. DepthOK(s) => DepthOK(s)'
  BY DEF DepthOK
<1>11. GoingOn(i, s) => GoingOn(i, s)'
  BY <1>2, <1>4, <1>5, <1>6, <1>7, <1>9, <1>10, Zenon DEF GoingOn
<1>12. Flawless(args.batch[i])' <=> Flawless(args.batch[i])
  BY <1>1, Zenon DEF Flawless
<1>13. Whole(args.batch[i])' <=> Whole(args.batch[i])
  BY <1>1, Zenon
<1> QED BY <1>11, <1>12, <1>13 DEF TaskOK

\* A step of one verification, seen from all of them.
LEMMA TasksStay ==
  ASSUME TasksOK, args' = args, SinceTheCall' = SinceTheCall, Standing' = Standing, changes' = changes,
         faults \subseteq faults', NEW i \in Items, NEW t, task' = [task EXCEPT ![i] = t], TaskOK(i, t)'
  PROVE  TasksOK'
<1>1. Items' = Items
  BY DEF Items
<1>2. task' = [j \in Items |-> task'[j]]
  BY DEF TasksOK
<1>3. ASSUME NEW j \in Items PROVE TaskOK(j, task[j])'
  <2>1. CASE j = i
    <3>1. task'[j] = t
      BY <2>1 DEF TasksOK
    <3> QED BY <2>1, <3>1
  <2>2. CASE j # i
    <3>1. task'[j] = task[j]
      BY <2>2 DEF TasksOK
    <3>2. TaskOK(j, task[j])
      BY DEF TasksOK
    <3> QED BY <3>1, <3>2, TaskStays
  <2> QED BY <2>1, <2>2
<1> QED BY <1>1, <1>2, <1>3 DEF TasksOK

\* When issuers change something, more keys have been published since the call
\* and fewer statuses have stood since before it.
Grows ==
  /\ \A d \in Issuers : SinceTheCall[d] \subseteq SinceTheCall'[d]
  /\ \A l \in AllLists : \A n, q : q # "valid" /\ Marked(Standing, l, n, q)' => Marked(Standing, l, n, q)

LEMMA FineGrows ==
  ASSUME args' = args, Grows, NEW n \in DOMAIN Credentials, NEW p, NEW g
  PROVE  LET c == Credentials[n]
         IN  /\ SignedFor(c, g, SinceTheCall) => SignedFor(c, g, SinceTheCall)'
             /\ W3cFine(c, p, g, Standing) => W3cFine(c, p, g, Standing)'
             /\ IetfFine(c, p, g, Standing) => IetfFine(c, p, g, Standing)'
             /\ FineNow(c, p, g) => FineNow(c, p, g)'
<1> DEFINE c == Credentials[n]
<1>0. /\ c.iss \in Issuers
      /\ \A k \in ParseStatusEntries(c.w3c) : c.w3c[k].url \in Lists \cup {Nothing}
      /\ c.ietf # Nothing /\ c.ietf.form = "ref" => c.ietf.uri \in Tokens \cup {Nothing}
  BY CredentialAssumption
<1> HIDE DEF c
<1>1. \A l : Authentic(l)' <=> Authentic(l)
  BY DEF Authentic, Hosted
<1>2. ASSUME NEW l \in AllLists, NEW k, NEW q, Live(c, l, k, p, q, Standing) PROVE Live(c, l, k, p, q, Standing)'
  <2>1. /\ Marked(Standing, l, k, "suspension")' => Marked(Standing, l, k, "suspension")
        /\ Marked(Standing, l, k, "revocation")' => Marked(Standing, l, k, "revocation")
    BY DEF Grows
  <2> QED BY <1>1, <1>2, <2>1, Zenon DEF Live
<1>3. SignedFor(c, g, SinceTheCall) => SignedFor(c, g, SinceTheCall)'
  <2>1. c.key \in SinceTheCall[c.iss] => c.key \in SinceTheCall'[c.iss]
    BY <1>0 DEF Grows
  <2> QED BY <2>1, Zenon DEF SignedFor
<1>4. ASSUME W3cFine(c, p, g, Standing) PROVE W3cFine(c, p, g, Standing)'
  <2> DEFINE raw == c.w3c
             named == {k \in DOMAIN raw : raw[k].form = "object" /\ raw[k].type = "list"}
  <2>1. /\ \A k \in DOMAIN raw : raw[k].form = "object" /\ raw[k].type # "absent"
        /\ \A k \in named : Points(raw[k].url, raw[k].index, {"int", "digits"})
        /\ raw # <<>> /\ (named = {} \/ "w3c" \notin g) => ~ p.status
        /\ "w3c" \in g => \A k \in named : /\ Purpose[raw[k].url] = raw[k].purpose
                                           /\ Live(c, raw[k].url, raw[k].index.n, p, {raw[k].purpose}, Standing)
    BY <1>4, Zenon DEF W3cFine
  <2>2. \A k \in named : raw[k].url \in AllLists
    BY <1>0, <2>1 DEF Points, ParseStatusEntries, AllLists
  <2>3. "w3c" \in g => \A k \in named : Live(c, raw[k].url, raw[k].index.n, p, {raw[k].purpose}, Standing)'
    BY <1>2, <2>1, <2>2
  <2> QED BY <2>1, <2>3, Zenon DEF W3cFine
<1>5. ASSUME IetfFine(c, p, g, Standing) PROVE IetfFine(c, p, g, Standing)'
  <2>1. CASE c.ietf # Nothing /\ c.ietf.form = "ref" /\ "ietf" \in g
    <3>1. /\ Points(c.ietf.uri, c.ietf.index, {"int"})
          /\ Live(c, c.ietf.uri, c.ietf.index.n, p, {"revocation", "suspension"}, Standing)
      BY <1>5, <2>1 DEF IetfFine
    <3>2. c.ietf.uri \in AllLists
      BY <1>0, <2>1, <3>1 DEF Points, AllLists
    <3>3. Live(c, c.ietf.uri, c.ietf.index.n, p, {"revocation", "suspension"}, Standing)'
      BY <1>2, <3>1, <3>2
    <3> QED BY <2>1, <3>1, <3>3, Zenon DEF IetfFine
  <2>2. CASE ~ (c.ietf # Nothing /\ c.ietf.form = "ref" /\ "ietf" \in g)
    BY <1>5, <2>2, Zenon DEF IetfFine
  <2> QED BY <2>1, <2>2
<1>6. FineNow(c, p, g) => FineNow(c, p, g)'
  BY <1>3, <1>4, <1>5, Zenon DEF FineNow, Fine, StatusFine
<1> QED BY <1>3, <1>4, <1>5, <1>6 DEF c

LEMMA WholeGrows ==
  ASSUME args' = args, Grows, NEW n \in DOMAIN Credentials, Whole(n)
  PROVE  Whole(n)'
<1> DEFINE c == Credentials[n]
           q == [Asked EXCEPT !.typed = FALSE, !.notExpired = TRUE, !.notRevoked = TRUE]
<1>1. Asked' = Asked
  BY DEF Asked
<1>2. FineNow(c, Asked, args.given) /\ (c.schema # "none" => SchemaFine(c, Asked, args.given, SinceTheCall, Standing))
  BY DEF Whole
<1>3. FineNow(c, Asked, args.given)'
  BY <1>1, <1>2, FineGrows
<1>4. ASSUME c.schema # "none", SchemaFine(c, Asked, args.given, SinceTheCall, Standing)
      PROVE  SchemaFine(c, Asked, args.given, SinceTheCall, Standing)'
  <2> DEFINE w == Credentials[Schemas[c.schema]]
  <2>1. CASE "schema" \notin args.given
    BY <1>1, <1>4, <2>1, Zenon DEF SchemaFine
  <2>2. CASE "schema" \in args.given /\ Schemas[c.schema] = Nothing
    BY <1>1, <1>4, <2>2, Zenon DEF SchemaFine
  <2>3. CASE "schema" \in args.given /\ Schemas[c.schema] # Nothing
    <3>1. /\ c.schema # "odd" /\ c.conforms /\ (c.pinned # "none" => c.pinned = c.schema) /\ w.wraps
          /\ w.format # "odd" /\ (w.layers = 0 \/ c.layers + 1 + w.layers <= MaxDepth)
          /\ FineNow(w, q, args.given)
      BY <1>4, <2>3, Zenon DEF SchemaFine, FineNow
    <3>2. Schemas[c.schema] \in DOMAIN Credentials
      BY <1>4, <2>3, <3>1, CredentialAssumption
    <3>3. FineNow(w, q, args.given)'
      <4>1. q' = q
        BY <1>1
      <4>2. \A p, g : FineNow(w, p, g) => FineNow(w, p, g)'
        BY <3>2, FineGrows
      <4> HIDE DEF q
      <4> QED BY <3>1, <4>1, <4>2, Zenon
    <3> QED BY <2>3, <3>1, <3>3, Zenon DEF SchemaFine, FineNow
  <2> QED BY <2>1, <2>2, <2>3
<1> QED BY <1>2, <1>3, <1>4, Zenon DEF Whole

LEMMA TaskGrows ==
  ASSUME WorldOK, args' = args, faults' = faults, changes' # {}, Grows, NEW i \in Items, NEW s, TaskOK(i, s)
  PROVE  TaskOK(i, s)'
<1>0. args.batch[i] \in DOMAIN Credentials
  BY CallAssumption DEF WorldOK, Items
<1>1. Asked' = Asked /\ Policy(s)' = Policy(s) /\ Given(s)' = Given(s)
  BY DEF Asked, Policy, Given
<1>2. \A n \in DOMAIN Credentials : Whole(n) => Whole(n)'
  BY WholeGrows
<1>3. ASSUME GoingOn(i, s) PROVE GoingOn(i, s)'
  <2>0. RoleOK(i, s) /\ s.cred \in DOMAIN Credentials
    BY <1>3 DEF GoingOn, RoleOK
  <2>1. RoleOK(i, s)'
    <3>1. InnerRole(i, s) => InnerRole(i, s)'
      <4> SUFFICES ASSUME InnerRole(i, s) PROVE InnerRole(i, s)'
        OBVIOUS
      <4>1. s.outer \in DOMAIN Credentials /\ FineNow(Credentials[s.outer], Asked, args.given)
        BY DEF InnerRole
      <4>2. FineNow(Credentials[s.outer], Asked, args.given)'
        BY <1>1, <4>1, FineGrows
      <4> QED BY <4>2, Zenon DEF InnerRole
    <3> QED BY <2>0, <3>1, Zenon DEF RoleOK
  <2>2. ProvedOK(s) => ProvedOK(s)'
    <3>1. SignedFor(Cred(s), Given(s), SinceTheCall) => SignedFor(Cred(s), Given(s), SinceTheCall)'
      BY <1>1, <2>0, FineGrows DEF Cred
    <3> QED BY <1>1, <3>1, Zenon DEF ProvedOK
  <2>3. W3cDone(s) => W3cDone(s)'
    BY <1>1, <2>0, FineGrows DEF W3cDone, Cred
  <2>4. IetfDone(s) => IetfDone(s)'
    BY <1>1, <2>0, FineGrows DEF IetfDone, Cred
  <2>5. ASSUME W3cOK(s) PROVE W3cOK(s)'
    <3> DEFINE raw == Cred(s).w3c
               named == ParseStatusEntries(raw)
    <3>1. /\ "w3c" \in Given(s) /\ W3cShape(raw) = "entries" /\ s.todo # {} /\ s.todo \subseteq named
          /\ \A n \in named \ s.todo : EntryRead(s, n)
      BY <2>5 DEF W3cOK
    <3>2. raw # <<>> /\ W3cShape(raw) # "malformed"
      BY <3>1, W3cShapeIs
    <3>3. \A n \in named : Points(raw[n].url, raw[n].index, {"int", "digits"})
      BY <3>2, W3cShapeIs
    <3>4. \A n \in named : raw[n].url \in AllLists
      BY <2>0, <3>3, CredIs DEF Points, AllLists
    <3>5. ASSUME NEW n \in named \ s.todo PROVE EntryRead(s, n)'
      <4>1. EntryRead(s, n)
        BY <3>1
      <4>2. \A l : Authentic(l)' <=> Authentic(l)
        BY DEF Authentic, Hosted
      <4>3. /\ Marked(Standing, raw[n].url, raw[n].index.n, "revocation")'
                 => Marked(Standing, raw[n].url, raw[n].index.n, "revocation")
            /\ Marked(Standing, raw[n].url, raw[n].index.n, "suspension")'
                 => Marked(Standing, raw[n].url, raw[n].index.n, "suspension")
        BY <3>4 DEF Grows
      <4>4. \A q \in {"revocation", "suspension"} :
              Marked(Standing, raw[n].url, raw[n].index.n, q)' => Marked(Standing, raw[n].url, raw[n].index.n, q)
        BY <4>3
      <4> QED BY <1>1, <4>1, <4>2, <4>4, Zenon DEF EntryRead
    <3> QED BY <1>1, <3>1, <3>5, Zenon DEF W3cOK
  <2>6. DepthOK(s) => DepthOK(s)'
    BY DEF DepthOK
  <2> QED BY <1>1, <1>3, <2>1, <2>2, <2>3, <2>4, <2>5, <2>6, Zenon DEF GoingOn
<1>4. Whole(args.batch[i]) => Whole(args.batch[i])'
  BY <1>0, <1>2
<1> QED BY <1>3, <1>4 DEF TaskOK

LEMMA TasksGrow ==
  ASSUME WorldOK, TasksOK, args' = args, faults' = faults, task' = task, changes' # {}, Grows
  PROVE  TasksOK'
<1>1. Items' = Items
  BY DEF Items
<1>2. ASSUME NEW j \in Items PROVE TaskOK(j, task[j])'
  <2>1. TaskOK(j, task[j])
    BY DEF TasksOK
  <2> QED BY <2>1, TaskGrows
<1> QED BY <1>1, <1>2 DEF TasksOK

----------------------------------------------------------------------------
(***************************************************************************)
(* The caches.                                                             *)
(***************************************************************************)
LEMMA AnswerStays ==
  ASSUME UNCHANGED <<args, keys, marks, bytes, changes>>, NEW kind, NEW name, NEW v, AnswerOK(kind, name, v)
  PROVE  AnswerOK(kind, name, v)'
<1>1. Standing' = Standing /\ Hosted' = Hosted
  BY DEF Standing, Hosted, AtFirst
<1>2. Authentic(name)' <=> Authentic(name)
  BY <1>1 DEF Authentic
<1>3. \A b : Told(name, b)' <=> Told(name, b)
  BY <1>1, Zenon DEF Told
<1>4. ListOK(name, v) => ListOK(name, v)'
  BY <1>2, <1>3, Zenon DEF ListOK
<1>5. TokenOK(name, v) => TokenOK(name, v)'
  BY <1>2, <1>3, Zenon DEF TokenOK
<1>6. Served(name)' = Served(name)
  BY <1>1 DEF Served
<1>7. Origin(kind, name)' = Origin(kind, name)
  BY <1>6 DEF Origin
<1> QED BY <1>4, <1>5, <1>7 DEF AnswerOK

LEMMA CacheStays ==
  ASSUME CacheOK, UNCHANGED <<args, keys, marks, bytes, changes, cache>>
  PROVE  CacheOK'
<1> SUFFICES ASSUME NEW k \in Callables, k \in DOMAIN cache PROVE AnswerOK(k[1], k[2], cache[k])'
  BY DEF CacheOK
<1>1. AnswerOK(k[1], k[2], cache[k])
  BY DEF CacheOK
<1> QED BY <1>1, AnswerStays

LEMMA ResolvedKeeps ==
  ASSUME WorldOK, BytesOK, CacheOK, OnceOK, returned # "uncalled", NEW kind, NEW name,
         <<kind, name>> \in Callables, Resolved(kind, name)
  PROVE  CacheOK' /\ OnceOK'
<1> DEFINE key == <<kind, name>>
<1>0. UNCHANGED <<args, keys, marks, bytes, changes, returned, faults>>
  BY DEF Resolved
<1>1. Sequential' = Sequential
  BY <1>0 DEF Sequential
<1>2. AnswerOK(kind, name, Answer(kind, name))
  BY AnswerIsOK
<1>3. CASE ~ Sequential
  <2>1. cache' = cache
    BY <1>3 DEF Resolved, Remember
  <2> QED BY <1>0, <1>1, <1>3, <2>1, CacheStays DEF OnceOK
<1>4. CASE Sequential
  <2>1. cache' = [x \in DOMAIN cache \cup {key} |-> IF x = key THEN Answer(kind, name) ELSE cache[x]]
    BY <1>4 DEF Resolved, Remember, With, Key
  <2>2. CacheOK'
    <3> SUFFICES ASSUME NEW k \in Callables, k \in DOMAIN cache' PROVE AnswerOK(k[1], k[2], cache[k])'
      BY DEF CacheOK
    <3>1. CASE k = key
      <4>1. cache'[k] = Answer(kind, name) /\ k[1] = kind /\ k[2] = name
        BY <2>1, <3>1
      <4> DEFINE v == Answer(kind, name)
      <4>2. AnswerOK(kind, name, v)
        BY <1>2
      <4> HIDE DEF v
      <4>3. \A x : AnswerOK(kind, name, x) => AnswerOK(kind, name, x)'
        BY <1>0, AnswerStays
      <4> QED BY <4>1, <4>2, <4>3 DEF v
    <3>2. CASE k # key
      <4>1. cache'[k] = cache[k] /\ k \in DOMAIN cache
        BY <2>1, <3>2
      <4>2. AnswerOK(k[1], k[2], cache[k])
        BY <4>1 DEF CacheOK
      <4>3. \A x : AnswerOK(k[1], k[2], x) => AnswerOK(k[1], k[2], x)'
        BY <1>0, AnswerStays
      <4> QED BY <4>1, <4>2, <4>3
    <3> QED BY <3>1, <3>2
  <2>3. OnceOK'
    <3>0. DOMAIN fetched = DOMAIN cache /\ \A k \in DOMAIN fetched : fetched[k] = 1
      BY <1>4 DEF OnceOK
    <3>1. CASE key \in DOMAIN cache
      <4>1. fetched' = fetched
        BY <1>4, <3>1 DEF Resolved, Cached, Key
      <4>2. DOMAIN cache' = DOMAIN cache
        BY <2>1, <3>1
      <4> QED BY <3>0, <4>1, <4>2 DEF OnceOK
    <3>2. CASE key \notin DOMAIN cache
      <4>1. Min({0 + 1, 2}) = 1
        BY SmallerOf
      <4>2. Fetches(kind, name) = 0
        BY <3>0, <3>2 DEF Fetches, Key
      <4>3. fetched' = [x \in DOMAIN fetched \cup {key} |-> IF x = key THEN 1 ELSE fetched[x]]
        BY <1>4, <3>2, <4>1, <4>2 DEF Resolved, Cached, Key, With
      <4>4. DOMAIN fetched' = DOMAIN cache'
        BY <2>1, <3>0, <4>3
      <4>5. \A k \in DOMAIN fetched' : fetched'[k] = 1
        BY <3>0, <4>3
      <4> QED BY <4>4, <4>5 DEF OnceOK
    <3> QED BY <3>1, <3>2
  <2> QED BY <2>2, <2>3
<1> QED BY <1>3, <1>4

----------------------------------------------------------------------------
(***************************************************************************)
(* The steps of a verification.                                            *)
(***************************************************************************)
LEMMA WorldStays ==
  ASSUME WorldOK, BytesOK, UNCHANGED <<args, keys, marks, bytes, changes>>,
         returned # "uncalled", returned' # "uncalled"
  PROVE  /\ WorldOK' /\ BytesOK' /\ SinceTheCall' = SinceTheCall /\ Standing' = Standing
<1>1. WorldOK'
  BY DEF WorldOK, AtFirst
<1>2. BytesOK'
  BY DEF BytesOK, Meant
<1>3. SinceTheCall' = SinceTheCall /\ Standing' = Standing
  BY DEF SinceTheCall, Standing, AtFirst
<1> QED BY <1>1, <1>2, <1>3

LEMMA StepKeeps ==
  ASSUME BatchInv, NEW i \in Items, UNCHANGED <<args, keys, marks, bytes, changes>>,
         returned # "uncalled", returned' # "uncalled", faults \subseteq faults', CacheOK', OnceOK',
         NEW t, task' = [task EXCEPT ![i] = t], TaskOK(i, t)'
  PROVE  BatchInv'
<1>1. WorldOK' /\ BytesOK' /\ SinceTheCall' = SinceTheCall /\ Standing' = Standing
  BY WorldStays DEF BatchInv
<1>2. TasksOK'
  BY <1>1, TasksStay DEF BatchInv
<1> QED BY <1>1, <1>2 DEF BatchInv

LEMMA LandedKeeps ==
  ASSUME BatchInv, NEW i \in Items, UNCHANGED <<args, keys, marks, bytes, changes, returned, faults>>,
         returned # "uncalled", CacheOK', OnceOK', Landed(i)
  PROVE  BatchInv'
<1>1. PICK t : task' = [task EXCEPT ![i] = t] /\ TaskOK(i, t)
  BY DEF Landed
<1>2. SinceTheCall' = SinceTheCall /\ Standing' = Standing
  BY WorldStays DEF BatchInv
<1>3. TaskOK(i, t)'
  BY <1>1, <1>2, TaskStays
<1> QED BY <1>1, <1>3, StepKeeps

LEMMA NoCallKeeps ==
  ASSUME BatchInv, NEW i \in Items, returned # "uncalled", NoCall, Landed(i)
  PROVE  BatchInv'
<1>1. UNCHANGED <<args, keys, marks, bytes, changes, cache, returned, fetched, faults>>
  BY DEF NoCall
<1>2. CacheOK'
  BY <1>1, CacheStays DEF BatchInv
<1>3. OnceOK'
  BY <1>1 DEF BatchInv, OnceOK, Sequential
<1> QED BY <1>1, <1>2, <1>3, LandedKeeps

LEMMA CallKeeps ==
  ASSUME BatchInv, NEW i \in Items, returned # "uncalled", NEW kind, NEW name,
         <<kind, name>> \in Callables, Resolved(kind, name), Landed(i)
  PROVE  BatchInv'
<1>1. UNCHANGED <<args, keys, marks, bytes, changes, returned, faults>>
  BY DEF Resolved
<1>2. CacheOK' /\ OnceOK'
  BY ResolvedKeeps DEF BatchInv
<1> QED BY <1>1, <1>2, LandedKeeps

LEMMA FailedCallKeeps ==
  ASSUME BatchInv, NEW i, NEW pc, pc # "done", At(i, pc), NEW kind, NEW name, NEW e, e # "ok",
         CallFails(i, kind, name, e)
  PROVE  BatchInv'
<1> DEFINE s == task[i]
<1>1. i \in Items /\ IsLocals(s) /\ GoingOn(i, s) /\ returned # "uncalled"
  BY AtIs DEF BatchInv
<1>2. /\ UNCHANGED <<args, keys, marks, bytes, changes, cache, fetched>>
      /\ faults' = faults \cup {i}
  BY DEF CallFails
<1>3. CacheOK' /\ OnceOK'
  <2>1. CacheOK'
    BY <1>2, CacheStays DEF BatchInv
  <2>2. OnceOK'
    BY <1>2 DEF BatchInv, OnceOK, Sequential
  <2> QED BY <2>1, <2>2
<1>4. s.verdict = Nothing /\ Nothing # "ok"
  BY <1>1, BatchAssumption DEF GoingOn
<1>5. ASSUME NEW t, IsLocals(t), t.pc = "done", t.verdict # "ok" PROVE TaskOK(i, t)'
  <2>1. i \in faults'
    BY <1>2
  <2>2. IsLocals(t)'
    BY <1>5 DEF IsLocals
  <2> QED BY <1>5, <2>1, <2>2 DEF TaskOK
<1>6. CASE Fail(i, s, e) /\ UNCHANGED returned
  <2> DEFINE v == IF s.outer = Nothing THEN e ELSE "schemaUnresolved"
             t == [task[i] EXCEPT !.pc = "done", !.verdict = v]
  <2>1. task' = [task EXCEPT ![i].pc = "done", ![i].verdict = v] /\ v # "ok"
    BY <1>6 DEF Fail, Finish
  <2> HIDE DEF v
  <2>2. t.pc = "done" /\ t.verdict = v /\ IsLocals(t)
    <3> DEFINE u == [task[i] EXCEPT !.pc = "done"]
    <3>1. u = [pc |-> "done", cred |-> s.cred, outer |-> s.outer, depth |-> s.depth,
               todo |-> s.todo, set |-> s.set, verdict |-> s.verdict]
      BY <1>1 DEF IsLocals
    <3>2. t = [u EXCEPT !.verdict = v]
      OBVIOUS
    <3> HIDE DEF t, u
    <3>3. t = [pc |-> "done", cred |-> s.cred, outer |-> s.outer, depth |-> s.depth,
               todo |-> s.todo, set |-> s.set, verdict |-> v]
      BY <3>1, <3>2
    <3> QED BY <3>3 DEF IsLocals
  <2>3. task' = [task EXCEPT ![i] = t]
    BY <1>1, <2>1 DEF IsLocals
  <2> HIDE DEF t
  <2>4. IsLocals(t) /\ t.pc = "done" /\ t.verdict # "ok"
    BY <2>1, <2>2
  <2>5. \A x : IsLocals(x) /\ x.pc = "done" /\ x.verdict # "ok" => TaskOK(i, x)'
    BY <1>5
  <2> QED BY <1>1, <1>2, <1>3, <1>6, <2>3, <2>4, <2>5, StepKeeps
<1>7. CASE returned' = "raised" /\ task' = [task EXCEPT ![i].pc = "done"]
  <2> DEFINE t == [task[i] EXCEPT !.pc = "done"]
  <2>1. task' = [task EXCEPT ![i] = t]
    BY <1>7
  <2>2. t = [pc |-> "done", cred |-> s.cred, outer |-> s.outer, depth |-> s.depth,
             todo |-> s.todo, set |-> s.set, verdict |-> s.verdict]
    BY <1>1 DEF IsLocals
  <2> HIDE DEF t
  <2>3. IsLocals(t) /\ t.pc = "done" /\ t.verdict # "ok"
    BY <1>4, <2>2 DEF IsLocals
  <2>4. \A x : IsLocals(x) /\ x.pc = "done" /\ x.verdict # "ok" => TaskOK(i, x)'
    BY <1>5
  <2> QED BY <1>1, <1>2, <1>3, <1>7, <2>1, <2>3, <2>4, StepKeeps
<1> QED BY <1>6, <1>7 DEF CallFails

LEMMA UnreadableKeeps ==
  ASSUME BatchInv, NEW i, Unreadable(i)
  PROVE  BatchInv'
<1>1. At(i, "odd") /\ Fail(i, task[i], "format") /\ NoCall
  BY DEF Unreadable
<1>2. i \in Items /\ returned # "uncalled"
  BY <1>1, AtIs DEF BatchInv
<1>3. Landed(i)
  BY <1>1, UnreadableLands DEF BatchInv
<1> QED BY <1>1, <1>2, <1>3, NoCallKeeps

LEMMA CheckProofKeeps ==
  ASSUME BatchInv, NEW i, CheckProof(i)
  PROVE  BatchInv'
<1> DEFINE s == task[i]
           c == Cred(s)
           kind == IF ByMetadata(c) THEN "metadata" ELSE "did"
           name == IF c.format = "di" THEN c.signer ELSE c.iss
<1>0. At(i, "key") /\ WorldOK /\ BytesOK /\ CacheOK /\ TasksOK
  BY DEF CheckProof, BatchInv
<1>1. i \in Items /\ returned # "uncalled"
  BY <1>0, AtIs
<1>2. \/ /\ ByChain(s) /\ NoCall
         /\ IF c.x5c = "good" THEN ProofHolds(i, s, c.key) ELSE Fail(i, s, "key")
      \/ ~ ByChain(s) /\ ByMetadata(c) /\ "https" \notin Given(s) /\ Fail(i, s, "key") /\ NoCall
      \/ /\ ~ ByChain(s) /\ (ByMetadata(c) => "https" \in Given(s))
         /\ ProofHolds(i, s, Answer(kind, name)) /\ Resolved(kind, name)
      \/ CallFails(i, kind, name, "key")
  BY DEF CheckProof
<1>3. CASE ByChain(s) /\ NoCall /\ IF c.x5c = "good" THEN ProofHolds(i, s, c.key) ELSE Fail(i, s, "key")
  <2>1. Landed(i)
    BY <1>0, <1>3, ChainLands
  <2> QED BY <1>1, <1>3, <2>1, NoCallKeeps
<1>4. CASE ~ ByChain(s) /\ ByMetadata(c) /\ "https" \notin Given(s) /\ Fail(i, s, "key") /\ NoCall
  <2>1. Landed(i)
    BY <1>0, <1>4, NoMetadataLands
  <2> QED BY <1>1, <1>4, <2>1, NoCallKeeps
<1>5. CASE /\ ~ ByChain(s) /\ (ByMetadata(c) => "https" \in Given(s))
           /\ ProofHolds(i, s, Answer(kind, name)) /\ Resolved(kind, name)
  <2>1. Landed(i) /\ <<kind, name>> \in Callables
    BY <1>0, <1>5, KeyLands
  <2> HIDE DEF kind, name
  <2> QED BY <1>1, <1>5, <2>1, CallKeeps
<1>6. CASE CallFails(i, kind, name, "key")
  <2> HIDE DEF kind, name
  <2> QED BY <1>0, <1>6, FailedCallKeeps
<1> QED BY <1>2, <1>3, <1>4, <1>5, <1>6

LEMMA CheckW3cKeeps ==
  ASSUME BatchInv, NEW i, CheckW3c(i)
  PROVE  BatchInv'
<1> DEFINE n == Min(task[i].todo)
           e == Cred(task[i]).w3c[n]
           list == Answer("w3c", e.url)
<1>0. At(i, "w3c") /\ WorldOK /\ BytesOK /\ CacheOK /\ TasksOK
  BY DEF CheckW3c, BatchInv
<1>1. i \in Items /\ returned # "uncalled" /\ <<"w3c", e.url>> \in Callables
  BY <1>0, W3cAt
<1>2. \/ list # Refused /\ ReadEntry(i, task[i], n, list, ReadStatusBit(list, e)) /\ Resolved("w3c", e.url)
      \/ Rejects(i, "w3c", e.url)
      \/ CallFails(i, "w3c", e.url, "statusFetch")
  BY Zenon DEF CheckW3c
<1>3. CASE list # Refused /\ ReadEntry(i, task[i], n, list, ReadStatusBit(list, e)) /\ Resolved("w3c", e.url)
  <2>1. Landed(i)
    BY <1>0, <1>3, EntryLands
  <2> QED BY <1>1, <1>3, <2>1, CallKeeps
<1>4. CASE Rejects(i, "w3c", e.url)
  <2>1. Landed(i) /\ NoCall
    BY <1>0, <1>4, RejectedListLands DEF Rejects
  <2> QED BY <1>1, <2>1, NoCallKeeps
<1>5. CASE CallFails(i, "w3c", e.url, "statusFetch")
  BY <1>0, <1>5, FailedCallKeeps
<1> QED BY <1>2, <1>3, <1>4, <1>5

LEMMA CheckIetfKeeps ==
  ASSUME BatchInv, NEW i, CheckIetf(i)
  PROVE  BatchInv'
<1> DEFINE ref == Cred(task[i]).ietf
           token == Answer("ietf", ref.uri)
<1>0. At(i, "ietf") /\ WorldOK /\ BytesOK /\ CacheOK /\ TasksOK
  BY DEF CheckIetf, BatchInv
<1>1. i \in Items /\ returned # "uncalled" /\ <<"ietf", ref.uri>> \in Callables
  BY <1>0, IetfAt
<1>2. \/ token # Refused /\ ReadToken(i, task[i], token, TokenStatus(token, ref)) /\ Resolved("ietf", ref.uri)
      \/ Rejects(i, "ietf", ref.uri)
      \/ CallFails(i, "ietf", ref.uri, "statusFetch")
  BY DEF CheckIetf
<1>3. CASE token # Refused /\ ReadToken(i, task[i], token, TokenStatus(token, ref)) /\ Resolved("ietf", ref.uri)
  <2>1. Landed(i)
    BY <1>0, <1>3, TokenLands
  <2> QED BY <1>1, <1>3, <2>1, CallKeeps
<1>4. CASE Rejects(i, "ietf", ref.uri)
  <2>1. Landed(i) /\ NoCall
    BY <1>0, <1>4, RejectedTokenLands DEF Rejects
  <2> QED BY <1>1, <2>1, NoCallKeeps
<1>5. CASE CallFails(i, "ietf", ref.uri, "statusFetch")
  BY <1>0, <1>5, FailedCallKeeps
<1> QED BY <1>2, <1>3, <1>4, <1>5

LEMMA CheckSchemaKeeps ==
  ASSUME BatchInv, NEW i, CheckSchema(i)
  PROVE  BatchInv'
<1> DEFINE s == task[i]
           url == Cred(s).schema
<1>0. At(i, "schema") /\ WorldOK /\ BytesOK /\ CacheOK /\ TasksOK
  BY DEF CheckSchema, BatchInv
<1>1. i \in Items /\ returned # "uncalled" /\ (url # "odd" => <<"schema", url>> \in Callables)
  BY <1>0, SchemaAt, AtIs
<1>2. \/ url = "odd" /\ Fail(i, s, "schemaUnresolved") /\ NoCall
      \/ /\ url # "odd"
         /\ IF ~ PinHolds(Cred(s)) THEN Fail(i, s, "schemaUnresolved")
            ELSE IF Answer("schema", url) = Nothing THEN Conform(i, Cred(s))
            ELSE Put(i, Entered(Answer("schema", url), s.depth + 1, s.cred))
         /\ Resolved("schema", url)
      \/ CallFails(i, "schema", url, "schemaUnresolved")
  BY DEF CheckSchema
<1>3. CASE url = "odd" /\ Fail(i, s, "schemaUnresolved") /\ NoCall
  <2>1. Landed(i)
    BY <1>0, <1>3, OddSchemaLands
  <2> QED BY <1>1, <1>3, <2>1, NoCallKeeps
<1>4. CASE /\ url # "odd"
           /\ IF ~ PinHolds(Cred(s)) THEN Fail(i, s, "schemaUnresolved")
              ELSE IF Answer("schema", url) = Nothing THEN Conform(i, Cred(s))
              ELSE Put(i, Entered(Answer("schema", url), s.depth + 1, s.cred))
           /\ Resolved("schema", url)
  <2>1. Landed(i)
    BY <1>0, <1>4, SchemaLands
  <2> QED BY <1>1, <1>4, <2>1, CallKeeps
<1>5. CASE CallFails(i, "schema", url, "schemaUnresolved")
  BY <1>0, <1>5, FailedCallKeeps
<1> QED BY <1>2, <1>3, <1>4, <1>5

----------------------------------------------------------------------------
(***************************************************************************)
(* The issuers, and the call.                                              *)
(***************************************************************************)
LEMMA MarkKeeps ==
  ASSUME WorldOK, BytesOK, NEW l \in AllLists, NEW c \in DOMAIN Slot, NEW m \in Marks(l), Mark(l, c, m)
  PROVE  /\ BytesOK'
         /\ marks' = [k \in AllLists |-> [d \in DOMAIN Slot |-> marks'[k][d]]]
         /\ \A k \in AllLists : \A d \in DOMAIN Slot :
              /\ marks'[k][d] = IF k = l /\ d = c THEN m ELSE marks[k][d]
              /\ marks'[k][d] \in Marks(k)
<1>1. /\ marks' = [marks EXCEPT ![l] = [marks[l] EXCEPT ![c] = m]]
      /\ bytes' = [bytes EXCEPT ![l] = Write(l, bytes[l], c, m)]
  BY DEF Mark
<1>2. /\ marks = [k \in AllLists |-> [d \in DOMAIN Slot |-> marks[k][d]]]
      /\ \A k \in AllLists : \A d \in DOMAIN Slot : marks[k][d] \in Marks(k)
  BY DEF WorldOK
<1>3. DOMAIN marks = AllLists /\ \A k \in AllLists : DOMAIN marks[k] = DOMAIN Slot
  BY <1>2
<1>4. \A k \in AllLists : marks'[k] = IF k = l THEN [marks[l] EXCEPT ![c] = m] ELSE marks[k]
  BY <1>1, <1>3
<1>5. \A k \in AllLists : \A d \in DOMAIN Slot : marks'[k][d] = IF k = l /\ d = c THEN m ELSE marks[k][d]
  BY <1>3, <1>4
<1>6. \A k \in AllLists : marks'[k] = [d \in DOMAIN Slot |-> marks'[k][d]]
  BY <1>2, <1>3, <1>4
<1>7. marks' = [k \in AllLists |-> [d \in DOMAIN Slot |-> marks'[k][d]]]
  BY <1>1, <1>3, <1>6
<1>8. \A k \in AllLists : \A d \in DOMAIN Slot : marks'[k][d] \in Marks(k)
  BY <1>2, <1>5
<1>9. BytesOK'
  <2>0. /\ bytes = [k \in AllLists |-> bytes[k]]
        /\ \A k \in AllLists :
             /\ bytes[k] \in ByteLists(k)
             /\ \A n \in 0..(Room(k) - 1) : Meant(marks, k, n, ReadAt(k, bytes[k], n))
    BY DEF BytesOK
  <2> DEFINE w == Write(l, bytes[l], c, m)
  <2>1. /\ w \in ByteLists(l)
        /\ \A n \in 0..(Room(l) - 1) : ReadAt(l, w, n) = IF n = Slot[c] THEN Value(l, m) ELSE ReadAt(l, bytes[l], n)
    BY <2>0, WriteThenRead
  <2> HIDE DEF w
  <2>2. \A k \in AllLists : bytes'[k] = IF k = l THEN w ELSE bytes[k]
    BY <1>1, <2>0 DEF w
  <2>3. bytes' = [k \in AllLists |-> bytes'[k]]
    BY <1>1, <2>0
  <2>4. \A d \in DOMAIN Slot : Slot[d] = Slot[c] => d = c
    BY ListAssumption
  <2>5. ASSUME NEW k \in AllLists, NEW n \in 0..(Room(k) - 1), NEW v, Meant(marks, k, n, v),
               k # l \/ n # Slot[c]
        PROVE  Meant(marks', k, n, v)
    <3>1. \A d \in DOMAIN Slot : Slot[d] = n => marks'[k][d] = marks[k][d]
      BY <1>5, <2>5
    <3> QED BY <2>5, <3>1, Zenon DEF Meant
  <2>6. ASSUME NEW k \in AllLists
        PROVE  bytes'[k] \in ByteLists(k) /\ \A n \in 0..(Room(k) - 1) : Meant(marks', k, n, ReadAt(k, bytes'[k], n))
    <3>1. CASE k # l
      <4>1. bytes'[k] = bytes[k]
        BY <2>2, <3>1
      <4> QED BY <2>0, <2>5, <3>1, <4>1
    <3>2. CASE k = l
      <4>1. bytes'[l] = w
        BY <2>2
      <4>2. ASSUME NEW n \in 0..(Room(l) - 1) PROVE Meant(marks', l, n, ReadAt(l, w, n))
        <5>1. CASE n = Slot[c]
          <6>1. ReadAt(l, w, n) = Value(l, marks'[l][c])
            BY <1>5, <2>1, <5>1
          <6> QED BY <5>1, <6>1, Zenon DEF Meant
        <5>2. CASE n # Slot[c]
          <6>1. ReadAt(l, w, n) = ReadAt(l, bytes[l], n) /\ Meant(marks, l, n, ReadAt(l, bytes[l], n))
            BY <2>0, <2>1, <5>2
          <6> QED BY <2>5, <5>2, <6>1
        <5> QED BY <5>1, <5>2
      <4> QED BY <2>1, <3>2, <4>1, <4>2
    <3> QED BY <3>1, <3>2
  <2> QED BY <2>3, <2>6 DEF BytesOK
<1> QED BY <1>5, <1>7, <1>8, <1>9

LEMMA AtFirstIs ==
  ASSUME WorldOK, NEW l \in AllLists, NEW c \in DOMAIN Slot
  PROVE  AtFirst[l][c] \in Marks(l)
BY CallAssumption DEF WorldOK, AtFirst, AllLists

LEMMA SetBeforeKeeps ==
  ASSUME BatchInv, NEW l \in AllLists, NEW c \in DOMAIN Slot, SetBefore(l, c)
  PROVE  BatchInv'
<1>0. WorldOK /\ BytesOK /\ CacheOK /\ OnceOK /\ TasksOK
  BY DEF BatchInv
<1>1. /\ returned = "uncalled" /\ Mark(l, c, AtFirst[l][c])
      /\ UNCHANGED <<args, keys, changes, cache, task, results, returned, fetched, faults>>
  BY DEF SetBefore
<1> DEFINE m == AtFirst[l][c]
<1>2. m \in Marks(l) /\ Mark(l, c, m)
  BY <1>0, <1>1, AtFirstIs
<1> HIDE DEF m
<1>3. /\ BytesOK'
      /\ marks' = [k \in AllLists |-> [d \in DOMAIN Slot |-> marks'[k][d]]]
      /\ \A k \in AllLists : \A d \in DOMAIN Slot : marks'[k][d] \in Marks(k)
  BY <1>0, <1>2, MarkKeeps
<1>4. changes = {} /\ DOMAIN cache = {}
  BY <1>0, <1>1 DEF WorldOK
<1>5. WorldOK'
  BY <1>0, <1>1, <1>3, <1>4 DEF WorldOK
<1>6. CacheOK'
  BY <1>1, <1>4 DEF CacheOK
<1>7. OnceOK'
  BY <1>0, <1>1 DEF OnceOK, Sequential
<1>8. SinceTheCall' = SinceTheCall
  BY <1>1 DEF SinceTheCall
<1>9. Standing' = Standing
  <2>1. \A k \in AllLists : DOMAIN marks[k] = DOMAIN Slot /\ DOMAIN marks'[k] = DOMAIN Slot
    BY <1>0, <1>3 DEF WorldOK
  <2>2. AtFirst' = AtFirst
    BY <1>1 DEF AtFirst
  <2>3. Standing = [k \in AllLists |-> [d \in DOMAIN Slot |-> IF <<k, d>> \in changes THEN "valid" ELSE AtFirst[k][d]]]
    BY <2>1 DEF Standing, AllLists
  <2>4. Standing' = [k \in AllLists |-> [d \in DOMAIN Slot |-> IF <<k, d>> \in changes THEN "valid" ELSE AtFirst[k][d]]]
    BY <1>1, <2>1, <2>2 DEF Standing, AllLists
  <2> QED BY <2>3, <2>4
<1>10. TasksOK'
  <2>1. Items' = Items
    BY <1>1 DEF Items
  <2>2. ASSUME NEW j \in Items PROVE TaskOK(j, task[j])'
    <3>1. TaskOK(j, task[j])
      BY <1>0 DEF TasksOK
    <3> QED BY <1>1, <1>8, <1>9, <3>1, TaskStays
  <2> QED BY <1>0, <1>1, <2>1, <2>2 DEF TasksOK
<1> QED BY <1>3, <1>5, <1>6, <1>7, <1>10 DEF BatchInv

\* The call, its return, and a step that leaves everything as it is.
LEMMA QuietKeeps ==
  ASSUME BatchInv, UNCHANGED <<args, keys, marks, bytes, changes, cache, task, fetched, faults>>,
         \/ returned' = returned
         \/ returned' # "uncalled" /\ (returned # "uncalled" \/ marks = AtFirst)
  PROVE  BatchInv'
<1>0. WorldOK /\ BytesOK /\ CacheOK /\ OnceOK /\ TasksOK
  BY DEF BatchInv
<1>1. AtFirst' = AtFirst /\ SinceTheCall' = SinceTheCall /\ Standing' = Standing
  BY DEF AtFirst, SinceTheCall, Standing
<1>2. WorldOK'
  <2>1. CASE returned' = returned
    BY <1>0, <1>1, <2>1 DEF WorldOK
  <2>2. CASE returned' # "uncalled" /\ returned # "uncalled"
    BY <1>0, <1>1, <2>2 DEF WorldOK
  <2>3. CASE returned' # "uncalled" /\ marks = AtFirst
    BY <1>0, <1>1, <2>3 DEF WorldOK
  <2> QED BY <2>1, <2>2, <2>3
<1>3. BytesOK'
  BY <1>0 DEF BytesOK, Meant
<1>4. CacheOK'
  BY <1>0, CacheStays
<1>5. OnceOK'
  BY <1>0 DEF OnceOK, Sequential
<1>6. TasksOK'
  <2>1. Items' = Items
    BY DEF Items
  <2>2. ASSUME NEW j \in Items PROVE TaskOK(j, task[j])'
    <3>1. TaskOK(j, task[j])
      BY <1>0 DEF TasksOK
    <3> QED BY <1>1, <3>1, TaskStays
  <2> QED BY <1>0, <2>1, <2>2 DEF TasksOK
<1> QED BY <1>2, <1>3, <1>4, <1>5, <1>6 DEF BatchInv

\* What was answered before a change is still an answer of the batch's time.
LEMMA AnswerGrows ==
  ASSUME args' = args, changes' # {}, NEW kind, NEW name, <<kind, name>> \in Callables, NEW v, AnswerOK(kind, name, v),
         \A d \in Issuers : 1..keys[d] \subseteq 1..keys'[d],
         \A l \in AllLists : \A c \in DOMAIN Slot : Standing'[l][c] = "valid" \/ Standing'[l][c] = Standing[l][c]
  PROVE  AnswerOK(kind, name, v)'
<1>1. \/ kind \in {"did", "metadata"} /\ name \in Issuers
      \/ kind = "w3c" /\ name \in Lists
      \/ kind = "ietf" /\ name \in Tokens
      \/ kind = "schema" /\ name \in DOMAIN Schemas
  BY DEF Callables
<1>2. Authentic(name)' <=> Authentic(name)
  BY DEF Authentic, Hosted
<1>3. name \in AllLists => \A b : Told(name, b) => Told(name, b)'
  <2> SUFFICES ASSUME name \in AllLists, NEW b, Told(name, b), NEW c \in DOMAIN Slot, Standing'[name][c] # "valid"
               PROVE  ReadAt(name, b, Slot[c]) = Value(name, Standing'[name][c])
    BY DEF Told
  <2>1. Standing'[name][c] = Standing[name][c]
    OBVIOUS
  <2> QED BY <2>1 DEF Told
<1>4. CASE kind \in {"did", "metadata"} /\ name \in Issuers
  BY <1>4 DEF AnswerOK
<1>5. CASE kind = "w3c" /\ name \in Lists
  <2>1. ListOK(name, v)
    BY <1>5 DEF AnswerOK
  <2>2. ListOK(name, v)'
    BY <1>2, <1>3, <1>5, <2>1 DEF ListOK, AllLists
  <2> QED BY <1>5, <2>2 DEF AnswerOK
<1>6. CASE kind = "ietf" /\ name \in Tokens
  <2>1. TokenOK(name, v)
    BY <1>6 DEF AnswerOK
  <2>2. TokenOK(name, v)'
    BY <1>2, <1>3, <1>6, <2>1 DEF TokenOK, AllLists
  <2> QED BY <1>6, <2>2 DEF AnswerOK
<1>7. CASE kind = "schema" /\ name \in DOMAIN Schemas
  BY <1>7 DEF AnswerOK
<1> QED BY <1>1, <1>4, <1>5, <1>6, <1>7

\* A change of what is published, x, during the batch.
LEMMA ChangeKeeps ==
  ASSUME BatchInv, returned = "no", NEW x, changes' = changes \cup {x},
         UNCHANGED <<args, cache, task, returned, fetched, faults>>, BytesOK',
         keys' \in [Issuers -> Nat \ {0}], \A d \in Issuers : keys[d] <= keys'[d],
         marks' = [l \in AllLists |-> [c \in DOMAIN Slot |-> marks'[l][c]]],
         \A l \in AllLists : \A c \in DOMAIN Slot :
           marks'[l][c] \in Marks(l) /\ (<<l, c>> \notin changes' => marks'[l][c] = marks[l][c])
  PROVE  BatchInv'
<1>0. WorldOK /\ CacheOK /\ OnceOK /\ TasksOK
  BY DEF BatchInv
<1>1. AtFirst' = AtFirst /\ changes' # {} /\ changes \subseteq changes'
  BY DEF AtFirst
<1>2. WorldOK'
  <2>1. \A l \in AllLists : \A c \in DOMAIN Slot : <<l, c>> \notin changes' => marks'[l][c] = AtFirst[l][c]
    BY <1>0, <1>1 DEF WorldOK
  <2> QED BY <1>0, <1>1, <2>1 DEF WorldOK
<1>3. ASSUME NEW l \in AllLists, NEW c \in DOMAIN Slot
      PROVE  Standing'[l][c] = "valid" \/ Standing'[l][c] = Standing[l][c]
  <2>1. Standing[l][c] = IF <<l, c>> \in changes THEN "valid" ELSE AtFirst[l][c]
    BY <1>0, StandingIs
  <2>2. DOMAIN marks'[l] = DOMAIN Slot
    OBVIOUS
  <2>3. Standing'[l][c] = IF <<l, c>> \in changes' THEN "valid" ELSE AtFirst[l][c]
    BY <1>1, <2>2 DEF Standing, AllLists
  <2> QED BY <1>1, <2>1, <2>3
<1>4. \A d \in Issuers : 1..keys[d] \subseteq 1..keys'[d]
  BY <1>0 DEF WorldOK
<1>5. Grows
  <2>1. \A d \in Issuers : SinceTheCall[d] \subseteq SinceTheCall'[d]
    BY <1>4 DEF SinceTheCall
  <2>2. ASSUME NEW l \in AllLists, NEW n, NEW q, q # "valid", Marked(Standing, l, n, q)'
        PROVE  Marked(Standing, l, n, q)
    <3>1. PICK c \in DOMAIN Slot : Slot[c] = n /\ Standing'[l][c] = q
      BY <2>2 DEF Marked
    <3>2. Standing[l][c] = q
      BY <1>3, <2>2, <3>1
    <3> QED BY <3>1, <3>2, Zenon DEF Marked
  <2> QED BY <2>1, <2>2 DEF Grows
<1>6. TasksOK'
  BY <1>0, <1>1, <1>5, TasksGrow
<1>7. CacheOK'
  <2> SUFFICES ASSUME NEW k \in Callables, k \in DOMAIN cache PROVE AnswerOK(k[1], k[2], cache[k])'
    BY DEF CacheOK
  <2>1. AnswerOK(k[1], k[2], cache[k])
    BY <1>0 DEF CacheOK
  <2>2. <<k[1], k[2]>> \in Callables
    BY DEF Callables
  <2>3. \A v : AnswerOK(k[1], k[2], v) => AnswerOK(k[1], k[2], v)'
    BY <1>1, <1>3, <1>4, <2>2, AnswerGrows
  <2> QED BY <2>1, <2>3
<1>8. OnceOK'
  BY <1>0 DEF OnceOK, Sequential
<1> QED BY <1>2, <1>6, <1>7, <1>8 DEF BatchInv

LEMMA RotateKeeps ==
  ASSUME BatchInv, NEW d \in Rotating, Rotate(d)
  PROVE  BatchInv'
<1>0. WorldOK /\ BytesOK
  BY DEF BatchInv
<1>1. /\ returned = "no" /\ keys' = [keys EXCEPT ![d] = keys[d] + 1] /\ changes' = changes \cup {d}
      /\ UNCHANGED <<args, marks, bytes, cache, task, results, returned, fetched, faults>>
  BY DEF Rotate
<1>2. d \in Issuers /\ keys \in [Issuers -> Nat \ {0}]
  BY <1>0, BatchAssumption DEF WorldOK
<1>3. keys' \in [Issuers -> Nat \ {0}] /\ \A b \in Issuers : keys[b] <= keys'[b]
  BY <1>1, <1>2
<1>4. BytesOK'
  BY <1>0, <1>1 DEF BytesOK, Meant
<1>5. /\ marks' = [l \in AllLists |-> [c \in DOMAIN Slot |-> marks'[l][c]]]
      /\ \A l \in AllLists : \A c \in DOMAIN Slot :
           marks'[l][c] \in Marks(l) /\ (<<l, c>> \notin changes' => marks'[l][c] = marks[l][c])
  BY <1>0, <1>1 DEF WorldOK
<1> QED BY <1>1, <1>3, <1>4, <1>5, ChangeKeeps

LEMMA SetStatusKeeps ==
  ASSUME BatchInv, NEW l \in AllLists, NEW c \in DOMAIN Slot, SetStatus(l, c)
  PROVE  BatchInv'
<1>0. WorldOK /\ BytesOK
  BY DEF BatchInv
<1>1. /\ returned = "no" /\ changes' = changes \cup {<<l, c>>}
      /\ UNCHANGED <<args, keys, cache, task, results, returned, fetched, faults>>
  BY DEF SetStatus
<1>2. PICK m \in Marks(l) : Mark(l, c, m)
  BY DEF SetStatus
<1>3. /\ BytesOK'
      /\ marks' = [k \in AllLists |-> [d \in DOMAIN Slot |-> marks'[k][d]]]
      /\ \A k \in AllLists : \A d \in DOMAIN Slot :
           /\ marks'[k][d] = IF k = l /\ d = c THEN m ELSE marks[k][d]
           /\ marks'[k][d] \in Marks(k)
  BY <1>0, <1>2, MarkKeeps
<1>4. \A k \in AllLists : \A d \in DOMAIN Slot :
        marks'[k][d] \in Marks(k) /\ (<<k, d>> \notin changes' => marks'[k][d] = marks[k][d])
  BY <1>1, <1>3
<1>5. keys' \in [Issuers -> Nat \ {0}] /\ \A d \in Issuers : keys[d] <= keys'[d]
  BY <1>0, <1>1 DEF WorldOK
<1> QED BY <1>1, <1>3, <1>4, <1>5, ChangeKeeps

----------------------------------------------------------------------------
(***************************************************************************)
(* The invariant, and what follows from it.                                *)
(***************************************************************************)
LEMMA BatchStarts ==
  ASSUME BatchInit
  PROVE  BatchInv
<1>0. /\ args \in Arguments
      /\ keys = [d \in Issuers |-> 1]
      /\ marks = [l \in Lists \cup Tokens |-> [c \in DOMAIN Slot |-> "valid"]]
      /\ bytes = [l \in Lists \cup Tokens |-> Blank(l)]
      /\ changes = {} /\ cache = <<>> /\ returned = "uncalled" /\ fetched = <<>>
      /\ task = [i \in Items |-> Entered(args.batch[i], 0, Nothing)]
  BY DEF BatchInit
<1>1. DOMAIN cache = {} /\ DOMAIN fetched = {}
  BY <1>0
<1>2. WorldOK
  <2>1. /\ marks = [l \in AllLists |-> [c \in DOMAIN Slot |-> marks[l][c]]]
        /\ \A l \in AllLists : \A c \in DOMAIN Slot : marks[l][c] \in Marks(l)
    BY <1>0 DEF AllLists, Marks
  <2> QED BY <1>0, <1>1, <2>1 DEF WorldOK
<1>3. BytesOK
  <2>1. bytes = [l \in AllLists |-> bytes[l]]
    BY <1>0 DEF AllLists
  <2>2. ASSUME NEW l \in AllLists
        PROVE  bytes[l] \in ByteLists(l) /\ \A n \in 0..(Room(l) - 1) : Meant(marks, l, n, ReadAt(l, bytes[l], n))
    <3>1. bytes[l] = Blank(l)
      BY <1>0 DEF AllLists
    <3>2. bytes[l] \in ByteLists(l) /\ \A n \in 0..(Room(l) - 1) : ReadAt(l, bytes[l], n) = 0
      BY <3>1, BlankReads
    <3>3. \A c \in DOMAIN Slot : Value(l, marks[l][c]) = 0
      BY <1>0 DEF Value, AllLists
    <3>4. \A n : Meant(marks, l, n, 0)
      BY <3>3, Zenon DEF Meant
    <3> QED BY <3>2, <3>4
  <2> QED BY <2>1, <2>2 DEF BytesOK
<1>4. CacheOK /\ OnceOK
  BY <1>1 DEF CacheOK, OnceOK
<1>5. TasksOK
  <2>1. ASSUME NEW i \in Items PROVE TaskOK(i, task[i])
    <3> DEFINE n == args.batch[i]
               t == Entered(n, 0, Nothing)
    <3>1. task[i] = t
      BY <1>0
    <3>2. n \in DOMAIN Credentials
      BY <1>0, CallAssumption DEF Items
    <3>3. t.cred = n /\ t.outer = Nothing
      BY DEF Entered
    <3>4. RoleOK(i, t) /\ EnteredAt(t) = 0
      BY <3>2, <3>3 DEF RoleOK, EnteredAt
    <3> HIDE DEF t
    <3>5. TaskOK(i, t)
      BY <3>2, <3>4, EnteredIs DEF t
    <3> QED BY <3>1, <3>5
  <2> QED BY <1>0, <2>1 DEF TasksOK
<1> QED BY <1>2, <1>3, <1>4, <1>5 DEF BatchInv

LEMMA BatchGoesOn ==
  ASSUME BatchInv, [BatchNext]_batchVars
  PROVE  BatchInv'
<1>1. ASSUME NEW i \in Items, Verification(i) PROVE BatchInv'
  BY <1>1, UnreadableKeeps, CheckProofKeeps, CheckW3cKeeps, CheckIetfKeeps, CheckSchemaKeeps DEF Verification
<1>2. ASSUME NEW l \in Lists \cup Tokens, NEW c \in DOMAIN Slot, SetBefore(l, c) PROVE BatchInv'
  BY <1>2, SetBeforeKeeps DEF AllLists
<1>3. CASE Call
  BY <1>3, QuietKeeps DEF Call
<1>4. CASE Return
  BY <1>4, QuietKeeps DEF Return
<1>5. CASE Over
  BY <1>5, QuietKeeps DEF Over, batchVars
<1>6. ASSUME NEW d \in Rotating, Rotate(d) PROVE BatchInv'
  BY <1>6, RotateKeeps
<1>7. ASSUME NEW b \in Fickle, SetStatus(b[1], b[2]) PROVE BatchInv'
  <2>1. b[1] \in AllLists /\ b[2] \in DOMAIN Slot
    BY BatchAssumption DEF AllLists
  <2> QED BY <1>7, <2>1, SetStatusKeeps
<1>8. CASE UNCHANGED batchVars
  BY <1>8, QuietKeeps DEF batchVars
<1> QED BY <1>1, <1>2, <1>3, <1>4, <1>5, <1>6, <1>7, <1>8 DEF BatchNext

THEOREM BatchIsInvariant == BatchSpec => []BatchInv
<1>1. BatchInit => BatchInv
  BY BatchStarts
<1>2. BatchInv /\ [BatchNext]_batchVars => BatchInv'
  BY BatchGoesOn
<1> QED BY <1>1, <1>2, PTL DEF BatchSpec

(***************************************************************************)
(* verify_many and verify_many_async accept only what the policy asks for, *)
(* whatever issuers publish meanwhile and whatever the cache holds.        *)
(***************************************************************************)
THEOREM AcceptanceIsSound == BatchSpec => []AcceptedIsSound
<1>1. BatchInv => AcceptedIsSound
  BY DEF BatchInv, TasksOK, TaskOK, AcceptedIsSound, Accepted, Whole, FineNow
<1> QED BY <1>1, BatchIsInvariant, PTL

(***************************************************************************)
(* validate_credential_schema under _schema_inner_policy: the schema of an *)
(* accepted credential stands without the caller's waivers.                *)
(***************************************************************************)
THEOREM SchemasAreVouchedFor == BatchSpec => []SchemaIsVouchedFor
<1>1. BatchInv => SchemaIsVouchedFor
  BY DEF BatchInv, TasksOK, TaskOK, SchemaIsVouchedFor, Accepted, Whole
<1> QED BY <1>1, BatchIsInvariant, PTL

(***************************************************************************)
(* verify_many: a credential is rejected for a flaw of its own or a call   *)
(* of its own that failed, never for another one's.                        *)
(***************************************************************************)
THEOREM RejectionsAreJust == BatchSpec => []RejectionsAreOwn
<1>1. BatchInv => RejectionsAreOwn
  BY DEF BatchInv, TasksOK, TaskOK, RejectionsAreOwn, Flawless, Whole, FineNow
<1> QED BY <1>1, BatchIsInvariant, PTL

(***************************************************************************)
(* batch_resolvers: what a callable has answered it is not asked again.    *)
(***************************************************************************)
THEOREM AnswersAreAskedOnce == BatchSpec => []ResolvedOnce
<1>1. BatchInv => ResolvedOnce
  BY DEF BatchInv, OnceOK, ResolvedOnce
<1> QED BY <1>1, BatchIsInvariant, PTL
=============================================================================
