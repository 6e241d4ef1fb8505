--------------------------- MODULE RpRegistration ---------------------------
(***************************************************************************)
(* openvc.rp_cert and openvc.rp_registration: the access certificate of a  *)
(* relying party (WRPAC), its registration certificate (WRPRC), and the    *)
(* two checks that turn them into an answer to "may it ask for this?".     *)
(*                                                                         *)
(* A claim path is a sequence of names, None being the array wildcard.  A  *)
(* `meta` is a function from constraint names to [list, vals], Malformed   *)
(* when it is not an object.                                               *)
(***************************************************************************)
EXTENDS X509

CONSTANTS
  Malformed,     \* a JSON value that is not of the type it should have
  Leeway, MaxValidity

----------------------------------------------------------------------------
(***************************************************************************)
(* The access certificate.                                                 *)
(***************************************************************************)
\* The single value of a subject attribute; absent and blank are None.
SubjectValue(values) == IF values = <<>> \/ values[1] = "" THEN None ELSE values[1]

\* parse_rp_access_certificate: none of the four attributes is given twice.
SingleValued(cert) ==
  /\ Len(Certs[cert].ids) <= 1 /\ Len(Certs[cert].names) <= 1
  /\ {"organization", "country"} \cap Certs[cert].twice = {}

VerifyAccess(cert, inter, anchors, eku, at) ==
  FirstError(<< Check(ValidateCertChain(cert, inter, anchors, at), "path"),
                Check(SingleValued(cert), "subject"),
                Check(eku # None => eku \in Certs[cert].eku, "eku") >>)

AccessOf(cert) == [id |-> SubjectValue(Certs[cert].ids), name |-> SubjectValue(Certs[cert].names)]

----------------------------------------------------------------------------
(***************************************************************************)
(* The registration certificate: its envelope in two forms, its signer,    *)
(* its dates, its entitlement.                                             *)
(***************************************************************************)
AllowedAlgs == {"ES256", "ES384", "EdDSA", "Ed25519"}

\* verify_signature: the algorithms a key signs with.
AlgsOf(key) ==
  CASE key = "P-256" -> {"ES256"}
    [] key = "P-384" -> {"ES384"}
    [] key = "Ed25519" -> {"EdDSA", "Ed25519"}
    [] OTHER -> {}

SignatureOK(reg, leaf) == reg.signedBy = leaf /\ reg.alg \in AlgsOf(Certs[leaf].key)

Understood == {"sigT", "b64"}

HeaderParams(reg) ==
  {"alg", "typ", "x5c"} \cup {p \in Understood : reg[p] # None}

\* The values of sigT and b64 are checked whether or not crit names them.
JwtEnvelopeOK(reg) ==
  /\ reg.typ = "rc-wrp+jwt"
  /\ reg.alg \in AllowedAlgs
  /\ CritOK(reg.crit, JadesParams \cup Understood, HeaderParams(reg))
  /\ reg.crit # None => \A m, n \in DOMAIN reg.crit : reg.crit[m] = reg.crit[n] => m = n
  /\ reg.sigT \in {None, "utc"}
  /\ reg.b64 \in {None, "true"}

\* A claim under its integer and its text key at once is refused.
CwtEnvelopeOK(reg) ==
  reg.typ = "rc-wrp+cwt" /\ reg.alg \in AllowedAlgs \ {"Ed25519"} /\ ~ reg.twice

EnvelopeOK(reg) ==
  \/ reg.form = "jwt" /\ JwtEnvelopeOK(reg)
  \/ reg.form = "cwt" /\ CwtEnvelopeOK(reg)

DatesOK(reg) == Malformed \notin {reg.iat, reg.nbf, reg.exp}

NotBefore(reg) == IF reg.nbf # None THEN reg.nbf ELSE reg.iat

TemporalOK(reg, policy, at) ==
  /\ policy.requireExpiry => reg.exp # None
  /\ reg.exp # None => at - reg.exp <= Leeway
  /\ NotBefore(reg) # None => NotBefore(reg) - at <= Leeway
  /\ reg.exp # None /\ reg.iat # None => reg.exp - reg.iat <= MaxValidity

VerifyRegistration(reg, policy, anchors, at) ==
  LET leaf == reg.chain[1]
      rest == {reg.chain[n] : n \in 2..Len(reg.chain)} \cup policy.intermediates
  IN  FirstError(<< Check(anchors # {}, "anchors"),
                    Check(EnvelopeOK(reg), "envelope"),
                    Check(reg.chain # <<>>, "chain"),
                    Check(reg.chain # <<>> => ValidateCertChain(leaf, rest, anchors, at), "path"),
                    Check(reg.chain # <<>> /\ policy.eku # None => policy.eku \in Certs[leaf].eku, "eku"),
                    Check(reg.chain # <<>> => UsableKey(leaf), "key"),
                    Check(reg.chain # <<>> => SignatureOK(reg, leaf), "signature"),
                    Check(DatesOK(reg), "dates"),
                    Check(DatesOK(reg) => TemporalOK(reg, policy, at), "temporal"),
                    Check(policy.requireEntitlement => reg.entitled, "entitlement") >>)

----------------------------------------------------------------------------
(***************************************************************************)
(* check_matches_access_certificate: an identifier missing on either side  *)
(* is no match.                                                            *)
(***************************************************************************)
Blank(v) == v \in {None, ""}

MatchesAccess(reg, access, policy) ==
  /\ ~ Blank(reg.sub) /\ access.id # None /\ reg.sub = access.id
  /\ policy.matchName => /\ ~ Blank(reg.name) /\ access.name # None
                         /\ reg.name = access.name

----------------------------------------------------------------------------
(***************************************************************************)
(* check_request_within_registration.                                      *)
(***************************************************************************)
\* What an entry grants: `claim`, and `claims` only when there is no `claim`.
RegisteredPaths(entry) ==
  CASE entry.claim # None -> entry.claim
    [] entry.claim = None /\ entry.claims # None -> entry.claims
    [] OTHER -> {}

\* What the query says under `claims`, or failing that under `claim`.
RequestedPathsFirst(query) ==
  CASE query.claim # None -> query.claim
    [] query.claim = None /\ query.claims # None -> query.claims
    [] OTHER -> {}

\* What a query asks for: both spellings.
RequestedPaths(query) ==
  UNION {p \in {query.claims, query.claim} : p # None}

PathCovered(registered, requested) ==
  /\ registered # <<>>
  /\ Len(registered) <= Len(requested)
  /\ \A n \in DOMAIN registered : registered[n] # None => registered[n] = requested[n]

MetaCovered(registered, requested) ==
  /\ registered # Malformed
  /\ DOMAIN requested = {} => DOMAIN registered = {}
  /\ \A k \in DOMAIN requested :
       /\ k \in DOMAIN registered
       /\ requested[k].list => registered[k].list
       /\ requested[k].vals \subseteq registered[k].vals

NoMeta == [k \in {} |-> None]

QueryCovered(reg, query) ==
  LET meta == IF query.meta = Malformed THEN NoMeta ELSE query.meta
      able == {e \in reg.credentials : /\ ~ Blank(e.format) /\ e.format = query.format
                                       /\ MetaCovered(e.meta, meta)}
  IN  /\ ~ Blank(query.format)
      /\ able # {}
      /\ RequestedPaths(query) # {}
      /\ \A p \in RequestedPaths(query) :
           \E e \in able : \E r \in RegisteredPaths(e) : PathCovered(r, p)

WithinRegistration(reg, queries, use) ==
  /\ use # None => reg.use = use
  /\ queries # {}
  /\ \A q \in queries : QueryCovered(reg, q)
=============================================================================
