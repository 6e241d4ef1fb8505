------------------------------- MODULE SdJwt --------------------------------
(***************************************************************************)
(* openvc.proof.sd_jwt: what an issuer may make disclosable, how the       *)
(* disclosures a holder presents are put back, and what a verifier makes   *)
(* of the result and of its Key Binding JWT.                               *)
(*                                                                         *)
(* An issuer JWT `s` is a record: who signed it and whether the signature  *)
(* is good, its typ, where its @context names the VCDM base ("first",      *)
(* "later", "none"), the claims in the clear, and its disclosures.  One of *)
(* these has the claim it is or lies under (`top`), the claim it names,    *)
(* the disclosures whose values enclose its digest and its depth.  Digests *)
(* are the names of the disclosures: a hash has no collisions.             *)
(***************************************************************************)
EXTENDS Integers, Sequences, FiniteSets, SequencesExt, Checks

CONSTANTS
  Leeway,      \* clock skew tolerated, in ticks
  KbMaxAge,    \* age of a Key Binding JWT that is still fresh
  MaxDepth,    \* nesting that is still unpacked
  None

ASSUME SdJwtAssumption == Leeway \in Nat /\ KbMaxAge \in Nat /\ MaxDepth \in Nat

IetfTyp == "dc+sd-jwt"
W3cTyps == {"vc+sd-jwt", "vc+ld+json+sd-jwt"}

----------------------------------------------------------------------------
(***************************************************************************)
(* What may never be disclosable: a holder could withhold it, and nobody   *)
(* can tell a withheld disclosure from a decoy.                            *)
(***************************************************************************)
NonDisclosable ==
  {"iss", "nbf", "exp", "cnf", "vct", "vct#integrity", "aka_vcts", "status",
   "credentialStatus", "@context"}

VcdmValidity == {"validFrom", "validUntil", "issuanceDate", "expirationDate"}

\* The VCDM window is forgotten.
RefusedIetfOnly(name, vcdm) == name \in NonDisclosable

Refused(name, vcdm) == name \in NonDisclosable \/ (vcdm /\ name \in VcdmValidity)

\* issue(): the template's claims, some of them moved to disclosures.
Issuable(s, names) ==
  /\ {"iss", "vct"} \subseteq s.plain
  /\ s.aka # "bad"
  /\ \A n \in names : n \in s.plain /\ ~ Refused(n, s.ctx # "none")

Issued(s, names) ==
  [s EXCEPT !.typ = IetfTyp,
            !.plain = @ \ names,
            !.disc = [n \in names |-> [top |-> n, name |-> n, above |-> {}, depth |-> 1]]]

----------------------------------------------------------------------------
(***************************************************************************)
(* _index_disclosures and _unpack.  A presented disclosure is used when    *)
(* its digest is in the payload or in the value of one that is used.       *)
(***************************************************************************)
Used(s, shown) ==
  {d \in Range(shown) \cap DOMAIN s.disc : s.disc[d].above \subseteq Range(shown)}

\* The processed payload, as the set of its top-level claims.
Claims(s, shown) ==
  s.plain \cup {s.disc[d].top : d \in {e \in Used(s, shown) : s.disc[e].above = {}}}

\* A disclosure that names a claim its node has already.
Overwrites(s, shown) ==
  \E d \in Used(s, shown) :
    \/ s.disc[d].above = {} /\ s.disc[d].name \in s.plain
    \/ \E e \in Used(s, shown) \ {d} :
         s.disc[e].above = s.disc[d].above /\ s.disc[e].name = s.disc[d].name

\* Where each disclosure landed: the claim it is, or lies under.
Placed(s, shown) == {s.disc[d].top : d \in Used(s, shown)}

UnpackChecks(s, shown) ==
  << Check(Cardinality(Range(shown)) = Len(shown),                     "duplicate"),
     Check(\A d \in Used(s, shown) : s.disc[d].depth <= MaxDepth,      "depth"),
     Check(~ Overwrites(s, shown),                                     "overwrite"),
     Check(Range(shown) \subseteq Used(s, shown),                      "unreferenced"),
     Check(\A n \in Placed(s, shown) : ~ Refused(n, s.ctx # "none"),   "disclosed") >>

----------------------------------------------------------------------------
(***************************************************************************)
(* The issuer: `iss`, or the VCDM `issuer` of a W3C payload without one.   *)
(***************************************************************************)
MayUseVcdmIssuer(s) == "iss" \notin s.plain /\ (s.typ = None \/ s.typ \in W3cTyps)

HasIssuer(s) == IF MayUseVcdmIssuer(s) THEN s.issuer = "one" ELSE "iss" \in s.plain

\* _vcdm_nonconformity and the typ rules: what says it is a W3C credential
\* must be one.
TypChecks(s, claims) ==
  << Check(s.typ = IetfTyp \/ s.ctx # "none",                               "notVcdm"),
     Check(s.typ = None => claims \cap {"vc", "vp"} = {},                   "vcClaim"),
     Check(s.typ = IetfTyp \/ s.ctx = "first",                              "context"),
     Check(s.typ = IetfTyp \/ ("type" \in claims /\ s.credential),          "type"),
     Check(s.typ = IetfTyp => "vct" \in claims,                             "vct") >>

\* check_jwt_temporal at `t`, on the claims that are there.
TemporalChecks(s, claims, t) ==
  << Check("exp" \in claims => t - s.exp < Leeway,                           "expired"),
     Check("nbf" \in claims => s.nbf - t <= Leeway,                          "notYet"),
     Check("iat" \in claims => s.iat - t <= Leeway,                          "notYet") >>

\* check_validity_window, of a payload that declares itself VCDM.
WindowChecks(s, claims, t) ==
  << Check(s.ctx # "none" /\ "validFrom" \in claims => s.from - t <= Leeway,     "notYet"),
     Check(s.ctx # "none" /\ "validUntil" \in claims => t - s.until <= Leeway,   "expired") >>

\* check_jwt_audience with require_present=False.
AudienceOK(s, claims, aud) == "aud" \in claims => aud # None /\ aud \in s.aud

\* The issuer JWT's own checks, before and after the disclosures are unpacked.
HeaderChecks(s) ==
  << Check(s.alg,                                                     "algorithm"),
     Check(s.typ = None \/ s.typ = IetfTyp \/ s.typ \in W3cTyps,      "typ"),
     Check(s.genuine,                                                 "signature") >>

IssuerChecks(s) == << Check(HasIssuer(s), "issuer") >>

PayloadChecks(s, shown, aud, t) ==
  LET claims == Claims(s, shown)
  IN  TypChecks(s, claims)
      \o TemporalChecks(s, claims, t)
      \o << Check(AudienceOK(s, claims, aud), "audience") >>
      \o WindowChecks(s, claims, t)
      \o << Check(s.ctx # "none" => s.consistent,          "conflict"),
            Check(s.aka # "bad",                           "aka") >>

----------------------------------------------------------------------------
(***************************************************************************)
(* The Key Binding JWT.  create_presentation signs the audience, the nonce *)
(* and a hash of exactly what is presented; other wallets may get its      *)
(* header wrong (`typed`) or give it a window of its own (`exp`).          *)
(***************************************************************************)
KeyBinding(key, s, shown, aud, nonce, t) ==
  [key |-> key, aud |-> aud, nonce |-> nonce, iat |-> t, over |-> <<s, shown>>,
   typed |-> TRUE, exp |-> None]

\* check_iat_freshness.
Fresh(iat, t) == t - iat <= KbMaxAge + Leeway /\ iat - t <= Leeway

\* typ, alg and crit of its header, and its own window, whose failure is not
\* called an expiry.
KbChecks(p, aud, nonce, t) ==
  << Check(p.kb.typed,                                 "kbHeader"),
     Check("cnf" \in p.sd.plain,                       "cnf"),
     Check(p.kb.key = p.sd.cnf,                        "kbSignature"),
     Check(Fresh(p.kb.iat, t),                         "kbAge"),
     Check(p.kb.exp # None => t - p.kb.exp < Leeway,   "kbWindow"),
     Check(aud # None => p.kb.aud = aud,               "kbAudience"),
     Check(nonce # None => p.kb.nonce = nonce,         "kbNonce"),
     Check(p.kb.over = <<p.sd, p.shown>>,              "kbHash") >>

\* _verify_key_binding: half a binding is none.
KeyBindingChecks(p, aud, nonce, required, t) ==
  << Check(required => aud # None /\ nonce # None,                     "unbound"),
     Check(required => p.kb # None,                                    "noKb"),
     Check(p.kb # None => (aud = None) = (nonce = None),               "halfBound") >>
  \o (IF p.kb = None THEN <<>> ELSE KbChecks(p, aud, nonce, t))

(***************************************************************************)
(* verify().  Where key binding is required it is checked before the       *)
(* temporal claims, elsewhere after everything.                            *)
(***************************************************************************)
\* The hosted order whatever is required.
VerifyChecksHosted(p, aud, nonce, required, t) ==
  HeaderChecks(p.sd) \o TemporalChecks(p.sd, p.sd.plain, t) \o IssuerChecks(p.sd)
  \o UnpackChecks(p.sd, p.shown) \o PayloadChecks(p.sd, p.shown, aud, t)
  \o KeyBindingChecks(p, aud, nonce, required, t)

VerifyChecks(p, aud, nonce, required, t) ==
  LET s == p.sd
      times == TemporalChecks(s, s.plain, t)
      kb == KeyBindingChecks(p, aud, nonce, required, t)
      rest == UnpackChecks(s, p.shown) \o PayloadChecks(s, p.shown, aud, t)
  IN  HeaderChecks(s)
      \o (IF required THEN IssuerChecks(s) \o kb \o times \o rest
          ELSE times \o IssuerChecks(s) \o rest \o kb)

SdJwtVerify(p, aud, nonce, required, t) == FirstError(VerifyChecks(p, aud, nonce, required, t))

KeyBound(p) == p.kb # None
=============================================================================
