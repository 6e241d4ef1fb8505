----------------------------- MODULE Openid4vp ------------------------------
(***************************************************************************)
(* openvc.openid4vp: a verifier asks for credentials (a DCQL query, a      *)
(* nonce, and its client_id or its web origins), holders make              *)
(* presentations for it and for other verifiers, and whatever reaches it   *)
(* as a vp_token is verified query by query.  The verifier keeps no state: *)
(* one call of verify_vp_token is followed, and the requests that are out  *)
(* exist only as what presentations were made for.                         *)
(*                                                                         *)
(* A W3C credential is who issued it to whom, its types, its audience and  *)
(* expiry, and whether it is sound otherwise (VerifyBatch has the stages   *)
(* of that).  A signature is the name of whoever made it.                  *)
(***************************************************************************)
EXTENDS SdJwt, TLC

CONSTANTS
  Holders,       \* wallets, by the identifier their keys authenticate
  Exchanges,     \* requests: the audience and the nonce each goes by
  Calls,         \* the arguments verify_vp_token is called with and, for each, the
                 \* requests that are out, whether wallets slip and a bound on the
                 \* presentations made
  Templates,     \* SD-JWT claim sets and what issue() is asked to disclose
  Foreign,       \* SD-JWTs that other issuers made
  Vcs,           \* VC-JWT and Data Integrity credentials
  Mdocs,         \* mdoc documents
  Odd,           \* values no wallet of this code makes
  Bad,           \* a JSON value of the wrong type
  MaxTime        \* bound on the clock

ASSUME ExchangeAssumption ==
  /\ MaxTime \in Nat
  /\ \A c \in Calls : c.maxMade \in Nat /\ c.others \subseteq DOMAIN Exchanges

\* None is no error; credentials are told apart by their fields.  An odd
\* value is W3C by its form, but is both a credential and a presentation, or
\* only an envelope.
ASSUME CatalogueAssumption ==
  /\ None \notin {"ok", "expired", "notYet", "jwe", "claims", "malformed", "incomplete"}
  /\ \A i \in DOMAIN Templates : {"typ", "ctx", "plain", "disc"} \subseteq DOMAIN Templates[i].claims
  /\ \A c \in Vcs : c.fmt \in {"jwt", "json"} /\ "disc" \notin DOMAIN c
  /\ \A d \in Mdocs : "disc" \notin DOMAIN d /\ "docType" \in DOMAIN d
  /\ \A o \in Odd : /\ o.form \in {"jwt", "json"}
                    /\ {"vp", "vc"} \subseteq o.says \/ (o.form = "json" /\ o.says = {"enveloped"})

VARIABLES
  now,           \* the clock
  call,          \* how verify_vp_token is called; never changes
  wallet,        \* the SD-JWTs that have been issued
  made,          \* the presentations that have been made
  acts,          \* history: who made which of them, for which exchange, when
  todo,          \* what is left of the vp_token, in its order; None before it
  results,       \* the VerifiedPresentations so far
  verdict        \* None, "ok", or the error that was raised

vars == <<now, call, wallet, made, acts, todo, results, verdict>>

\* Audiences: a client_id, or a web origin under its prefix.
Client(id) == <<"client", id>>
OriginAud(o) == <<"origin", o>>

----------------------------------------------------------------------------
(***************************************************************************)
(* _index_dcql: every query is checked, answered or not.  Bad stands for   *)
(* a value of the wrong type.                                              *)
(***************************************************************************)
DcqlChecks(dcql) ==
  << Check(dcql.queries # <<>> /\ dcql.sets # <<>>,                           "malformed"),
     Check(\A i \in DOMAIN dcql.queries :
             /\ dcql.queries[i].binding \in BOOLEAN
             /\ dcql.queries[i].multiple \in BOOLEAN
             /\ dcql.queries[i].want # Bad,                                 "malformed"),
     Check(dcql.sets # None => \A i \in DOMAIN dcql.sets :
             /\ dcql.sets[i].required \in BOOLEAN
             /\ dcql.sets[i].options # {}
             /\ \A o \in dcql.sets[i].options : o # {} /\ o \subseteq DOMAIN dcql.queries,
                                                                             "malformed") >>

\* An answer to some of an option is enough.
CompleteByPart(dcql, answered) ==
  IF dcql.sets = None THEN DOMAIN dcql.queries \subseteq answered
  ELSE \A i \in DOMAIN dcql.sets :
         dcql.sets[i].required => \E o \in dcql.sets[i].options : o \cap answered # {}

\* _check_completeness: with sets, some option of each required one in full.
Complete(dcql, answered) ==
  IF dcql.sets = None THEN DOMAIN dcql.queries \subseteq answered
  ELSE \A i \in DOMAIN dcql.sets :
         dcql.sets[i].required => \E o \in dcql.sets[i].options : o \subseteq answered

----------------------------------------------------------------------------
(***************************************************************************)
(* The audience: the client_id, or over the Digital Credentials API the    *)
(* one of the verifier's origins that the presentation claims.             *)
(***************************************************************************)
PeekedAudience(q, p) ==
  CASE p.form = "sd" /\ q.format = "dc+sd-jwt"    -> IF p.kb = None THEN {} ELSE {p.kb.aud}
    [] p.form = "jwt" /\ q.format = "jwt_vc_json" -> p.aud
    [] p.form = "json" /\ q.format = "ldp_vc"     -> p.aud
    [] OTHER                                      -> {}

EffectiveAudience(q, p) ==
  LET mine == PeekedAudience(q, p) \cap {OriginAud(o) : o \in call.origins}
  IN  IF call.clientId # None THEN Client(call.clientId)
      ELSE IF mine = {} THEN None ELSE CHOOSE a \in mine : TRUE

----------------------------------------------------------------------------
(***************************************************************************)
(* verify_credential on what a presentation carries, at time `t`; `aud`    *)
(* and `nonce` are the presentation's, which a nested KB-JWT is held to.   *)
(***************************************************************************)
\* _check_status: without a resolver a declared status is passed over, unless
\* the caller requires one.
StatusChecks(s, claims) ==
  << Check("status" \in claims /\ call.statuses => ~ s.revoked,                   "revoked"),
     Check("status" \in claims /\ call.requireStatus => call.statuses,            "status") >>

SdPipeline(p, aud, nonce, required, t) ==
  FirstError(IssuerChecks(p.sd) \o VerifyChecks(p, aud, nonce, required, t)
             \o StatusChecks(p.sd, Claims(p.sd, p.shown)))

\* A nested KB-JWT is held to the policy, which names no audience or nonce.
CascadeUnbound(e, aud, nonce, required, t) ==
  IF e.form = "sd" THEN FirstError(VerifyChecks(e, None, None, FALSE, t))
  ELSE FirstError(<< Check(e.cred.sound, "credential"), Check(e.cred.aud = None, "audience"),
                     Check(t - e.cred.exp <= Leeway, "expired") >>)

Cascade(e, aud, nonce, required, t) ==
  IF e.form = "sd" THEN SdPipeline(e, aud, nonce, required, t)
  ELSE FirstError(<< Check(e.cred.sound, "credential"), Check(e.cred.aud = None, "audience"),
                     Check(t - e.cred.exp <= Leeway, "expired") >>)

\* The subject a VerificationResult reports.
Subject(e) ==
  IF e.form # "sd" THEN e.cred.sub
  ELSE IF "sub" \in Claims(e.sd, e.shown) THEN e.sd.sub ELSE None

\* _check_holder_bound, for one credential.
HolderBound(e, holder) ==
  IF e.form = "sd" THEN KeyBound(e) ELSE ~ e.cred.many /\ e.cred.sub = holder

\* _check_type_values.
TypesMatch(q, creds) ==
  q.want # None =>
    \A i \in DOMAIN creds : creds[i].form # "sd" /\ \E alt \in q.want : alt \subseteq creds[i].cred.types

AllVerify(creds, aud, q, t) ==
  LET errs == [i \in DOMAIN creds |-> Cascade(creds[i], aud, call.nonce, q.binding, t)]
  IN  FirstError([i \in DOMAIN creds |-> Check(errs[i] = "ok", errs[i])])

\* What both W3C lanes ask of the credentials once the holder is known.
CarriedChecks(q, creds, holder, aud, t) ==
  << Check(AllVerify(creds, aud, q, t) = "ok",                              "carried"),
     Check(call.strict => \A i \in DOMAIN creds : Subject(creds[i]) = holder, "holder"),
     Check(creds # <<>>,                                                    "malformed"),
     Check(q.binding => \A i \in DOMAIN creds : HolderBound(creds[i], holder), "holder"),
     Check(TypesMatch(q, creds),                                            "type") >>

----------------------------------------------------------------------------
\* _verify_sd_jwt_vc: an SD-JWT, and an IETF one.
SdLane(q, p, aud, t) ==
  IF p.form # "sd" THEN "malformed"
  ELSE LET e == SdPipeline(p, aud, call.nonce, q.binding, t)
       IN  IF e # "ok" THEN e
           ELSE FirstError(<< Check(p.sd.typ = IetfTyp,                       "malformed"),
                              Check(q.want = None \/ p.sd.vct \in q.want,     "type") >>)

\* VpJwtProofSuite.verify, of the envelope: the key is the one `iss` names.
VpJwtChecks(p, aud, t) ==
  << Check(p.by = p.iss,                            "signature"),
     Check(p.exp # None => t - p.exp < Leeway,      "expired"),
     Check(p.iat - t <= Leeway,                     "notYet"),
     Check(aud \in p.aud,                           "audience"),
     Check(p.nonce = call.nonce,                    "nonce"),
     Check(p.holder \in {None, p.iss},              "holder") >>

\* _verify_jwt_vp.
JwtLane(q, p, aud, t) ==
  IF p.form # "jwt" \/ p.says # {"vp"} THEN "malformed"
  ELSE FirstError(VpJwtChecks(p, aud, t) \o CarriedChecks(q, p.creds, p.iss, aud, t))

\* _verify_ldp_vp: the holder is whoever controls the key of the proof.
LdpLane(q, p, aud, t) ==
  IF p.form # "json" \/ "vp" \notin p.says THEN "malformed"
  ELSE FirstError(<< Check(p.wholeDocument,                         "unsupported"),
                     Check(p.nonce = call.nonce,                    "nonce"),
                     Check(aud \in p.aud,                           "audience"),
                     Check(p.exp # None => t - p.exp <= Leeway,     "expired"),
                     Check(p.holder \in {None, p.by},               "holder") >>
                  \o CarriedChecks(q, p.creds, p.by, aud, t))

\* _w3c_shape: a bare credential only on positive evidence.
ShapeChecks(p) ==
  << Check(p.form \in {"jwt", "json"} => ~ {"vp", "vc"} \subseteq p.says,     "malformed"),
     Check(p.form = "jwt" => p.typ = None \/ {p.typ} = p.says,                "malformed"),
     Check(p.form = "json" => "vp" \in p.says \/ "enveloped" \notin p.says,   "malformed") >>

Bare(q, p) == p.form = (IF q.format = "jwt_vc_json" THEN "jwt" ELSE "json") /\ p.says = {"vc"}

\* _verify_bare_w3c_vc: no holder, no audience, no nonce.
BareLane(q, p, t) ==
  FirstError(<< Check(~ call.strict,                                        "holder"),
                Check(Cascade(p.creds[1], None, None, FALSE, t) = "ok",     "carried"),
                Check(p.creds[1].cred.fmt = p.form,                         "malformed"),
                Check(TypesMatch(q, p.creds),                               "type") >>)

W3cLane(q, p, t) ==
  LET aud == EffectiveAudience(q, p)
  IN  IF FirstError(ShapeChecks(p)) # "ok" THEN "malformed"
      ELSE IF Bare(q, p) THEN IF q.binding THEN "malformed" ELSE BareLane(q, p, t)
      ELSE IF aud = None THEN "audience"
      ELSE IF q.format = "jwt_vc_json" THEN JwtLane(q, p, aud, t)
      ELSE LdpLane(q, p, aud, t)

----------------------------------------------------------------------------
(***************************************************************************)
(* mso_mdoc: issuer data authentication, then DeviceAuth over the session  *)
(* transcript of one origin.  Only a DeviceAuth that fails moves on to the *)
(* next origin.                                                            *)
(***************************************************************************)
Transcript(aud, nonce, thumbprint) == <<aud, nonce, thumbprint>>

\* _verify_device_auth: the key the issuer bound signed this very session, for
\* a document of this type and these device namespaces.
DeviceAuthOK(d, transcript) ==
  /\ d.auth # None /\ d.auth.key = d.doc.device
  /\ d.auth.over = <<transcript, d.doc.docType, d.ns>>

DocumentChecks(q, d, transcript, t) ==
  << Check(q.want = None \/ d.doc.docType = q.want,                           "type"),
     Check(d.doc.sound,                                                       "mdoc"),
     Check(t - d.doc.until <= Leeway,                                         "expired"),
     Check(d.items \subseteq d.doc.digests,                                   "digest"),
     Check(DeviceAuthOK(d, transcript),                                       "deviceAuth") >>

\* verify_device_response against one transcript.
DeviceResponse(q, docs, origin, t) ==
  LET verdicts == [i \in DOMAIN docs |->
                     FirstError(DocumentChecks(q, docs[i], Transcript(OriginAud(origin), call.nonce, call.thumbprint), t))]
  IN  FirstError([i \in DOMAIN docs |-> Check(verdicts[i] = "ok", verdicts[i])])

Documents(q, docs, t) ==
  LET verdicts == {DeviceResponse(q, docs, o, t) : o \in call.origins}
  IN  IF verdicts \subseteq {"ok", "deviceAuth"}
      THEN IF "ok" \in verdicts THEN "ok" ELSE "deviceAuth"
      ELSE CHOOSE v \in verdicts \ {"ok", "deviceAuth"} : TRUE

MdocLane(q, p, t) ==
  IF call.clientId # None THEN "unsupported"
  ELSE IF ~ call.anchors THEN "claims"
  ELSE IF p.form # "mdoc" \/ p.docs = <<>> THEN "malformed"
  ELSE Documents(q, p.docs, t)

\* _verify_one.
VerifyOne(q, p, t) ==
  CASE q.format = "mso_mdoc"                    -> MdocLane(q, p, t)
    [] q.format \in {"jwt_vc_json", "ldp_vc"}   -> W3cLane(q, p, t)
    [] q.format = "dc+sd-jwt" -> LET aud == EffectiveAudience(q, p)
                                 IN  IF aud = None THEN "audience" ELSE SdLane(q, p, aud, t)
    [] OTHER                                    -> "unsupported"

\* _presentation_list, then each presentation of the query.
VerifyAnswer(q, ps, t) ==
  IF ps = <<>> \/ (~ q.multiple /\ Len(ps) # 1) THEN "malformed"
  ELSE LET errs == [i \in DOMAIN ps |-> VerifyOne(q, ps[i], t)]
       IN  FirstError([i \in DOMAIN ps |-> Check(errs[i] = "ok", errs[i])])

----------------------------------------------------------------------------
Init ==
  /\ now = 0
  /\ call \in Calls
  /\ wallet = {} /\ made = {} /\ acts = {}
  /\ todo = None /\ results = <<>> /\ verdict = None

\* The formats the query asks for: a wallet answers with one of them.
Asked == {call.dcql.queries[i].format : i \in DOMAIN call.dcql.queries}

SdAsked == Asked \cap {"dc+sd-jwt", "jwt_vc_json", "ldp_vc"} # {}

\* issue(): a template that may not be issued so is refused.
Issue(i) ==
  /\ todo = None /\ acts = {} /\ "dc+sd-jwt" \in Asked
  /\ wallet = {}
  /\ Issuable(Templates[i].claims, Templates[i].names)
  /\ wallet' = wallet \cup {Issued(Templates[i].claims, Templates[i].names)}
  /\ UNCHANGED <<now, call, made, acts, todo, results, verdict>>

\* A holder h makes p, which presents the credential c, for the exchange x.
Made(h, x, p, c, shown) ==
  /\ todo = None
  /\ Cardinality(acts) < call.maxMade
  /\ \A m \in made : m.form \in {"sd", "mdoc"}   \* a bound: one that embeds others is the last
  /\ made' = made \cup {p}
  /\ acts' = acts \cup {[who |-> h, for |-> x, cred |-> c, shown |-> shown, at |-> now]}
  /\ UNCHANGED <<now, call, wallet, todo, results, verdict>>

\* create_presentation, over some of the disclosures; a wallet of other make
\* may mistype the Key Binding JWT or let it expire.
PresentSd(h, x) ==
  /\ SdAsked
  /\ \E s \in wallet \cup Foreign : \E n \in SUBSET DOMAIN s.disc :
       LET shown == SetToSeq(n)
           kb == KeyBinding(h, s, shown, Exchanges[x].aud, Exchanges[x].nonce, now)
       IN  \E k \in {kb} \cup (IF call.slips THEN {[kb EXCEPT !.typed = FALSE], [kb EXCEPT !.exp = now]}
                               ELSE {}) :
             Made(h, x, [form |-> "sd", sd |-> s, shown |-> shown, kb |-> k], s, shown)

\* What a presentation may embed: credentials, SD-JWTs included, that are about.
Embeddable ==
  {[form |-> "vc", cred |-> c] : c \in Vcs} \cup {p \in made : p.form = "sd"}

Embedded(e) == IF e.form = "sd" THEN <<e.sd, e.shown>> ELSE <<e.cred, <<>>>>

\* VpJwtProofSuite.sign, or a Data Integrity proof over a presentation.
PresentVp(h, x, form) ==
  /\ (IF form = "jwt" THEN "jwt_vc_json" ELSE "ldp_vc") \in Asked
  /\ \E e \in Embeddable, claimed \in Holders, exp \in {None} \cup (IF call.slips THEN {now + 1} ELSE {}) :
       Made(h, x, [form |-> form, says |-> {"vp"}, typ |-> None, by |-> h, iss |-> claimed,
                   holder |-> claimed, wholeDocument |-> TRUE, aud |-> {Exchanges[x].aud},
                   nonce |-> Exchanges[x].nonce, iat |-> now, exp |-> exp, creds |-> <<e>>],
            Embedded(e)[1], Embedded(e)[2])

PresentMdoc(h, x) ==
  /\ "mso_mdoc" \in Asked
  /\ \E d \in Mdocs : \E items, ns \in SUBSET d.digests :
       LET session == Transcript(Exchanges[x].aud, Exchanges[x].nonce, Exchanges[x].thumbprint)
           auth == [key |-> h, over |-> <<session, d.docType, ns>>]
       IN  Made(h, x, [form |-> "mdoc", docs |-> <<[doc |-> d, items |-> items, ns |-> ns, auth |-> auth]>>],
                d, ns)

Tick ==
  /\ now < MaxTime /\ verdict = None
  /\ now' = now + 1
  /\ UNCHANGED <<call, wallet, made, acts, todo, results, verdict>>

----------------------------------------------------------------------------
\* A bare credential: nobody signs anything.
BareVc(c) == [form |-> c.fmt, says |-> {"vc"}, typ |-> None, aud |-> {},
              creds |-> <<[form |-> "vc", cred |-> c]>>]

\* What may arrive: what was made, also with its KB-JWT or some of its
\* disclosures left off, two responses in one, a DeviceAuth under another
\* document or other device namespaces, bare credentials where W3C ones are
\* asked for, and what no wallet makes.
Arriving ==
  made
  \cup (IF Asked \cap {"jwt_vc_json", "ldp_vc"} # {} THEN Odd \cup {BareVc(c) : c \in Vcs} ELSE {})
  \cup {[p EXCEPT !.kb = None] : p \in {m \in made : m.form = "sd"}}
  \cup {[p EXCEPT !.shown = <<>>] : p \in {m \in made : m.form = "sd"}}
  \cup {[form |-> "mdoc", docs |-> p.docs \o r.docs] : p, r \in {m \in made : m.form = "mdoc"}}
  \cup {[form |-> "mdoc", docs |-> <<[doc |-> d, items |-> p.docs[1].items, ns |-> ns,
                                      auth |-> p.docs[1].auth]>>] :
           p \in {m \in made : m.form = "mdoc"}, d \in Mdocs, ns \in UNION {SUBSET e.digests : e \in Mdocs}}

Tokens ==
  {<<[id |-> i, ps |-> ps]>> : i \in DOMAIN call.dcql.queries,
                               ps \in {<<p>> : p \in Arriving} \cup {<<p, r>> : p, r \in made}}
  \cup {<<[id |-> 1, ps |-> <<p>>], [id |-> 0, ps |-> <<p>>]>> : p \in made}   \* 0 names no query
  \cup {<<[id |-> ij[1], ps |-> <<p>>], [id |-> ij[2], ps |-> <<r>>]>> :
          ij \in {k \in (DOMAIN call.dcql.queries) \X (DOMAIN call.dcql.queries) : k[1] < k[2]},
          p, r \in made}

(***************************************************************************)
(* verify_vp_token up to its loop, or verify_encrypted_vp_response, which  *)
(* decrypts with the verifier's key first.                                 *)
(***************************************************************************)
\* decrypt_compact: a response in the clear has no key.
Decrypts(to) == to = call.encryptTo

ReceiveChecks(to, token) ==
  << Check(Decrypts(to),                                                   "jwe"),
     Check((call.clientId = None) # (call.origins = {}),                   "claims"),
     Check(token # <<>>,                                                   "malformed") >>
  \o DcqlChecks(call.dcql)
  \o << Check(Complete(call.dcql, {token[i].id : i \in DOMAIN token}),    "incomplete") >>

Receive(to, token) ==
  LET e == FirstError(ReceiveChecks(to, token))
  IN  /\ todo = None
      /\ todo' = token
      /\ verdict' = IF e = "ok" THEN None ELSE e
      /\ UNCHANGED <<now, call, wallet, made, acts, results>>

\* The loop: a failure of any presentation rejects the whole response.
VerifyNext ==
  /\ todo # None /\ verdict = None
  /\ IF todo = <<>> THEN verdict' = "ok" /\ UNCHANGED <<todo, results>>
     ELSE LET a == Head(todo)
              e == IF a.id \in DOMAIN call.dcql.queries
                   THEN VerifyAnswer(call.dcql.queries[a.id], a.ps, now) ELSE "malformed"
          IN  IF e = "ok"
              THEN /\ todo' = Tail(todo)
                   /\ results' = Append(results, [answer |-> a, at |-> now])
                   /\ verdict' = None
              ELSE verdict' = e /\ UNCHANGED <<todo, results>>
  /\ UNCHANGED <<now, call, wallet, made, acts>>

Next ==
  \/ \E i \in DOMAIN Templates : Issue(i)
  \/ \E h \in Holders, x \in call.others :
       \/ PresentSd(h, x)
       \/ \E form \in {"jwt", "json"} : PresentVp(h, x, form)
       \/ PresentMdoc(h, x)
  \/ Tick
  \/ \E to \in {None, call.encryptTo}, token \in Tokens : Receive(to, token)
  \/ VerifyNext

Spec == Init /\ [][Next]_vars

----------------------------------------------------------------------------
\* The credentials of an accepted presentation, with whose each is.
Carried(p) ==
  CASE p.form = "sd"   -> {[cred |-> p.sd, shown |-> p.shown, owner |-> p.sd.cnf]}
    [] p.form = "mdoc" -> {[cred |-> p.docs[i].doc, shown |-> p.docs[i].ns, owner |-> p.docs[i].doc.device] :
                             i \in DOMAIN p.docs}
    [] OTHER -> {[cred |-> Embedded(p.creds[i])[1], shown |-> Embedded(p.creds[i])[2],
                  owner |-> IF p.creds[i].form = "sd" THEN p.creds[i].sd.cnf
                            ELSE p.creds[i].cred.sub] : i \in DOMAIN p.creds}

Accepted == IF verdict = "ok" THEN Range(results) ELSE {}

MyAudiences ==
  IF call.clientId # None THEN {Client(call.clientId)} ELSE {OriginAud(o) : o \in call.origins}

ForMe(x) == Exchanges[x].nonce = call.nonce /\ Exchanges[x].aud \in MyAudiences

\* An mdoc is known by its type: a DeviceAuth does not say which document of
\* that type it is for.
SameCredential(c, d) ==
  IF "docType" \in DOMAIN c THEN "docType" \in DOMAIN d /\ d.docType = c.docType ELSE d = c

PresentedBy(c, at) ==
  \E a \in acts :
    /\ SameCredential(c.cred, a.cred) /\ a.shown = c.shown /\ a.who = c.owner /\ ForMe(a.for)
    /\ "disc" \in DOMAIN c.cred => at - a.at <= KbMaxAge + Leeway

(***************************************************************************)
(* "Every Presentation is cryptographically holder-bound": what is         *)
(* accepted under a query that does not waive it was presented by the      *)
(* holder it was issued to, for this exchange (its nonce and its           *)
(* audience); an SD-JWT with these disclosures and not too long ago.  Of   *)
(* an mdoc, its holder presented one of that type with these device        *)
(* namespaces, and its issuer bound both to the same device key.           *)
(***************************************************************************)
PresentedByItsHolder ==
  \A r \in Accepted :
    call.dcql.queries[r.answer.id].binding \/ call.dcql.queries[r.answer.id].format = "mso_mdoc" =>
      \A i \in DOMAIN r.answer.ps : \A c \in Carried(r.answer.ps[i]) : PresentedBy(c, r.at)

TypeOf(q, p) ==
  CASE q.format = "dc+sd-jwt" -> p.form = "sd" /\ p.sd.vct \in q.want
    [] q.format = "mso_mdoc"  -> \A i \in DOMAIN p.docs : p.docs[i].doc.docType = q.want
    [] OTHER -> \A i \in DOMAIN p.creds :
                  p.creds[i].form = "vc" /\ \E alt \in q.want : alt \subseteq p.creds[i].cred.types

(***************************************************************************)
(* "The set of Presentations returned satisfies all requirements": an      *)
(* accepted response answers every required query or set with what was     *)
(* verified, and nothing rides along: each credential in it is of a type   *)
(* its query names.                                                        *)
(***************************************************************************)
AnswersTheQuery ==
  verdict = "ok" =>
    /\ LET answered == {r.answer.id : r \in Accepted}
       IN  IF call.dcql.sets = None THEN answered = DOMAIN call.dcql.queries
           ELSE \A i \in DOMAIN call.dcql.sets :
                  call.dcql.sets[i].required => \E o \in call.dcql.sets[i].options : o \subseteq answered
    /\ \A r \in Accepted :
         LET q == call.dcql.queries[r.answer.id]
         IN  /\ ~ q.multiple => Len(r.answer.ps) = 1
             /\ q.want # None => \A i \in DOMAIN r.answer.ps : TypeOf(q, r.answer.ps[i])

\* Every claim of the issuer's, in the clear or not.
Asserted(s) == s.plain \cup {s.disc[d].top : d \in DOMAIN s.disc}

(***************************************************************************)
(* "Claims that must never sit in a disclosure": of a credential that      *)
(* issue() made, no choice of disclosures hides that it has expired or     *)
(* been revoked, or is not valid yet: what the issuer asserted of that is  *)
(* what was checked.  Of a status that holds where statuses are looked up  *)
(* or required: by default verify_vp_token passes over a declared one.     *)
(***************************************************************************)
WithholdingHidesNothing ==
  \A r \in Accepted : \A i \in DOMAIN r.answer.ps :
    LET p == r.answer.ps[i]
        sds == IF p.form = "sd" THEN {p}
               ELSE IF p.form = "mdoc" THEN {} ELSE {e \in Range(p.creds) : e.form = "sd"}
    IN  \A e \in sds : e.sd \in wallet =>
          /\ (call.statuses \/ call.requireStatus) /\ "status" \in Asserted(e.sd) => ~ e.sd.revoked
          /\ "exp" \in Asserted(e.sd) => r.at - e.sd.exp < Leeway
          /\ "nbf" \in Asserted(e.sd) => e.sd.nbf - r.at <= Leeway
          /\ e.sd.ctx # "none" /\ "validFrom" \in Asserted(e.sd) => e.sd.from - r.at <= Leeway
          /\ e.sd.ctx # "none" /\ "validUntil" \in Asserted(e.sd) => r.at - e.sd.until <= Leeway

(***************************************************************************)
(* "An expired (or not-yet-valid) issuer JWT still has its holder binding  *)
(* checked, so a temporal failure means the presentation was bound": when  *)
(* an answer to a query for an SD-JWT that requires binding ends with one, *)
(* each presentation in it that fails so was made by its holder, with      *)
(* these disclosures, for this exchange and not too long ago.              *)
(***************************************************************************)
Temporal == {"expired", "notYet"}

ExpiredMeansBound ==
  verdict \in Temporal /\ Head(todo).id \in DOMAIN call.dcql.queries =>
    LET q == call.dcql.queries[Head(todo).id]
        ps == Head(todo).ps
    IN  q.format = "dc+sd-jwt" /\ q.binding =>
          \A i \in DOMAIN ps : VerifyOne(q, ps[i], now) \in Temporal =>
            \A c \in Carried(ps[i]) : PresentedBy(c, now)
=============================================================================
