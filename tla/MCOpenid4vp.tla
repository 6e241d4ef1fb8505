---------------------------- MODULE MCOpenid4vp -----------------------------
(***************************************************************************)
(* Two holders; requests that differ from the call's in the nonce, in the  *)
(* verifier or in the channel alone; a catalogue of credentials and queries *)
(* in which each rule of the verifier decides a case.                      *)
(***************************************************************************)
EXTENDS Openid4vp

CONSTANTS ann, ben

\* "mine" is the call's own request and "mineDc" its own over the Digital
\* Credentials API; "other" is another session of the same verifier, "away" and
\* "awayDc" are another verifier that passed the nonce on.
Ask(aud, nonce) == [aud |-> aud, nonce |-> nonce, thumbprint |-> None]

ExchangesAll ==
  [mine   |-> Ask(Client("rp"), "n1"),        mineDc |-> Ask(OriginAud("rp"), "n1"),
   other  |-> Ask(Client("rp"), "n2"),        away   |-> Ask(Client("elsewhere"), "n1"),
   awayDc |-> Ask(OriginAud("elsewhere"), "n1"), here2 |-> Ask(OriginAud("rp2"), "n1")]

SdBase ==
  [iss |-> "gov", issuer |-> "one", genuine |-> TRUE, alg |-> TRUE, typ |-> IetfTyp, ctx |-> "none",
   credential |-> TRUE, consistent |-> TRUE, vct |-> "pid", aka |-> "none", cnf |-> ann, sub |-> ann,
   exp |-> 9, nbf |-> 0, iat |-> 0, from |-> 0, until |-> 9, revoked |-> FALSE, aud |-> {Client("rp")},
   plain |-> {"iss", "vct", "cnf", "sub", "name", "exp", "status"},
   disc |-> [n \in {} |-> None]]

W3cBase == [SdBase EXCEPT !.ctx = "first", !.plain = @ \cup {"@context", "type", "validFrom", "validUntil"}]

Expiring == [SdBase EXCEPT !.exp = 0]
Revoked == [SdBase EXCEPT !.revoked = TRUE]
Early == [Revoked EXCEPT !.nbf = 1, !.plain = @ \cup {"nbf"}]

\* What issue() is asked for: one claim that may be disclosed, and ones that
\* may not.
TemplatesAll ==
  << [claims |-> SdBase, names |-> {"name", "sub"}],
     [claims |-> Expiring, names |-> {"name"}],
     [claims |-> Expiring, names |-> {"exp"}],
     [claims |-> Early, names |-> {"name"}],
     [claims |-> Early, names |-> {"nbf"}],
     [claims |-> Revoked, names |-> {"status"}],
     [claims |-> [W3cBase EXCEPT !.until = 0], names |-> {"validUntil"}],
     [claims |-> [W3cBase EXCEPT !.from = 1], names |-> {"validFrom"}] >>

Nested(top, above) == [top |-> top, name |-> "inner", above |-> above, depth |-> Cardinality(above) + 2]

\* What other issuers made: a W3C credential, one whose address is disclosed
\* in two levels and one with a sub-claim of status in a disclosure.
ForeignAll ==
  { [W3cBase EXCEPT !.typ = "vc+sd-jwt", !.plain = @ \ {"iss", "vct"}],
    [SdBase EXCEPT !.plain = @ \cup {"aud"},
       !.disc = [n \in {"address", "street"} |->
                   IF n = "address" THEN [top |-> n, name |-> n, above |-> {}, depth |-> 1]
                   ELSE Nested("address", {"address"})]],
    [SdBase EXCEPT !.disc = [n \in {"idx"} |-> [top |-> "status", name |-> n, above |-> {}, depth |-> 2]]] }

VcBase == [fmt |-> "jwt", sub |-> ann, many |-> FALSE, sound |-> TRUE, types |-> {"VC", "Degree"},
           aud |-> None, exp |-> 9]

VcsAll ==
  { VcBase, [VcBase EXCEPT !.fmt = "json", !.types = {"VC"}],
    [VcBase EXCEPT !.many = TRUE, !.exp = 1], [VcBase EXCEPT !.sub = None, !.aud = Client("rp")] }

MdocsAll ==
  { [docType |-> "mdl", sound |-> TRUE, until |-> 9, digests |-> {"age"}, device |-> ann],
    [docType |-> "mdl", sound |-> TRUE, until |-> 9, digests |-> {}, device |-> ann],
    [docType |-> "other", sound |-> TRUE, until |-> 9, digests |-> {}, device |-> ben] }

OddAll ==
  { [form |-> "jwt", says |-> {"vp", "vc"}, typ |-> None, aud |-> {Client("rp")}],
    [form |-> "json", says |-> {"enveloped"}, typ |-> None, aud |-> {Client("rp")}] }

Q(format, binding, want) == [format |-> format, binding |-> binding, multiple |-> FALSE, want |-> want]

Dcql(qs, sets) == [queries |-> qs, sets |-> sets]

Redirect(dcql) == [dcql |-> dcql, nonce |-> "n1", clientId |-> "rp", origins |-> {}, strict |-> FALSE,
                   anchors |-> TRUE, statuses |-> TRUE, requireStatus |-> FALSE,
                   thumbprint |-> None, encryptTo |-> None, others |-> {"mine", "other", "away"},
                   slips |-> FALSE, maxMade |-> 2]
DcApi(dcql) == [Redirect(dcql) EXCEPT !.clientId = None, !.origins = {"rp", "rp2"},
                                        !.others = {"mine", "mineDc", "awayDc", "here2"}]

Sd == Q("dc+sd-jwt", TRUE, {"pid"})
Jwt == Q("jwt_vc_json", TRUE, {{"Degree"}})
Ldp == Q("ldp_vc", TRUE, None)
Mdl == Q("mso_mdoc", TRUE, "mdl")

CallsAll ==
  { [Redirect(Dcql(<<Sd>>, None)) EXCEPT !.maxMade = 1, !.slips = TRUE],
    [Redirect(Dcql(<<Sd>>, None)) EXCEPT !.maxMade = 1, !.statuses = FALSE, !.others = {"mine"}],
    [DcApi(Dcql(<<Sd>>, None)) EXCEPT !.maxMade = 1, !.others = DOMAIN Exchanges, !.statuses = FALSE,
                                      !.requireStatus = TRUE],
    [Redirect(Dcql(<<Jwt>>, None)) EXCEPT !.others = {"mine", "other"}],
    [DcApi(Dcql(<<Ldp>>, None)) EXCEPT !.others = {"mine", "mineDc"}],
    [Redirect(Dcql(<<[Jwt EXCEPT !.binding = FALSE, !.want = None, !.multiple = TRUE]>>, None))
       EXCEPT !.encryptTo = "key", !.maxMade = 1, !.slips = TRUE],
    [Redirect(Dcql(<<[Ldp EXCEPT !.binding = FALSE]>>, None)) EXCEPT !.strict = TRUE, !.others = {"mine"},
                                                                      !.maxMade = 1, !.slips = TRUE],
    [DcApi(Dcql(<<Mdl>>, None)) EXCEPT !.others = {"mineDc", "awayDc", "here2"}],
    [Redirect(Dcql(<<Mdl, [Sd EXCEPT !.binding = Bad]>>, None)) EXCEPT !.maxMade = 1],
    [Redirect(Dcql(<<Sd, Jwt>>, << [options |-> {{1}, {2}}, required |-> TRUE] >>)) EXCEPT !.maxMade = 1],
    [Redirect(Dcql(<<[Sd EXCEPT !.binding = FALSE], Jwt>>,
                   << [options |-> {{1, 2}}, required |-> TRUE], [options |-> {{2}}, required |-> FALSE] >>))
       EXCEPT !.others = {"mine"}] }
=============================================================================
