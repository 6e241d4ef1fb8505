--------------------------- MODULE MCWalletTrust ----------------------------
(***************************************************************************)
(* A root list, two lists it may point to, and one they should not; two    *)
(* registrars with an issuance service each and one revocation service.    *)
(***************************************************************************)
EXTENDS WalletTrust, TLC

CONSTANTS root, listA, listB

Cert(by, org) ==
  [by |-> by, ca |-> FALSE, from |-> 0, to |-> 9, key |-> "P-256", eku |-> {}, org |-> org,
   country |-> "EU", ids |-> <<>>, names |-> <<org>>, twice |-> {}]

Authority(name, org) == [Cert(name, org) EXCEPT !.ca = TRUE]

Party(id) == [Cert("aca", id) EXCEPT !.ids = <<id>>, !.eku = {"wrpac"}]

\* kx, ka and kb sign the lists, ra and rb register parties through sa and sb.
CertsAll ==
  "kx" :> Cert("kx", "X") @@ "ka" :> [Cert("kca", "A") EXCEPT !.to = 1] @@ "kb" :> Cert("kb", "B") @@
  "kca" :> Authority("kca", "A") @@
  "ra" :> Authority("ra", "RA") @@ "va" :> Authority("va", "RA") @@ "rb" :> Authority("rb", "RB") @@
  "sa" :> [Cert("ra", "RA") EXCEPT !.to = 1] @@ "sv" :> Cert("va", "RA") @@ "ib" :> Authority("rb", "RB") @@
  "sb" :> Cert("ib", "RB") @@
  "aca" :> Authority("aca", "ACA") @@ "p1" :> Party("P1") @@ "p2" :> Party("P2") @@
  "p0" :> [Party("P0") EXCEPT !.ids = <<>>] @@ "p12" :> [Party("P1") EXCEPT !.ids = <<"P1", "P2">>] @@
  "pt" :> [Party("P1") EXCEPT !.by = "ra"] @@ "pc" :> [Party("P1") EXCEPT !.twice = {"country"}] @@
  "se" :> [Cert("ra", "RA") EXCEPT !.key = "Ed25519"]

----------------------------------------------------------------------------
Profile ==
  [type |-> "wrprc", determination |-> {"d1", "d2"}, rules |-> "eu", territory |-> "EU",
   services |-> {"issuance", "revocation"}, anchors |-> {"issuance"}, maxUpdate |-> 2]

Service(cert, type) == [cert |-> cert, type |-> type, status |-> None]

Until(t) == [form |-> "utc", at |-> t]
Dateless(form) == [form |-> form, at |-> 0]

Pointer(loc, certs, type, territory) ==
  [loc |-> loc, certs |-> certs, type |-> type, territory |-> territory]

List(lane, signer, org, services, pointers) ==
  [lane |-> lane, flaws |-> {}, signer |-> signer, chain |-> {}, covers |-> <<"document", "SignedProperties">>,
   crit |-> None, version |-> 1, type |-> "wrprc", determination |-> "d1", rules |-> {"eu"},
   territory |-> "EU", operators |-> {org}, history |-> FALSE, issue |-> 0, next |-> Until(2),
   services |-> services, pointers |-> pointers]

LoteA == List("lote", "ka", "A", {Service("ra", "issuance"), Service("va", "revocation"),
                                  Service(None, "issuance")}, <<>>)
LoteB == List("lote", "kb", "B", {Service("rb", "issuance")}, <<>>)

LoteRoot(pointers) == List("lote", "kx", "X", {}, pointers)

Granted(cert, type, status) == [cert |-> cert, type |-> type, status |-> status]

LotlA == List("lotl", "ka", "A", {Granted("ra", "CA/QC", "granted"), Granted("va", "CA/QC", "withdrawn")}, <<>>)
LotlB == List("lotl", "kb", "B", {Granted("rb", "CA/QC", "granted"), Granted("va", "OCSP", "granted")}, <<>>)

LotlRoot ==
  List("lotl", "kx", "X", {},
       << Pointer(root, {"kx"}, "EUlistofthelists", "EU"), Pointer(None, {"ka"}, "generic", "A"),
          Pointer(listA, {"ka", None}, "generic", "A"), Pointer(listB, {"kb"}, "generic", "B") >>)

PoolAll ==
  root :>
    { LoteRoot(<< Pointer(root, {"kx"}, "wrprc", "EU"), Pointer(listA, {"ka"}, "wrprc", "EU"),
                  Pointer(listA, {"kb"}, "wrprc", "EU"), Pointer(listB, {"kb"}, "wrprc", "EU") >>),
      LoteRoot(<< Pointer(listB, {"kb"}, "pid", "EU"), Pointer(listA, {"kca"}, "wrprc", "EU") >>),
      [LoteRoot(<<>>) EXCEPT !.next = Dateless("null"), !.services = {Service("rb", "issuance")}],
      [LotlRoot EXCEPT !.flaws = {"tampered"}], [LotlRoot EXCEPT !.next = Dateless("naive")],
      LotlRoot } @@
  listA :>
    { None, LoteA, [LoteA EXCEPT !.next = Dateless("null")], [LoteA EXCEPT !.next = Until(0)],
      [LoteA EXCEPT !.signer = "kx", !.operators = {"A", "X"}, !.services = {Service("va", "issuance")}],
      [LoteA EXCEPT !.crit = <<"sigT">>], [LoteA EXCEPT !.next = Until(3)],
      LotlA, [LotlA EXCEPT !.next = Dateless("naive")], [LotlA EXCEPT !.next = Until(0)],
      [LotlA EXCEPT !.covers = <<"Id">>], [LotlA EXCEPT !.covers = <<"document", "document">>],
      [LotlA EXCEPT !.flaws = {"doctype"}] } @@
  listB :>
    { LoteB, [LoteB EXCEPT !.services = {Service("rb", "pid")}],
      [LotlB EXCEPT !.covers = <<"KeyInfo", "document", "SignedProperties">>],
      [LotlB EXCEPT !.next = Dateless("malformed")], [LotlB EXCEPT !.signer = "ka"] }

\* The root list is in order, and a national list may have a date without a zone.
PoolNational ==
  root :> {LotlRoot} @@ listA :> {LotlA} @@ listB :> {LotlB, [LotlB EXCEPT !.next = Dateless("naive")]}

CallOf(lane, profile, select) ==
  [lane |-> lane, pinned |-> {"kx"}, verifier |-> TRUE, profile |-> profile, select |-> select]

CallsAll ==
  { CallOf("lote", Profile, Default), CallOf("lote", None, Default),
    CallOf("lote", Profile, Select(None, None, {"EU"})), CallOf("lote", None, Select(None, None, {"DE"})),
    CallOf("lotl", None, Default), CallOf("lotl", None, Select(None, None, {"B"})) }

----------------------------------------------------------------------------
LeavesAll ==
  [t \in {"diploma", "account"} |->
     { <<"name">>, <<"address", "street">>, <<"address", "town">>, <<"nat", "0">>, <<"nat", "1">> }]

Vct(list, types) == [k \in {"vct_values"} |-> [list |-> list, vals |-> types]]

Entry(meta, claim, claims) == [format |-> "sd-jwt", meta |-> meta, claim |-> claim, claims |-> claims]

Diploma == Vct(TRUE, {"diploma"})

\* Another constraint, which both types meet.
AnyType == [k \in {"type_values"} |-> [list |-> TRUE, vals |-> {"diploma", "account"}]]

Scopes ==
  { {Entry(Diploma, {<<"name">>, <<"address">>}, None)},
    {Entry(Diploma, {<<"name">>}, None), Entry(Vct(TRUE, {"account"}), {<<"address">>}, None)},
    {Entry(Diploma, {<<"name">>}, None), Entry(Diploma, {<<"nat", "0">>}, None)},
    {Entry(Vct(TRUE, {"diploma", "account"}), {<<"nat", None>>}, None)},
    {Entry(Diploma, {<<>>, <<"name">>}, {<<"address">>}), Entry(NoMeta, None, {<<"name">>})},
    {Entry(Malformed, {<<"name">>}, None)}, {Entry(Diploma, {}, {<<"name">>})},
    {Entry(Diploma @@ AnyType, {<<"name">>}, None)} }

Query(meta, claims, claim) == [format |-> "sd-jwt", meta |-> meta, claims |-> claims, claim |-> claim]

Asks ==
  { {Query(Diploma, {<<"name">>}, None)}, {Query(Vct(FALSE, {"diploma"}), {<<"address", "town">>}, None)},
    {Query(Diploma, {<<"name">>, <<"address">>}, None)}, {Query(Diploma, {<<"nat", None>>}, None)},
    {Query(Diploma, {<<"nat", "0">>}, None), Query(Diploma, {<<"name">>}, None)},
    {Query(Vct(TRUE, {"diploma", "account"}), {<<"name">>}, None)}, {Query(NoMeta, {<<"name">>}, None)},
    {Query(Malformed, {<<"name">>}, None)}, {Query(Diploma, None, None)},
    {Query(Diploma, {<<"address">>}, {<<"name">>})}, {Query(AnyType, {<<"name">>}, None)}, {} }

Registration ==
  [form |-> "jwt", typ |-> "rc-wrp+jwt", alg |-> "ES256", crit |-> <<"sigT", "b64">>, sigT |-> "utc",
   b64 |-> "true", twice |-> FALSE, chain |-> <<"sa">>, signedBy |-> "sa", sub |-> "P1", name |-> "P1",
   iat |-> 0, nbf |-> None, exp |-> 1, entitled |-> TRUE, use |-> "use1",
   credentials |-> {Entry(Diploma, {<<"name">>}, None)}]

AsCwt(reg) == [reg EXCEPT !.form = "cwt", !.typ = "rc-wrp+cwt", !.crit = None, !.sigT = None, !.b64 = None]

Slips(reg) ==
  { reg, AsCwt(reg), [AsCwt(reg) EXCEPT !.twice = TRUE], [reg EXCEPT !.typ = "rc-rp+jwt"],
    [reg EXCEPT !.crit = <<"sigT", "exp">>], [reg EXCEPT !.b64 = "false"], [reg EXCEPT !.sigT = None],
    [reg EXCEPT !.chain = <<>>], [reg EXCEPT !.chain = <<"sb", "ib">>, !.signedBy = "sb"],
    [reg EXCEPT !.chain = <<"sv">>, !.signedBy = "sv"], [reg EXCEPT !.signedBy = "sb"],
    [reg EXCEPT !.sub = "P2"], [reg EXCEPT !.sub = None], [reg EXCEPT !.exp = None],
    [reg EXCEPT !.exp = 4], [reg EXCEPT !.nbf = 2], [reg EXCEPT !.iat = Malformed],
    [reg EXCEPT !.entitled = FALSE], [reg EXCEPT !.use = None], [reg EXCEPT !.alg = "none"],
    [reg EXCEPT !.alg = "ES384"], [reg EXCEPT !.alg = "Ed25519", !.chain = <<"se">>, !.signedBy = "se"],
    [AsCwt(reg) EXCEPT !.alg = "Ed25519", !.chain = <<"se">>, !.signedBy = "se"],
    [AsCwt(reg) EXCEPT !.alg = "EdDSA", !.chain = <<"se">>, !.signedBy = "se"] }

Request(access, reg, queries) == [access |-> access, reg |-> reg, queries |-> queries]

RequestsAll ==
  { Request(p, reg, {Query(Diploma, {<<"name">>}, None)}) :
      p \in {"p0", "p1", "p2", "p12", "pt", "pc"}, reg \in Slips(Registration) } \cup
  { Request("p1", [Registration EXCEPT !.credentials = s], q) : s \in Scopes, q \in Asks }

Policy ==
  [intermediates |-> {}, accessEku |-> "wrpac", eku |-> None, requireExpiry |-> FALSE,
   requireEntitlement |-> TRUE, matchName |-> FALSE, use |-> None]

PoliciesAll ==
  { Policy, [Policy EXCEPT !.requireExpiry = TRUE, !.matchName = TRUE, !.use = "use1"] }
=============================================================================
