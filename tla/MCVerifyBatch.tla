--------------------------- MODULE MCVerifyBatch ----------------------------
(***************************************************************************)
(* Batches of two out of a catalogue: a sound credential of each format    *)
(* and, for each stage, ones that fail there.  alice issues most of them,  *)
(* bob signs the schema credentials and one of the status lists, and corp  *)
(* is an https issuer.                                                     *)
(***************************************************************************)
EXTENDS VerifyBatch

CONSTANTS alice, bob, corp, revs, susp, tok

PurposeOf == [l \in {revs, susp} |-> IF l = revs THEN "revocation" ELSE "suspension"]

\* At the end of a byte, at the start of the next, and last of all.
SlotOf == [a |-> 7, b |-> 8, schema |-> 11]

W3c(id, ls) == [n \in DOMAIN ls |-> BuildListEntry(ls[n], SlotOf[id], PurposeOf[ls[n]])]
Ietf(id) == BuildTokenReference(tok, SlotOf[id])

Plain ==
  [layers |-> 0, format |-> "jose", iss |-> alice, signer |-> alice, https |-> FALSE,
   x5c |-> "none", key |-> 1, expired |-> FALSE, typed |-> TRUE, w3c |-> <<>>,
   ietf |-> Nothing, schema |-> "none", pinned |-> "none", conforms |-> TRUE, wraps |-> FALSE]

SchemaVc == [Plain EXCEPT !.iss = bob, !.signer = bob, !.wraps = TRUE,
                                    !.w3c = W3c("schema", <<revs>>), !.schema = "wrapped"]

\* Pointers no issuer of openvc builds: an entry of another type, a nested
\* array, an entry without a type, a list of the wrong purpose, a fraction,
\* an index past the list.
Odd == <<[W3c("b", <<revs>>)[1] EXCEPT !.type = "other"]>>
Nested == W3c("b", <<susp>>) \o <<[W3c("b", <<revs>>)[1] EXCEPT !.form = "array"]>>
Untyped == <<[W3c("a", <<revs>>)[1] EXCEPT !.type = "absent"]>>
Crossed == <<BuildListEntry(susp, SlotOf["b"], "revocation")>>
Fraction == [Ietf("b") EXCEPT !.index.form = "float"]
Beyond == [Ietf("b") EXCEPT !.index.n = 16]
Other == [form |-> "other"]

Named ==
  [a1 |-> [Plain EXCEPT !.w3c = W3c("a", <<revs, susp>>)],
   a2 |-> [Plain EXCEPT !.format = "di", !.ietf = Ietf("a"), !.expired = TRUE],
   a3 |-> [Plain EXCEPT !.iss = corp, !.signer = corp, !.https = TRUE, !.w3c = W3c("a", <<revs>>)],
   a4 |-> [Plain EXCEPT !.schema = "lapsed", !.layers = 1],
   a5 |-> [Plain EXCEPT !.format = "di", !.signer = bob],
   a6 |-> [Plain EXCEPT !.layers = 3],
   b1 |-> [Plain EXCEPT !.layers = 2, !.w3c = W3c("b", <<revs>>), !.schema = "wrapped",
                          !.pinned = "wrapped"],
   b2 |-> [Plain EXCEPT !.w3c = W3c("b", <<susp>>), !.ietf = Ietf("b"), !.schema = "plain"],
   b3 |-> [Plain EXCEPT !.x5c = "good", !.typed = FALSE, !.w3c = W3c("b", <<revs>>)],
   b4 |-> [Plain EXCEPT !.x5c = "bad", !.schema = "odd"],
   b5 |-> [Plain EXCEPT !.key = 2, !.w3c = Odd],
   b6 |-> [Plain EXCEPT !.layers = 1, !.schema = "nested"],
   b7 |-> [Plain EXCEPT !.schema = "alien"],
   b8 |-> [Plain EXCEPT !.schema = "plain", !.conforms = FALSE],
   b9 |-> [Plain EXCEPT !.format = "di", !.ietf = Fraction],
   b10 |-> [Plain EXCEPT !.w3c = Crossed],
   b11 |-> [Plain EXCEPT !.w3c = Nested],
   b12 |-> [Plain EXCEPT !.format = "di", !.ietf = Beyond],
   b13 |-> [Plain EXCEPT !.schema = "plain", !.pinned = "lapsed"],
   b14 |-> [Plain EXCEPT !.format = "di", !.iss = corp, !.https = TRUE],
   a7 |-> [Plain EXCEPT !.w3c = Untyped, !.ietf = Other],
   a8 |-> [Plain EXCEPT !.ietf = Other],
   wrapped |-> SchemaVc,
   lapsed |-> [SchemaVc EXCEPT !.expired = TRUE],
   nested |-> [SchemaVc EXCEPT !.layers = 2],
   alien |-> [SchemaVc EXCEPT !.wraps = FALSE]]

SchemaUrls ==
  [u \in {"plain", "wrapped", "lapsed", "nested", "alien"} |-> IF u = "plain" THEN Nothing ELSE u]

Strict == [typed |-> TRUE, notExpired |-> TRUE, notRevoked |-> TRUE, status |-> TRUE,
           schema |-> TRUE, bind |-> TRUE, allowlist |-> {bob}]
Waiving == [Strict EXCEPT !.notExpired = FALSE, !.notRevoked = FALSE, !.bind = FALSE,
                          !.allowlist = {}]
Lax == [Waiving EXCEPT !.typed = FALSE, !.status = FALSE, !.schema = FALSE, !.notRevoked = TRUE]
Binding == [Strict EXCEPT !.allowlist = {}, !.typed = FALSE]

PolicyNamed == [strict |-> Strict, waiving |-> Waiving, lax |-> Lax, binding |-> Binding]

All == {"w3c", "ietf", "schema", "https", "anchors"}

\* Who signs which list.
Signer == [l \in {revs, susp, tok} |-> IF l = revs THEN bob ELSE alice]

\* Bits that are set before the batch: none, or one of a credential's.
Ids == {"a", "b", "schema"}
Valid == [l \in {revs, susp, tok} |-> [c \in Ids |-> "valid"]]
Honest == [l \in {revs, susp, tok} |-> [issuer |-> Signer[l], sub |-> l, fresh |-> TRUE]]
World(m) == [marks |-> m, hosted |-> Honest]
WorldNamed ==
  [calm   |-> World(Valid),
   schema |-> World([Valid EXCEPT ![revs]["schema"] = "revocation"]),
   first  |-> World([Valid EXCEPT ![susp]["a"] = "suspension", ![tok]["b"] = "revocation"]),
   second |-> World([Valid EXCEPT ![tok]["a"] = "suspension", ![revs]["b"] = "revocation"]),
   \* Another list's token under the token's address, and a list that does
   \* not name its signer.
   swapped |-> [World(Valid) EXCEPT !.hosted[tok].sub = revs, !.hosted[revs].issuer = Nothing],
   \* A token and a list past their time, and a list that names another
   \* than its signer.
   stale |-> [World(Valid) EXCEPT !.hosted[tok].fresh = FALSE, !.hosted[susp].fresh = FALSE,
                                  !.hosted[revs].issuer = alice]]

Firsts == {"a1", "a2", "a3", "a4", "a5", "a6", "a7", "a8"}
Seconds == {"b1", "b2", "b3", "b4", "b5", "b6", "b7", "b8", "b9", "b10", "b11", "b12", "b13", "b14"}

\* Bits that may change meanwhile.
Changing == {<<revs, "b">>, <<tok, "a">>}

Pairs == {<<a, b>> : a \in Firsts, b \in Seconds}

\* Every pair: one after the other under every policy and with every world,
\* all at once where nobody or only the lists' hosts are at fault, and a few
\* where the waivers matter.
Calls ==
  [batch : Pairs, mode : {"sequential"}, policy : {"strict", "waiving", "binding"}, given : {All},
   world : DOMAIN WorldNamed]
  \cup
  [batch : Pairs, mode : {"sequential"}, policy : {"strict", "lax"}, given : {{}},
   world : {"second"}]
  \cup
  [batch : Pairs, mode : {"concurrent"}, policy : {"strict"}, given : {All},
   world : {"calm", "swapped"}]
  \cup
  [batch : {<<a, b>> : a \in {"a1", "a2", "a7"}, b \in {"b1", "b2", "b11"}}, mode : {"concurrent"},
   policy : {"waiving"}, given : {All}, world : {"first", "stale"}]
=============================================================================
