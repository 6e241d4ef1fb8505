---------------------------- MODULE MCOpenid4vci ----------------------------
(***************************************************************************)
(* Two wallets, two issuers and two handlers.  bea has one key, ann two.   *)
(***************************************************************************)
EXTENDS Openid4vci, TLC

CONSTANTS ann, bea, a1, a2, b1, us, them, h1, h2

KeysHeld == [w \in {ann, bea} |-> IF w = ann THEN <<a1, a2>> ELSE <<b1>>]
KeyAlg == [k \in {a1, a2, b1} |-> "ES256"]
Registry == [k \in {a1, a2, b1} |-> k]

HandlerSymmetry == Permutations({h1, h2})

Url(id) == [id |-> id, flaws |-> {}]

Offer(issuer) == [issuer |-> issuer, ids |-> <<"pid">>, grants |-> None]

OffersAll ==
  { Offer(Url(us)), Offer(Url(them)),
    Offer([id |-> us, flaws |-> {"userinfo"}]), [Offer(Url(us)) EXCEPT !.ids = <<"pid", "pid">>] }

Metadata(id, batch) ==
  [issuer |-> Url(id), endpoint |-> Url(id), servers |-> None,
   optional |-> [nonce |-> Url(id), deferred |-> None, notification |-> None],
   configurations |-> None, batch |-> batch]

Advertising(batch) == [id \in {us, them} |-> Metadata(id, batch)]

Plain == [metadata |-> Advertising(2), requireNonce |-> TRUE, store |-> TRUE, client |-> None,
          resolver |-> None, anchors |-> FALSE, attested |-> FALSE, style |-> "jwk",
          slips |-> {"none", "aud", "future", "private"}]

CallsAll ==
  { Plain,
    [Plain EXCEPT !.requireNonce = FALSE, !.client = "wallet", !.resolver = "registry",
                  !.style = "kid", !.slips = {"none", "nonce"}],
    [Plain EXCEPT !.anchors = TRUE, !.style = "x5c", !.slips = {"none", "early", "expired", "iss"},
                  !.metadata[them].optional.deferred = [id |-> them, flaws |-> {"scheme"}]],
    [Plain EXCEPT !.resolver = "context", !.attested = TRUE, !.style = "kid",
                  !.metadata = Advertising(None), !.slips = {"none", "typ", "alg", "attest"}] }
=============================================================================
