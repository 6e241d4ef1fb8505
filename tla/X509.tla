-------------------------------- MODULE X509 --------------------------------
(***************************************************************************)
(* Certificates, path validation (openvc.x5c) and the crit header of a     *)
(* JAdES signature, which trusted lists and registration certificates      *)
(* share.                                                                  *)
(*                                                                         *)
(* A certificate is a name; Certs says what it carries: who issued it,     *)
(* whether it is a CA, its validity window, its key type, its extended key *)
(* usages and its subject (organisation, country, organisation             *)
(* identifiers, common names, and which of the first two it names twice).  *)
(***************************************************************************)
EXTENDS Integers, Sequences, Checks, FiniteSets

CONSTANTS Certs, None

InWindow(c, at) == Certs[c].from <= at /\ at <= Certs[c].to

\* What cryptography's verifier accepts: a leaf that is an anchor, or a path
\* to one through CA certificates, all of them inside their windows.
PathValid(leaf, inter, anchors, at) ==
  LET CA(c) == Certs[c].ca /\ InWindow(c, at)
  IN  /\ InWindow(leaf, at)
      /\ \/ leaf \in anchors
         \/ \E a \in anchors : CA(a) /\ Certs[leaf].by = a
         \/ \E a \in anchors, i \in inter :
              CA(a) /\ CA(i) /\ Certs[i].by = a /\ Certs[leaf].by = i

ValidateCertChain(leaf, inter, anchors, at) ==
  anchors # {} /\ PathValid(leaf, inter, anchors, at)

\* leaf_public_jwk: a key that verify_signature has an algorithm for.
UsableKey(c) == Certs[c].key \in {"P-256", "P-384", "Ed25519"}

----------------------------------------------------------------------------
JadesParams == {"alg", "typ", "x5c", "iat"}

\* Every critical name is understood and present.
CritOK(crit, known, present) ==
  crit # None => /\ crit # <<>>
                 /\ \A n \in DOMAIN crit : crit[n] \in known /\ crit[n] \in present
=============================================================================
