---------------------------- MODULE WalletTrust -----------------------------
(***************************************************************************)
(* A wallet that takes its registrars from a walk of the trusted lists     *)
(* and answers relying parties with them: the composition of TrustLists    *)
(* (which certificates may anchor a registration) with RpRegistration (who *)
(* asks, and for what).  The library has no such loop of its own; each     *)
(* step here is one of its calls, in the order its documents give them.    *)
(***************************************************************************)
EXTENDS TrustLists, RpRegistration

CONSTANTS
  AccessAnchors, \* the roots of access certificates the wallet is configured with
  Policies,      \* how it calls the verifiers
  Requests,      \* what a relying party may present: [access, reg, queries]
  Leaves         \* credential type |-> the paths of the values in a credential of it

VARIABLES
  trusted,       \* the registrar anchors the wallet holds, None before the first walk
  lawful,        \* those that the lists justified when they were adopted
  answer         \* the request answered and what became of it

\* Paths, subject attributes and dates are of their types, or marked as not.
ASSUME WalletAssumption ==
  /\ Leeway \in Nat
  /\ \A r \in Requests :
       /\ r.reg.exp \in Int \cup {None, Malformed}
       /\ Certs[r.access].ids \in Seq(Range(Certs[r.access].ids))
       /\ \A e \in r.reg.credentials : \A p \in RegisteredPaths(e) : p \in Seq(Range(p))
       /\ \A q \in r.queries : \A p \in RequestedPaths(q) : p \in Seq(Range(p))
  /\ \A t \in DOMAIN Leaves : \A leaf \in Leaves[t] : leaf \in Seq(Range(leaf))

vars == <<now, served, changes, walk, trusted, lawful, answer>>

Init == ListInit /\ trusted = None /\ lawful = {} /\ answer = None

\* The wallet keeps the certificates of the anchors; the lists are not read again.
Adopt ==
  /\ walk.pc = "done"
  /\ trusted' = {a.cert : a \in walk.anchors}
  /\ lawful' = Lawful(walk)
  /\ walk' = [pc |-> "adopted"]
  /\ served' = [l \in Locations |-> None]
  /\ changes' = 0
  /\ UNCHANGED <<now, answer>>

Authorize(r, policy, at) ==
  FirstError(<< Check(VerifyAccess(r.access, policy.intermediates, AccessAnchors,
                                   policy.accessEku, at) = "ok", "access"),
                Check(VerifyRegistration(r.reg, policy, trusted, at) = "ok", "registration"),
                Check(MatchesAccess(r.reg, AccessOf(r.access), policy), "party"),
                Check(WithinRegistration(r.reg, r.queries, policy.use), "scope") >>)

\* The verifiers keep no state: one answer of a wallet tells them all.
Answer(r, policy) ==
  /\ trusted # None /\ answer = None
  /\ answer' = [request |-> r, policy |-> policy, at |-> now, result |-> Authorize(r, policy, now)]
  /\ UNCHANGED <<now, served, changes, walk, trusted, lawful>>

Next ==
  \/ answer = None /\ ListNext /\ UNCHANGED <<trusted, lawful, answer>>
  \/ Adopt
  \/ \E r \in Requests, policy \in Policies : Answer(r, policy)

Spec == Init /\ [][Next]_vars

----------------------------------------------------------------------------
Accepted == answer # None /\ answer.result = "ok"

(***************************************************************************)
(* A party is answered only on the word of a registrar that a trusted list *)
(* in force names for issuing registrations, and whose key, in date, did   *)
(* sign a registration in date of that very party (walk_lote, then         *)
(* verify_rp_registration_certificate and check_matches_access_certificate).*)
(***************************************************************************)
ServedOnlyIfListed ==
  Accepted =>
    LET reg == answer.request.reg
        leaf == reg.signedBy
    IN  /\ InWindow(leaf, answer.at)
        /\ \/ leaf \in lawful
           \/ Certs[leaf].by \in lawful
           \/ Certs[Certs[leaf].by].by \in lawful /\ Certs[Certs[leaf].by].ca
        /\ Certs[answer.request.access].ids = <<reg.sub>>
        /\ reg.exp # None => answer.at <= reg.exp + Leeway

\* The values of a credential that a path selects.
Selects(path, type) ==
  {leaf \in Leaves[type] :
     /\ Len(path) <= Len(leaf)
     /\ \A n \in DOMAIN path : path[n] = None \/ path[n] = leaf[n]}

\* The credential types a meta leaves possible.
TypesOf(meta) ==
  {t \in DOMAIN Leaves : meta = Malformed \/ \A k \in DOMAIN meta : t \in meta[k].vals}

\* The paths a query names, and those that registered entries grant.
AskedFor(q) == UNION {IF paths = None THEN {} ELSE paths : paths \in {q.claim, q.claims}}

GrantedBy(entries) ==
  (UNION {IF e.claim # None THEN e.claim
          ELSE IF e.claims # None THEN e.claims ELSE {} : e \in entries}) \ {<<>>}

\* In a credential of this type the query selects nothing but what they grant.
StaysWithin(q, type, entries) ==
  UNION {Selects(p, type) : p \in AskedFor(q)}
    \subseteq UNION {Selects(g, type) : g \in GrantedBy(entries)}

EntriesFor(q) ==
  {e \in answer.request.reg.credentials : e.format = q.format /\ e.meta # Malformed}

\* What of a registered meta is held against the query's: a query that has
\* constraints is not asked for those it leaves out.
Compared(registered, requested) ==
  IF requested = Malformed \/ DOMAIN requested = {} THEN registered
  ELSE [k \in DOMAIN registered \cap DOMAIN requested |-> registered[k]]

(***************************************************************************)
(* Whatever credential a wallet picks to satisfy an accepted request, each *)
(* value the request selects in it is one that the registration grants for *)
(* credentials of that format, and of that type as far as the constraints  *)
(* tell that the request names (check_request_within_registration).        *)
(***************************************************************************)
ReleasedOnlyAsRegistered ==
  Accepted =>
    \A q \in answer.request.queries : \A type \in TypesOf(q.meta) :
      StaysWithin(q, type, {e \in EntriesFor(q) : type \in TypesOf(Compared(e.meta, q.meta))})

(***************************************************************************)
(* "Every pooled path is registered for every credential the query can     *)
(* return": the same with every constraint of the registration.  The code  *)
(* does not keep this: _meta_covered goes through the constraints of the   *)
(* query only.                                                             *)
(***************************************************************************)
PooledPathsAreRegistered ==
  Accepted =>
    \A q \in answer.request.queries : \A type \in TypesOf(q.meta) :
      StaysWithin(q, type, {e \in EntriesFor(q) : type \in TypesOf(e.meta)})
=============================================================================
