----------------------------- MODULE TrustChain -----------------------------
(***************************************************************************)
(* openvc_ebsi.verify.verify_ebsi_badge and openvc_ebsi.trust.             *)
(* verify_trust_chain: a badge's issuer is walked up the accreditations of *)
(* the Trusted Issuers Registry until an accreditor is one of the caller's *)
(* anchors.                                                                *)
(*                                                                         *)
(* The walk reads one record, one DID document and one status list per     *)
(* hop, at different times, and the registry changes between the reads.    *)
(* An accreditation is what the walk tells apart: the accreditor it names, *)
(* the registry's role, the token's kinds and types, the DID the token     *)
(* names, and whether the accreditor's key verifies it.                    *)
(***************************************************************************)
EXTENDS Integers, Sequences, FiniteSets, SequencesExt

CONSTANTS
  Dids,          \* issuers and accreditors
  Anchors,       \* the RootTAO DIDs the caller trusts
  Issuers,       \* those among Dids that issue badges
  Types,         \* credential types
  Wanted,        \* the types of a badge
  Catalogue,     \* per DID, the accreditations its record may hold
  MaxRecord,     \* per DID, bound on the accreditations of its record
  Depths,        \* the values of max_depth
  MaxChanges,    \* bound on the registry's changes
  Registries,    \* what the registry may hold at first
  Absent,        \* no record: a 404
  Badge,         \* the badge itself, as a thing with a status
  None

ASSUME TrustAssumption ==
  /\ Anchors \subseteq Dids /\ Issuers \subseteq Dids
  /\ Wanted \subseteq SUBSET Types /\ {} \notin Wanted
  /\ MaxRecord \in [Dids -> Nat] /\ Depths \subseteq Nat /\ MaxChanges \in Nat

\* An accreditation names its accreditor or nobody, and "no scope yet" is not
\* a set of types.
ASSUME AccreditationAssumption ==
  /\ \A d \in Dids : \A a \in Catalogue[d] : a.by \in Dids \cup {None} /\ a.types \subseteq Types
  /\ \A s \in SUBSET Types : s # None

VARIABLES
  records,       \* the registry: per DID a sequence of accreditations
  revoked,       \* the accreditations (and Badge) whose status bit is set
  changes,       \* how often the registry has changed
  pc, walk,      \* where the verification is, and its locals
  out,           \* how it ended
  held,          \* history: per DID what its record held since the start
  revokedBefore  \* history: what was revoked when it started

vars == <<records, revoked, changes, pc, walk, out, held, revokedBefore>>

Accreditations == UNION {Catalogue[d] : d \in Dids}

Record(d) == BoundedSeq(Catalogue[d], MaxRecord[d]) \cup {Absent}

Content(r) == IF r = Absent THEN {} ELSE Range(r)

ASSUME RegistryAssumption ==
  \A g \in Registries : DOMAIN g = Dids /\ \A d \in Dids : g[d] \in Record(d)

----------------------------------------------------------------------------
(***************************************************************************)
(* accreditation_ineligibility and the two pickers, which take the FIRST   *)
(* accreditation that will do.                                             *)
(***************************************************************************)
TrustRoles == {"RootTAO", "TAO", "TI"}
DelegatingRoles == {"RootTAO", "TAO"}

Eligible(a, leaf) ==
  /\ a.role \in TrustRoles
  /\ ~ leaf => a.role \in DelegatingRoles
  /\ (IF leaf THEN "attest" ELSE "accredit") \in a.kinds
  /\ a.types # {}

\* An accreditor that shares one type with the scope may delegate all of it.
CoversSome(a, needed, leaf) == a.types \cap needed # {}

Covers(a, needed, leaf) == IF leaf THEN a.types \cap needed # {} ELSE needed \subseteq a.types

Picks(r, needed, leaf) ==
  {i \in DOMAIN r : Eligible(r[i], leaf) /\ Covers(r[i], needed, leaf)}

Pick(r, needed, leaf) ==
  LET good == Picks(r, needed, leaf)
  IN  IF good = {} THEN None ELSE r[CHOOSE i \in good : \A j \in good : i <= j]

\* _verify_accreditation and _check_subject_binding.
Proves(a, subject) == a.signed /\ a.names = subject

----------------------------------------------------------------------------
Init ==
  /\ records \in Registries
  /\ revoked = {}
  /\ changes = 0
  /\ pc = "idle" /\ walk = None /\ out = None
  /\ held = [d \in Dids |-> {}]
  /\ revokedBefore = {}

World == <<records, revoked, changes, held, revokedBefore>>

(***************************************************************************)
(* verify_ebsi_badge is called: with trust_anchors ("chain") or without    *)
(* ("single"), with or without require_trust, and with or without          *)
(* resolve_status_list.                                                    *)
(***************************************************************************)
Begin(d, wanted, mode, require, status, depth) ==
  /\ pc = "idle"
  /\ pc' = "badge"
  /\ walk' = [subject |-> d, wanted |-> wanted, mode |-> mode, require |-> require,
              status |-> status,
              current |-> d, seen |-> {d}, scope |-> None, hops |-> <<>>, acc |-> None,
              depth |-> depth, left |-> depth, trusted |-> FALSE]
  /\ out' = None
  /\ held' = [x \in Dids |-> Content(records[x])]
  /\ revokedBefore' = revoked
  /\ UNCHANGED <<records, revoked, changes>>

\* verify_ebsi_badge is left, with an exception or the badge.  It keeps no
\* state, so one call says all there is to say.
Leave(e) ==
  /\ pc' = "done" /\ out' = e
  /\ UNCHANGED <<walk, World>>

\* The trust decision is made; the badge's own status is next.
Decided(w, trusted) ==
  /\ pc' = "own"
  /\ walk' = [w EXCEPT !.trusted = trusted]
  /\ UNCHANGED <<out, World>>

\* A TrustChainError: raised, or an untrusted badge without require_trust.
ChainFails(e) == IF walk.require THEN Leave(e) ELSE Decided(walk, FALSE)

\* Steps 1 to 4: the token's key is resolved and its signature verified.
BadgeProof ==
  /\ pc = "badge"
  /\ \/ Leave("badgeInvalid")
     \/ /\ walk.mode = "chain" /\ walk.subject \in Anchors
        /\ Decided([walk EXCEPT !.scope = walk.wanted], TRUE)
     \/ /\ walk.mode = "single" \/ walk.subject \notin Anchors
        /\ pc' = IF walk.mode = "single" THEN "single" ELSE "record"
        /\ UNCHANGED <<walk, out, World>>

\* evaluate_issuer_trust on the issuer's record; a 404 is not caught here.
Single ==
  LET r == records[walk.subject]
  IN  /\ pc = "single"
      /\ \/ Leave("registryError")
         \/ /\ r # Absent
            /\ LET a == Pick(r, walk.wanted, TRUE)
               IN  IF a = None /\ walk.require THEN Leave("notTrusted")
                   ELSE Decided([walk EXCEPT !.acc = a], a # None)

----------------------------------------------------------------------------
IsLeaf == walk.scope = None

Needed == IF IsLeaf THEN walk.wanted ELSE walk.scope

\* The top of the loop: max_depth, the record, the pick, the accreditor.
ReadRecord ==
  LET r == records[walk.current]
      a == Pick(r, Needed, IsLeaf)
  IN  /\ pc = "record"
      /\ \/ walk.left = 0 /\ ChainFails("noTrustedAnchor")
         \/ walk.left > 0 /\ Leave("registryError")
         \/ /\ walk.left > 0
            /\ r = Absent
            /\ ChainFails("noTrustedAnchor")
         \/ /\ walk.left > 0
            /\ r # Absent
            /\ IF a = None THEN ChainFails("noTrustedAnchor")
               ELSE IF a.by = None THEN ChainFails("accreditationInvalid")
               ELSE /\ pc' = "proof"
                    /\ walk' = [walk EXCEPT !.acc = a, !.left = @ - 1]
                    /\ UNCHANGED <<out, World>>

\* A walk that starts over when it meets a cycle.
AdvanceForever ==
  LET a == walk.acc
      w == [walk EXCEPT !.scope = IF IsLeaf THEN a.types \cap walk.wanted ELSE @,
                        !.hops = Append(@, [subject |-> walk.current, acc |-> a])]
  IN  \/ a.by \in Anchors /\ Decided(w, TRUE)
      \/ /\ a.by \notin Anchors
         /\ pc' = "record"
         /\ walk' = IF a.by \notin walk.seen
                    THEN [w EXCEPT !.seen = @ \cup {a.by}, !.current = a.by]
                    ELSE [w EXCEPT !.seen = {walk.subject}, !.current = walk.subject,
                                   !.scope = None, !.hops = <<>>, !.left = walk.depth]
         /\ UNCHANGED <<out, World>>

\* The hop stands: the scope is fixed at the leaf, then anchor, cycle, up.
Advance ==
  LET a == walk.acc
      w == [walk EXCEPT !.scope = IF IsLeaf THEN a.types \cap walk.wanted ELSE @,
                        !.hops = Append(@, [subject |-> walk.current, acc |-> a])]
  IN  \/ a.by \in Anchors /\ Decided(w, TRUE)
      \/ a.by \notin Anchors /\ a.by \in walk.seen /\ ChainFails("cycle")
      \/ /\ a.by \notin Anchors /\ a.by \notin walk.seen
         /\ pc' = "record"
         /\ walk' = [w EXCEPT !.seen = @ \cup {a.by}, !.current = a.by]
         /\ UNCHANGED <<out, World>>

\* The accreditor's key is resolved and the token verified against it.
VerifyAccreditation ==
  /\ pc = "proof"
  /\ \/ Leave("registryError")
     \/ ChainFails("accreditationInvalid")
     \/ Proves(walk.acc, walk.current) /\ ~ walk.status /\ Advance
     \/ /\ Proves(walk.acc, walk.current) /\ walk.status
        /\ pc' = "status"
        /\ UNCHANGED <<walk, out, World>>

\* A status check that only asks about the leaf's accreditation.
CheckLeafStatus ==
  /\ pc = "status"
  /\ \/ Leave("registryError")
     \/ ChainFails("accreditationInvalid")
     \/ walk.acc \in revoked /\ IsLeaf /\ ChainFails("accreditationRevoked")
     \/ (walk.acc \in revoked => ~ IsLeaf) /\ Advance

\* The accreditation's own credentialStatus; one that cannot be read fails.
CheckAccreditationStatus ==
  /\ pc = "status"
  /\ \/ Leave("registryError")
     \/ ChainFails("accreditationInvalid")
     \/ walk.acc \in revoked /\ ChainFails("accreditationRevoked")
     \/ walk.acc \notin revoked /\ Advance

\* The badge's own status, then the VerifiedEbsiBadge.
OwnStatus ==
  /\ pc = "own"
  /\ \/ walk.status /\ Leave("registryError")
     \/ walk.status /\ Badge \in revoked /\ Leave("revoked")
     \/ /\ walk.status => Badge \notin revoked
        /\ Leave(IF walk.trusted THEN "trusted" ELSE "untrusted")

----------------------------------------------------------------------------
\* The registry (external) rewrites a record during the call, which may
\* have found any registry when it began; a status bit is set.
Change(d) ==
  /\ pc \notin {"idle", "done"}
  /\ changes < MaxChanges
  /\ changes' = changes + 1
  /\ \E r \in Record(d) \ {records[d]} :
       /\ records' = [records EXCEPT ![d] = r]
       /\ held' = [held EXCEPT ![d] = @ \cup Content(r)]
  /\ UNCHANGED <<revoked, pc, walk, out, revokedBefore>>

Revoke(x) ==
  /\ pc # "done"
  /\ changes < MaxChanges
  /\ changes' = changes + 1
  /\ x \in {Badge} \cup UNION {Content(records[d]) : d \in Dids}
  /\ x \notin revoked
  /\ revoked' = revoked \cup {x}
  /\ UNCHANGED <<records, pc, walk, out, held, revokedBefore>>

Verify ==
  BadgeProof \/ Single \/ ReadRecord \/ VerifyAccreditation \/ CheckAccreditationStatus
  \/ OwnStatus

Next ==
  \/ \E d \in Issuers, wanted \in Wanted, mode \in {"single", "chain"},
        require, status \in BOOLEAN, depth \in Depths :
       Begin(d, wanted, mode, require, status, depth)
  \/ Verify
  \/ \E d \in Dids : Change(d)
  \/ \E x \in Accreditations \cup {Badge} : Revoke(x)

\* The reads a verification makes end, in an answer or an error.
Spec == Init /\ [][Next]_vars /\ WF_vars(Verify)

----------------------------------------------------------------------------
Outcomes ==
  {"trusted", "untrusted", "badgeInvalid", "registryError", "notTrusted", "noTrustedAnchor",
   "accreditationInvalid", "accreditationRevoked", "cycle", "revoked", None}

Walks ==
  [subject : Dids, wanted : SUBSET Types, mode : {"single", "chain"}, require : BOOLEAN,
   status : BOOLEAN, current : Dids, seen : SUBSET Dids, scope : SUBSET Types \cup {None},
   hops : Seq([subject : Dids, acc : Accreditations]), acc : Accreditations \cup {None},
   depth : Depths, left : Nat, trusted : BOOLEAN]

TypeOK ==
  /\ \A d \in Dids : records[d] \in Record(d)
  /\ revoked \subseteq Accreditations \cup {Badge}
  /\ pc \in {"idle", "done", "badge", "single", "record", "proof", "status", "own"}
  /\ walk \in Walks \cup {None}
  /\ out \in Outcomes

Trusted == pc = "done" /\ out = "trusted" /\ walk.mode = "chain"

(***************************************************************************)
(* A chain that was returned leads from the badge's issuer, accreditor by  *)
(* accreditor, through at most max_depth different DIDs to an anchor; each *)
(* accreditation was in its holder's record at some moment since the call, *)
(* is signed for that holder, and covers the whole delegated scope; and    *)
(* only accreditors that may delegate stand above the leaf.                *)
(***************************************************************************)
SoundChain ==
  Trusted =>
    LET h == walk.hops
        n == Len(h)
    IN  /\ walk.scope # {} /\ walk.scope \subseteq walk.wanted
        /\ IF n = 0 THEN walk.subject \in Anchors
           ELSE h[1].subject = walk.subject /\ h[n].acc.by \in Anchors
        /\ \A i \in 1..n :
             /\ h[i].acc \in held[h[i].subject]
             /\ h[i].acc.signed /\ h[i].acc.names = h[i].subject
             /\ walk.scope \subseteq h[i].acc.types
             /\ i > 1 => h[i].subject = h[i - 1].acc.by /\ h[i].acc.role \in DelegatingRoles
             /\ \A j \in 1..n : h[i].subject = h[j].subject => i = j
        /\ n <= walk.depth

(***************************************************************************)
(* With a status resolver, nothing that was already revoked when the call  *)
(* began is part of what it trusts: not the badge, not an accreditation    *)
(* anywhere on the chain.                                                  *)
(***************************************************************************)
NothingRevokedIsTrusted ==
  Trusted /\ walk.status =>
    /\ Badge \notin revokedBefore
    /\ \A i \in DOMAIN walk.hops : walk.hops[i].acc \notin revokedBefore

\* Every verification ends, on cyclic and endlessly changing registries too.
EveryBadgeEnds == pc = "badge" ~> pc = "done"

=============================================================================
