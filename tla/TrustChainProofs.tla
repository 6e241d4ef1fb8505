-------------------------- MODULE TrustChainProofs --------------------------
(***************************************************************************)
(* SoundChain and NothingRevokedIsTrusted for every registry, every set of *)
(* anchors and every max_depth, whatever the registry does between the     *)
(* reads.  The inductive invariant says what a walk on its way up has      *)
(* gathered: the hops below the DID whose record it reads next.            *)
(*                                                                         *)
(* Then TirWalk, the adapter that reads one such record: it stays on its   *)
(* instance whatever the registry answers, and it reads an honest one      *)
(* whole, with every number of pages and of attributes on them.            *)
(***************************************************************************)
EXTENDS TrustChain, TirWalk, SequenceTheorems, FiniteSetTheorems, WellFoundedInduction, TLAPS

Fields ==
  {"subject", "wanted", "mode", "require", "status", "current", "seen", "scope", "hops", "acc",
   "depth", "left", "trusted"}

\* The registry's records are records, what they hold has been held, and what
\* was revoked stays revoked.
RegistryOK ==
  /\ DOMAIN records = Dids /\ \A d \in Dids : records[d] \in Record(d)
  /\ DOMAIN held = Dids /\ \A d \in Dids : held[d] \subseteq Catalogue[d]
  /\ pc # "idle" => \A d \in Dids : Content(records[d]) \subseteq held[d]
  /\ revokedBefore \subseteq revoked

\* The arguments of the call, which the walk never changes.
ArgumentsOK ==
  pc # "idle" =>
    /\ DOMAIN walk = Fields
    /\ walk.subject \in Dids /\ walk.wanted \in Wanted /\ walk.depth \in Nat
    /\ walk.mode \in {"single", "chain"} /\ walk.status \in BOOLEAN

Hops == Seq([subject : Dids, acc : Accreditations])

\* One hop of the chain w: as SoundChain and NothingRevokedIsTrusted have it.
HopOK(w, i) ==
  /\ w.hops[i].acc \in held[w.hops[i].subject]
  /\ w.hops[i].acc.signed /\ w.hops[i].acc.names = w.hops[i].subject
  /\ w.scope \subseteq w.hops[i].acc.types
  /\ IF i = 1 THEN w.hops[i].subject = w.subject
     ELSE w.hops[i].subject = w.hops[i - 1].acc.by /\ w.hops[i].acc.role \in DelegatingRoles
  /\ \A j \in 1..Len(w.hops) : w.hops[i].subject = w.hops[j].subject => i = j
  /\ w.status => w.hops[i].acc \notin revokedBefore

HopsOK(w) == w.hops \in Hops /\ \A i \in 1..Len(w.hops) : HopOK(w, i)

\* A walk on its way up: the hops end at the DID whose record is next, which
\* is none of theirs, and each has used up one of max_depth.
Climbing(w, used) ==
  /\ w.mode = "chain"
  /\ w.left \in Nat /\ Len(w.hops) + used + w.left = w.depth
  /\ w.current \in Dids /\ w.current \in w.seen
  /\ w.current = IF w.hops = <<>> THEN w.subject ELSE w.hops[Len(w.hops)].acc.by
  /\ \A i \in 1..Len(w.hops) : w.hops[i].subject \in w.seen \ {w.current}
  /\ w.scope = None <=> w.hops = <<>>
  /\ w.hops # <<>> => w.scope # {} /\ w.scope \subseteq w.wanted

\* The accreditation that was picked out of the record of the current DID.
Picked(w) ==
  /\ w.acc \in held[w.current] /\ w.acc.by # None
  /\ Eligible(w.acc, w.scope = None)
  /\ Covers(w.acc, IF w.scope = None THEN w.wanted ELSE w.scope, w.scope = None)

WalkOK ==
  /\ pc = "badge" => walk.hops = <<>> /\ walk.scope = None /\ walk.left = walk.depth
                     /\ walk.current = walk.subject /\ walk.seen = {walk.subject}
  /\ pc = "single" => walk.mode = "single"
  /\ pc = "record" => HopsOK(walk) /\ Climbing(walk, 0)
  /\ pc \in {"proof", "status"} => HopsOK(walk) /\ Climbing(walk, 1) /\ Picked(walk)
  /\ pc = "status" => Proves(walk.acc, walk.current)

\* A chain that leads to an anchor.
Complete(w) ==
  /\ HopsOK(w)
  /\ w.scope # {} /\ w.scope \subseteq w.wanted
  /\ IF w.hops = <<>> THEN w.subject \in Anchors ELSE w.hops[Len(w.hops)].acc.by \in Anchors
  /\ Len(w.hops) <= w.depth

DecisionOK ==
  /\ pc = "own" /\ walk.trusted /\ walk.mode = "chain" => Complete(walk)
  /\ pc = "done" /\ out = "trusted" /\ walk.mode = "chain" =>
       Complete(walk) /\ (walk.status => Badge \notin revokedBefore)

IInv ==
  /\ pc \in {"idle", "done", "badge", "single", "record", "proof", "status", "own"}
  /\ RegistryOK /\ ArgumentsOK /\ WalkOK /\ DecisionOK

----------------------------------------------------------------------------
(***************************************************************************)
(* The operators: what a record and a pick are.                            *)
(***************************************************************************)
\* A record is a sequence of the accreditations of its catalogue.
LEMMA RecordIsASequence ==
  ASSUME NEW d \in Dids, NEW r \in Record(d)
  PROVE  /\ r # Absent => \E n \in Nat : DOMAIN r = 1..n
         /\ Content(r) \subseteq Catalogue[d]
         /\ r # Absent => Content(r) = {r[i] : i \in DOMAIN r}
<1>1. CASE r = Absent
  BY <1>1 DEF Content
<1>2. CASE r # Absent
  <2>1. r \in UNION {[1..m -> Catalogue[d]] : m \in 0..MaxRecord[d]}
    BY <1>2, Zenon DEF Record, BoundedSeq, SeqOf
  <2>2. PICK m \in 0..MaxRecord[d] : r \in [1..m -> Catalogue[d]]
    BY <2>1
  <2>3. m \in Nat
    BY TrustAssumption
  <2>4. Content(r) = {r[i] : i \in DOMAIN r}
    BY <1>2, Zenon DEF Content, Range
  <2> QED BY <2>2, <2>3, <2>4
<1> QED BY <1>1, <1>2

\* What is picked is an entry of the record that is eligible and covers.
LEMMA PickIsGood ==
  ASSUME NEW d \in Dids, NEW r \in Record(d), r # Absent, NEW needed, NEW leaf,
         Pick(r, needed, leaf) # None
  PROVE  LET a == Pick(r, needed, leaf)
         IN  a \in Content(r) /\ Eligible(a, leaf) /\ Covers(a, needed, leaf)
<1> DEFINE good == Picks(r, needed, leaf)
           i == CHOOSE k \in good : \A j \in good : k <= j
<1>1. good # {} /\ Pick(r, needed, leaf) = r[i]
  BY Zenon DEF Pick
<1>2. PICK n \in Nat : DOMAIN r = 1..n
  BY RecordIsASequence
<1>3. good \subseteq Nat
  BY <1>2, SMT DEF Picks
<1>4. PICK x \in good : \A y \in good : ~ (<<y, x>> \in OpToRel(<, Nat))
  BY <1>1, <1>3, NatLessThanWellFounded, WFMin
<1>5. \A y \in good : x <= y
  <2>1. SUFFICES ASSUME NEW y \in good PROVE x <= y
    OBVIOUS
  <2>2. ~ (y < x)
    BY <1>3, <1>4, <2>1, Zenon DEF OpToRel
  <2> QED BY <1>3, <2>1, <2>2
<1>6. i \in good
  BY <1>5, Zenon
<1>7. i \in DOMAIN r /\ Eligible(r[i], leaf) /\ Covers(r[i], needed, leaf)
  BY <1>6, Zenon DEF Picks
<1>8. r[i] \in Content(r)
  BY <1>7, RecordIsASequence, Zenon
<1> QED BY <1>1, <1>7, <1>8, Zenon

----------------------------------------------------------------------------
(***************************************************************************)
(* The invariant is inductive.                                             *)
(***************************************************************************)
HeldGrows ==
  revokedBefore' = revokedBefore /\ \A d \in Dids : held[d] \subseteq held'[d]

\* Hops that stand keep standing while records are only added to.
LEMMA HopsStay ==
  ASSUME HopsOK(walk), HeldGrows,
         walk'.hops = walk.hops, walk'.scope = walk.scope,
         walk'.subject = walk.subject, walk'.status = walk.status
  PROVE  HopsOK(walk)'
<1>1. walk.hops \in Hops /\ Len(walk.hops) \in Nat
  BY DEF HopsOK, Hops
<1>2. \A i \in 1..Len(walk.hops) : walk.hops[i].subject \in Dids
  <2> SUFFICES ASSUME NEW i \in 1..Len(walk.hops) PROVE walk.hops[i].subject \in Dids
    OBVIOUS
  <2>1. walk.hops[i] \in [subject : Dids, acc : Accreditations]
    BY <1>1, ElementOfSeq DEF Hops
  <2> QED BY <2>1
<1>3. ASSUME NEW i \in 1..Len(walk.hops) PROVE HopOK(walk, i)'
  <2>1. HopOK(walk, i)
    BY DEF HopsOK
  <2>2. held[walk.hops[i].subject] \subseteq held'[walk.hops[i].subject]
    BY <1>2 DEF HeldGrows
  <2>3. revokedBefore' = revokedBefore
    BY DEF HeldGrows
  <2> QED BY <2>1, <2>2, <2>3 DEF HopOK
<1> QED BY <1>1, <1>3 DEF HopsOK

\* The hop that was picked and proved joins them: its holder is not among
\* theirs, and what it covers is the whole scope.
LEMMA HopJoins ==
  ASSUME HopsOK(walk), Climbing(walk, 1), Picked(walk), Proves(walk.acc, walk.current),
         RegistryOK, walk.wanted \in Wanted,
         walk.status => walk.acc \notin revokedBefore,
         walk'.hops = Append(walk.hops, [subject |-> walk.current, acc |-> walk.acc]),
         walk'.scope = IF walk.scope = None THEN walk.acc.types \cap walk.wanted ELSE walk.scope,
         walk'.subject = walk.subject, walk'.status = walk.status,
         held' = held, revokedBefore' = revokedBefore
  PROVE  /\ HopsOK(walk)'
         /\ walk'.scope # {} /\ walk'.scope # None /\ walk'.scope \subseteq walk.wanted
         /\ Len(walk'.hops) = Len(walk.hops) + 1
         /\ walk'.hops[Len(walk'.hops)] = [subject |-> walk.current, acc |-> walk.acc]
         /\ \A i \in 1..Len(walk.hops) : walk'.hops[i] = walk.hops[i]
<1> DEFINE h == walk.hops
           g == walk'.hops
           n == Len(h)
           x == [subject |-> walk.current, acc |-> walk.acc]
<1>1. h \in Hops /\ n \in Nat
  BY DEF HopsOK, Hops
<1>2. walk.current \in Dids /\ walk.acc \in Catalogue[walk.current]
  BY DEF Climbing, Picked, RegistryOK
<1>3. walk.acc \in Accreditations /\ walk.acc.types \subseteq Types
  BY <1>2, AccreditationAssumption DEF Accreditations
<1>4. g = Append(h, x)
  OBVIOUS
<1>5. x \in [subject : Dids, acc : Accreditations] /\ x.subject = walk.current /\ x.acc = walk.acc
  BY <1>2, <1>3
<1> HIDE DEF h, g, x
<1>6. g \in Hops /\ Len(g) = n + 1 /\ g[n + 1] = x /\ \A i \in 1..n : g[i] = h[i]
  BY <1>1, <1>4, <1>5 DEF Hops
<1>7. walk'.scope # {} /\ walk'.scope # None /\ walk'.scope \subseteq walk.wanted
      /\ walk'.scope \subseteq walk.acc.types
  <2>1. CASE walk.scope = None
    <3>1. walk'.scope = walk.acc.types \cap walk.wanted
      BY <2>1, Zenon
    <3>2. walk.acc.types \cap walk.wanted # {}
      BY <2>1, Zenon DEF Picked, Covers
    <3>3. walk'.scope \in SUBSET Types
      BY <1>3, <3>1
    <3> QED BY <3>1, <3>2, <3>3, AccreditationAssumption
  <2>2. CASE walk.scope # None
    <3>1. walk'.scope = walk.scope
      BY <2>2, Zenon
    <3>2. walk.scope \subseteq walk.acc.types
      BY <2>2, Zenon DEF Picked, Covers
    <3>3. h # <<>>
      BY <2>2, Zenon DEF Climbing, h
    <3>4. walk.scope # {} /\ walk.scope \subseteq walk.wanted
      BY <3>3, Zenon DEF Climbing, h
    <3> QED BY <3>1, <3>2, <3>4, <2>2, Zenon
  <2> QED BY <2>1, <2>2
<1>8. \A i \in 1..n : HopOK(walk, i)
  BY DEF HopsOK, h
<1>9. \A i \in 1..n : h[i].subject # walk.current
  BY DEF Climbing, h
<1>10. \A i \in 1..n : walk'.scope \subseteq h[i].acc.types
  <2>1. CASE walk.scope = None
    <3>1. h = <<>>
      BY <2>1, Zenon DEF Climbing, h
    <3> QED BY <3>1
  <2>2. CASE walk.scope # None
    BY <2>2, <1>8 DEF HopOK, h
  <2> QED BY <2>1, <2>2
<1>11. ASSUME NEW i \in 1..n PROVE HopOK(walk, i)'
  <2>1. HopOK(walk, i) /\ g[i] = h[i] /\ i \in 1..Len(g)
    BY <1>1, <1>6, <1>8
  <2>2. \A j \in 1..n + 1 : g[i].subject = g[j].subject => i = j
    <3> SUFFICES ASSUME NEW j \in 1..n + 1, g[i].subject = g[j].subject PROVE i = j
      OBVIOUS
    <3>1. CASE j \in 1..n
      BY <2>1, <3>1, <1>6 DEF HopOK, h
    <3>2. CASE j = n + 1
      BY <2>1, <3>2, <1>5, <1>6, <1>9
    <3> QED BY <1>1, <3>1, <3>2
  <2>3. i # 1 => g[i - 1] = h[i - 1]
    BY <1>1, <1>6
  <2> QED BY <2>1, <2>2, <2>3, <1>6, <1>10 DEF HopOK, h, g
<1>12. ASSUME NEW k, k = n + 1 PROVE HopOK(walk, k)'
  <2>1. walk.acc \in held[walk.current] /\ walk.acc.signed /\ walk.acc.names = walk.current
    BY Zenon DEF Picked, Proves
  <2>2. \A j \in 1..n + 1 : g[n + 1].subject = g[j].subject => n + 1 = j
    BY <1>1, <1>5, <1>6, <1>9
  <2>3. IF n + 1 = 1 THEN g[n + 1].subject = walk.subject
        ELSE g[n + 1].subject = g[n].acc.by /\ g[n + 1].acc.role \in DelegatingRoles
    <3>1. CASE n = 0
      <4>1. h = <<>>
        BY <1>1, <3>1 DEF Hops
      <4> QED BY <3>1, <4>1, <1>5, <1>6 DEF Climbing, h
    <3>2. CASE n # 0
      <4>1. h # <<>>
        BY <3>2
      <4>2. walk.scope # None /\ walk.current = h[n].acc.by
        BY <4>1, Zenon DEF Climbing, h
      <4>3. walk.acc.role \in DelegatingRoles
        BY <4>2, Zenon DEF Picked, Eligible
      <4>4. g[n] = h[n] /\ n + 1 # 1
        BY <1>1, <3>2, <1>6
      <4> QED BY <4>2, <4>3, <4>4, <1>5, <1>6
    <3> QED BY <3>1, <3>2
  <2>4. k - 1 = n /\ Len(g) = k /\ g[k] = x
    BY <1>1, <1>6, <1>12
  <2>5. \A j \in 1..Len(g) : g[k].subject = g[j].subject => k = j
    BY <1>12, <2>2, <2>4
  <2>6. IF k = 1 THEN g[k].subject = walk'.subject
        ELSE g[k].subject = g[k - 1].acc.by /\ g[k].acc.role \in DelegatingRoles
    BY <1>12, <2>3, <2>4
  <2>7. /\ g[k].acc \in held'[g[k].subject]
        /\ g[k].acc.signed /\ g[k].acc.names = g[k].subject
        /\ walk'.scope \subseteq g[k].acc.types
        /\ walk'.status => g[k].acc \notin revokedBefore'
    BY <2>1, <2>4, <1>5, <1>7
  <2> QED BY <2>5, <2>6, <2>7, Zenon DEF HopOK, g
<1>13. HopsOK(walk)'
  <2>1. ASSUME NEW i \in 1..Len(g) PROVE HopOK(walk, i)'
    BY <1>1, <1>6, <1>11, <1>12
  <2> QED BY <1>6, <2>1 DEF HopsOK, g
<1> QED BY <1>5, <1>6, <1>7, <1>13 DEF h, g, x

\* The call is left without trust: nothing more is said of the walk.
LEMMA LeaveStep ==
  ASSUME IInv, pc # "idle", NEW e, e # "trusted", Leave(e)
  PROVE  IInv'
<1>1. pc' = "done" /\ out' = e /\ walk' = walk
  BY Zenon DEF Leave
<1>2. /\ records' = records /\ revoked' = revoked /\ held' = held
      /\ revokedBefore' = revokedBefore
  BY Zenon DEF Leave, World
<1>3. RegistryOK'
  BY <1>1, <1>2, SMT DEF IInv, RegistryOK
<1>4. ArgumentsOK'
  BY <1>1, Zenon DEF IInv, ArgumentsOK
<1>5. WalkOK' /\ DecisionOK'
  BY <1>1 DEF WalkOK, DecisionOK
<1> QED BY <1>1, <1>3, <1>4, <1>5 DEF IInv

\* A decision is made on a walk that only differs in what the call keeps.
LEMMA DecidedStep ==
  ASSUME IInv, pc # "idle", pc' = "own", UNCHANGED World,
         DOMAIN walk' = Fields, walk'.subject = walk.subject, walk'.wanted = walk.wanted,
         walk'.mode = walk.mode, walk'.status = walk.status, walk'.depth = walk.depth,
         walk'.trusted /\ walk'.mode = "chain" => Complete(walk)'
  PROVE  IInv'
<1>1. /\ records' = records /\ revoked' = revoked /\ held' = held
      /\ revokedBefore' = revokedBefore
  BY Zenon DEF World
<1>2. RegistryOK'
  BY <1>1, SMT DEF IInv, RegistryOK
<1>3. ArgumentsOK'
  BY Zenon DEF IInv, ArgumentsOK
<1>4. WalkOK' /\ DecisionOK'
  BY DEF WalkOK, DecisionOK
<1> QED BY <1>2, <1>3, <1>4 DEF IInv

\* A walk that ends badly trusts nothing.
LEMMA ChainFailsStep ==
  ASSUME IInv, pc # "idle", NEW e, e # "trusted", ChainFails(e)
  PROVE  IInv'
<1>1. CASE Leave(e)
  BY <1>1, LeaveStep
<1>2. CASE Decided(walk, FALSE)
  <2>1. walk' = [walk EXCEPT !.trusted = FALSE] /\ pc' = "own" /\ UNCHANGED World
    BY <1>2, Zenon DEF Decided
  <2>2. DOMAIN walk = Fields
    BY Zenon DEF IInv, ArgumentsOK
  <2>3. /\ DOMAIN walk' = Fields /\ walk'.trusted = FALSE
        /\ walk'.subject = walk.subject /\ walk'.wanted = walk.wanted /\ walk'.mode = walk.mode
        /\ walk'.status = walk.status /\ walk'.depth = walk.depth /\ walk'.scope = walk.scope
        /\ walk'.hops = walk.hops
    BY <2>1, <2>2, Zenon DEF Fields
  <2> QED BY <2>1, <2>3, DecidedStep, Zenon
<1> QED BY <1>1, <1>2, Zenon DEF ChainFails

\* The call begins.
LEMMA BeginStep ==
  ASSUME IInv, NEW d \in Issuers, NEW wanted \in Wanted, NEW mode \in {"single", "chain"},
         NEW require \in BOOLEAN, NEW status \in BOOLEAN, NEW depth \in Depths,
         Begin(d, wanted, mode, require, status, depth)
  PROVE  IInv'
<1> USE DEF Begin
<1>1. d \in Dids /\ depth \in Nat
  BY TrustAssumption
<1>2. RegistryOK'
  <2>1. \A x \in Dids : Content(records[x]) \subseteq Catalogue[x]
    BY RecordIsASequence, Zenon DEF IInv, RegistryOK
  <2> QED BY <2>1, SMT DEF IInv, RegistryOK
<1>3. DOMAIN walk' = Fields
  BY DEF Fields
<1>4. ArgumentsOK'
  BY <1>1, <1>3 DEF ArgumentsOK
<1>5. WalkOK' /\ DecisionOK'
  BY DEF WalkOK, DecisionOK
<1> QED BY <1>2, <1>4, <1>5 DEF IInv

\* The registry changes: what was held stays held, what was revoked revoked.
LEMMA WorldStep ==
  ASSUME IInv, walk' = walk, pc' = pc, out' = out, HeldGrows, RegistryOK'
  PROVE  IInv'
<1>1. ArgumentsOK'
  BY Zenon DEF IInv, ArgumentsOK
<1>2. HopsOK(walk) => HopsOK(walk)'
  BY HopsStay, Zenon
<1>3. \A used : Climbing(walk, used) => Climbing(walk, used)'
  BY Zenon DEF Climbing
<1>4. Climbing(walk, 1) /\ Picked(walk) => Picked(walk)'
  BY DEF Climbing, Picked, HeldGrows
<1>5. WalkOK'
  BY <1>2, <1>3, <1>4, Zenon DEF IInv, WalkOK
<1>6. Complete(walk) => Complete(walk)'
  BY <1>2, Zenon DEF Complete
<1>7. revokedBefore' = revokedBefore
  BY DEF HeldGrows
<1>8. DecisionOK'
  BY <1>6, <1>7, Zenon DEF IInv, DecisionOK
<1> QED BY <1>1, <1>5, <1>8, Zenon DEF IInv

\* The registry replaces a record; what was held stays held.
LEMMA ChangeStep ==
  ASSUME IInv, NEW d \in Dids, Change(d)
  PROVE  IInv'
<1>1. PICK r \in Record(d) : /\ records' = [records EXCEPT ![d] = r]
                              /\ held' = [held EXCEPT ![d] = held[d] \cup Content(r)]
  BY Zenon DEF Change
<1>2. /\ walk' = walk /\ pc' = pc /\ out' = out /\ revoked' = revoked
      /\ revokedBefore' = revokedBefore /\ pc # "idle"
  BY DEF Change
<1>3. Content(r) \subseteq Catalogue[d]
  BY RecordIsASequence, Zenon
<1>4. DOMAIN records' = Dids /\ DOMAIN held' = Dids
  BY <1>1, Zenon DEF IInv, RegistryOK
<1>5. \A x \in Dids : /\ records'[x] = IF x = d THEN r ELSE records[x]
                      /\ held'[x] = IF x = d THEN held[x] \cup Content(r) ELSE held[x]
  BY <1>1, Zenon DEF IInv, RegistryOK
<1>6. RegistryOK'
  <2>1. \A x \in Dids : records'[x] \in Record(x)
    BY <1>5 DEF IInv, RegistryOK
  <2>2. \A x \in Dids : held'[x] \subseteq Catalogue[x]
    BY <1>3, <1>5 DEF IInv, RegistryOK
  <2>3. \A x \in Dids : Content(records'[x]) \subseteq held'[x]
    BY <1>2, <1>5 DEF IInv, RegistryOK
  <2> QED BY <1>2, <1>4, <2>1, <2>2, <2>3 DEF IInv, RegistryOK
<1>7. HeldGrows
  BY <1>2, <1>5 DEF HeldGrows
<1> QED BY <1>2, <1>6, <1>7, WorldStep

\* A status bit is set; what was revoked before the call stays as it was.
LEMMA RevokeStep ==
  ASSUME IInv, NEW x, Revoke(x)
  PROVE  IInv'
<1>1. /\ walk' = walk /\ pc' = pc /\ out' = out /\ records' = records /\ held' = held
      /\ revokedBefore' = revokedBefore /\ revoked \subseteq revoked'
  BY DEF Revoke
<1>2. RegistryOK'
  BY <1>1, SMT DEF IInv, RegistryOK
<1>3. HeldGrows
  BY <1>1 DEF HeldGrows
<1> QED BY <1>1, <1>2, <1>3, WorldStep

----------------------------------------------------------------------------
(***************************************************************************)
(* The steps of the verification.                                          *)
(***************************************************************************)
\* A step that changes where the verification is and nothing else.
LEMMA OnlyPcStep ==
  ASSUME IInv, pc # "idle", UNCHANGED <<walk, out, World>>, pc' \in {"single", "record", "status"},
         WalkOK'
  PROVE  IInv'
<1>1. /\ records' = records /\ revoked' = revoked /\ held' = held
      /\ revokedBefore' = revokedBefore /\ walk' = walk
  BY Zenon DEF World
<1>2. RegistryOK'
  BY <1>1, SMT DEF IInv, RegistryOK
<1>3. ArgumentsOK'
  BY <1>1, Zenon DEF IInv, ArgumentsOK
<1>4. DecisionOK'
  BY DEF DecisionOK
<1> QED BY <1>2, <1>3, <1>4 DEF IInv

\* The chain of no hops.
LEMMA NoHops ==
  ASSUME walk.hops = <<>>
  PROVE  HopsOK(walk) /\ Len(walk.hops) = 0
BY DEF HopsOK, Hops

\* The proof of the badge, and where the walk starts.
LEMMA BadgeProofStep ==
  ASSUME IInv, BadgeProof
  PROVE  IInv'
<1>1. pc = "badge" /\ pc # "idle"
  BY DEF BadgeProof
<1>2. /\ walk.hops = <<>> /\ walk.scope = None /\ walk.left = walk.depth
      /\ walk.current = walk.subject /\ walk.seen = {walk.subject}
  BY <1>1 DEF IInv, WalkOK
<1>3. /\ DOMAIN walk = Fields /\ walk.subject \in Dids /\ walk.wanted \in Wanted
      /\ walk.depth \in Nat /\ walk.mode \in {"single", "chain"}
  BY <1>1, Zenon DEF IInv, ArgumentsOK
<1>4. HopsOK(walk) /\ Len(walk.hops) = 0
  BY <1>2, NoHops
<1>5. CASE Leave("badgeInvalid")
  BY <1>1, <1>5, LeaveStep
<1>6. CASE /\ walk.mode = "chain" /\ walk.subject \in Anchors
           /\ Decided([walk EXCEPT !.scope = walk.wanted], TRUE)
  <2> DEFINE w == [walk EXCEPT !.scope = walk.wanted]
  <2>1. walk' = [w EXCEPT !.trusted = TRUE] /\ pc' = "own" /\ UNCHANGED World
    BY <1>6, Zenon DEF Decided
  <2>2. /\ DOMAIN w = Fields /\ w.scope = walk.wanted
        /\ w.subject = walk.subject /\ w.wanted = walk.wanted /\ w.mode = walk.mode
        /\ w.status = walk.status /\ w.depth = walk.depth /\ w.hops = walk.hops
    BY <1>3, Zenon DEF Fields
  <2> HIDE DEF w
  <2>3. /\ DOMAIN walk' = Fields /\ walk'.trusted = TRUE
        /\ walk'.subject = w.subject /\ walk'.wanted = w.wanted /\ walk'.mode = w.mode
        /\ walk'.status = w.status /\ walk'.depth = w.depth /\ walk'.scope = w.scope
        /\ walk'.hops = w.hops
    BY <2>1, <2>2, Zenon DEF Fields
  <2>4. HopsOK(walk)' /\ Len(walk'.hops) = 0
    BY <2>2, <2>3, <1>2 DEF HopsOK, Hops
  <2>5. walk.wanted # {}
    BY <1>3, TrustAssumption
  <2>6. Complete(walk)'
    BY <2>2, <2>3, <2>4, <2>5, <1>2, <1>3, <1>6 DEF Complete
  <2> QED BY <2>1, <2>2, <2>3, <2>6, <1>1, DecidedStep, Zenon
<1>7. CASE /\ walk.mode = "single" \/ walk.subject \notin Anchors
           /\ pc' = IF walk.mode = "single" THEN "single" ELSE "record"
           /\ UNCHANGED <<walk, out, World>>
  <2>1. CASE walk.mode = "single"
    <3>1. pc' = "single" /\ UNCHANGED <<walk, out, World>>
      BY <1>7, <2>1, Zenon
    <3>2. walk'.mode = "single"
      BY <2>1, <3>1, Zenon
    <3>3. WalkOK'
      BY <3>1, <3>2 DEF WalkOK
    <3> QED BY <1>1, <3>1, <3>3, OnlyPcStep
  <2>2. CASE walk.mode # "single"
    <3>1. pc' = "record" /\ UNCHANGED <<walk, out, World>> /\ walk.mode = "chain"
      BY <1>3, <1>7, <2>2, Zenon
    <3>2. Climbing(walk, 0)
      BY <1>2, <1>3, <1>4, <3>1 DEF Climbing
    <3>3. HeldGrows /\ walk' = walk
      BY <3>1 DEF HeldGrows, World
    <3>4. HopsOK(walk)'
      BY <1>4, <3>3, HopsStay, Zenon
    <3>5. Climbing(walk, 0)'
      BY <3>2, <3>3, Zenon DEF Climbing
    <3>6. WalkOK'
      BY <3>1, <3>4, <3>5 DEF WalkOK
    <3> QED BY <1>1, <3>1, <3>6, OnlyPcStep
  <2> QED BY <2>1, <2>2
<1> QED BY <1>5, <1>6, <1>7, Zenon DEF BadgeProof

\* A badge that is judged by its issuer alone.
LEMMA SingleStep ==
  ASSUME IInv, Single
  PROVE  IInv'
<1>1. pc = "single" /\ pc # "idle" /\ DOMAIN walk = Fields
  BY DEF Single, IInv, ArgumentsOK
<1> DEFINE r == records[walk.subject]
           a == Pick(r, walk.wanted, TRUE)
<1>2. CASE Leave("registryError")
  BY <1>1, <1>2, LeaveStep
<1>3. CASE Leave("notTrusted")
  BY <1>1, <1>3, LeaveStep
<1>4. CASE Decided([walk EXCEPT !.acc = a], a # None)
  <2> DEFINE w == [walk EXCEPT !.acc = a]
             t == (a # None)
  <2>1. walk' = [w EXCEPT !.trusted = t] /\ pc' = "own" /\ UNCHANGED World
    BY <1>4, Zenon DEF Decided
  <2>2. /\ DOMAIN w = Fields
        /\ w.subject = walk.subject /\ w.wanted = walk.wanted /\ w.mode = walk.mode
        /\ w.status = walk.status /\ w.depth = walk.depth
    BY <1>1, Zenon DEF Fields
  <2> HIDE DEF w, t
  <2>3. /\ DOMAIN walk' = Fields /\ walk'.trusted = t
        /\ walk'.subject = w.subject /\ walk'.wanted = w.wanted /\ walk'.mode = w.mode
        /\ walk'.status = w.status /\ walk'.depth = w.depth /\ walk'.scope = w.scope
        /\ walk'.hops = w.hops
    BY <2>1, <2>2, Zenon DEF Fields
  <2>4. walk.mode # "chain"
    BY <1>1 DEF IInv, WalkOK
  <2> QED BY <2>1, <2>2, <2>3, <2>4, <1>1, DecidedStep, Zenon
<1> QED BY <1>2, <1>3, <1>4, Zenon DEF Single

\* The record is read: the accreditation that is picked was in it.
LEMMA ReadRecordStep ==
  ASSUME IInv, ReadRecord
  PROVE  IInv'
<1> DEFINE r == records[walk.current]
           a == Pick(r, Needed, IsLeaf)
<1>1. pc = "record" /\ pc # "idle" /\ DOMAIN walk = Fields
  BY DEF ReadRecord, IInv, ArgumentsOK
<1>2. HopsOK(walk) /\ Climbing(walk, 0)
  BY <1>1, Zenon DEF IInv, WalkOK
<1>3. CASE ChainFails("noTrustedAnchor")
  BY <1>1, <1>3, ChainFailsStep
<1>4. CASE ChainFails("accreditationInvalid")
  BY <1>1, <1>4, ChainFailsStep
<1>5. CASE Leave("registryError")
  BY <1>1, <1>5, LeaveStep
<1>6. CASE /\ walk.left > 0 /\ r # Absent /\ a # None /\ a.by # None /\ pc' = "proof"
           /\ walk' = [walk EXCEPT !.acc = a, !.left = walk.left - 1]
           /\ UNCHANGED <<out, World>>
  <2> HIDE DEF a, r
  <2>1. /\ DOMAIN walk' = Fields /\ walk'.acc = a /\ walk'.left = walk.left - 1
        /\ walk'.subject = walk.subject /\ walk'.wanted = walk.wanted /\ walk'.mode = walk.mode
        /\ walk'.status = walk.status /\ walk'.depth = walk.depth /\ walk'.scope = walk.scope
        /\ walk'.hops = walk.hops /\ walk'.current = walk.current /\ walk'.seen = walk.seen
    BY <1>1, <1>6, Zenon DEF Fields
  <2>2. /\ records' = records /\ revoked' = revoked /\ held' = held
        /\ revokedBefore' = revokedBefore
    BY <1>6, Zenon DEF World
  <2>3. RegistryOK'
    BY <1>1, <1>6, <2>2, SMT DEF IInv, RegistryOK
  <2>4. ArgumentsOK'
    BY <1>1, <2>1, Zenon DEF IInv, ArgumentsOK
  <2>5. HopsOK(walk)'
    <3>1. HeldGrows
      BY <2>2 DEF HeldGrows
    <3> QED BY <1>2, <2>1, <3>1, HopsStay, Zenon
  <2>6. Climbing(walk, 1)'
    <3>1. walk.left \in Nat /\ walk.left > 0 /\ Len(walk.hops) + 0 + walk.left = walk.depth
      BY <1>2, <1>6 DEF Climbing
    <3>2. Len(walk.hops) \in Nat
      BY <1>2 DEF HopsOK, Hops
    <3>3. walk'.left \in Nat /\ Len(walk'.hops) + 1 + walk'.left = walk'.depth
      BY <2>1, <3>1, <3>2
    <3> QED BY <1>2, <2>1, <3>3, Zenon DEF Climbing
  <2>7. Picked(walk)'
    <3>1. walk.current \in Dids
      BY <1>2, Zenon DEF Climbing
    <3>2. r \in Record(walk.current) /\ Content(r) \subseteq held[walk.current]
      BY <1>1, <3>1, Zenon DEF IInv, RegistryOK, r
    <3>3. a \in Content(r) /\ Eligible(a, IsLeaf) /\ Covers(a, Needed, IsLeaf)
      BY <1>6, <3>1, <3>2, PickIsGood, Zenon DEF a
    <3>4. a \in held[walk.current]
      BY <3>2, <3>3, Zenon
    <3> QED BY <1>6, <2>1, <2>2, <3>3, <3>4, Zenon DEF Picked, IsLeaf, Needed
  <2>8. WalkOK' /\ DecisionOK'
    BY <1>6, <2>5, <2>6, <2>7 DEF WalkOK, DecisionOK
  <2> QED BY <1>6, <2>3, <2>4, <2>8 DEF IInv
<1> QED BY <1>3, <1>4, <1>5, <1>6, Zenon DEF ReadRecord

\* The hop stands: the chain is complete, has closed a cycle or goes on.
LEMMA AdvanceStep ==
  ASSUME IInv, pc \in {"proof", "status"}, Advance, Proves(walk.acc, walk.current),
         walk.status => walk.acc \notin revokedBefore
  PROVE  IInv'
<1> DEFINE a == walk.acc
           scope == IF IsLeaf THEN a.types \cap walk.wanted ELSE walk.scope
           hops == Append(walk.hops, [subject |-> walk.current, acc |-> a])
           w == [walk EXCEPT !.scope = scope, !.hops = hops]
<1>1. pc # "idle" /\ DOMAIN walk = Fields /\ walk.wanted \in Wanted /\ RegistryOK
  BY DEF IInv, ArgumentsOK
<1>2. HopsOK(walk) /\ Climbing(walk, 1) /\ Picked(walk)
  BY Zenon DEF IInv, WalkOK
<1>3. /\ DOMAIN w = Fields /\ w.scope = scope /\ w.hops = hops
      /\ w.subject = walk.subject /\ w.wanted = walk.wanted /\ w.mode = walk.mode
      /\ w.status = walk.status /\ w.depth = walk.depth /\ w.left = walk.left
      /\ w.current = walk.current /\ w.seen = walk.seen
  <2> HIDE DEF scope, hops
  <2> QED BY <1>1, Zenon DEF Fields
<1>4. scope = IF walk.scope = None THEN a.types \cap walk.wanted ELSE walk.scope
  BY Zenon DEF IsLeaf
<1>5. \/ a.by \in Anchors /\ Decided(w, TRUE)
      \/ ChainFails("cycle")
      \/ /\ a.by \notin Anchors /\ a.by \notin walk.seen /\ pc' = "record"
         /\ walk' = [w EXCEPT !.seen = w.seen \cup {a.by}, !.current = a.by]
         /\ UNCHANGED <<out, World>>
  BY Zenon DEF Advance
<1>6. Len(walk.hops) \in Nat /\ walk.left \in Nat /\ Len(walk.hops) + 1 + walk.left = walk.depth
  BY <1>2 DEF HopsOK, Hops, Climbing
<1> HIDE DEF w, scope
<1>7. CASE a.by \in Anchors /\ Decided(w, TRUE)
  <2>1. walk' = [w EXCEPT !.trusted = TRUE] /\ pc' = "own" /\ UNCHANGED World
    BY <1>7, Zenon DEF Decided
  <2>2. /\ DOMAIN walk' = Fields
        /\ walk'.subject = w.subject /\ walk'.wanted = w.wanted /\ walk'.mode = w.mode
        /\ walk'.status = w.status /\ walk'.depth = w.depth /\ walk'.scope = w.scope
        /\ walk'.hops = w.hops
    BY <1>3, <2>1, Zenon DEF Fields
  <2>3. held' = held /\ revokedBefore' = revokedBefore
    BY <2>1, Zenon DEF World
  <2>4. /\ walk'.hops = hops /\ walk'.scope = scope
        /\ walk'.subject = walk.subject /\ walk'.wanted = walk.wanted /\ walk'.mode = walk.mode
        /\ walk'.status = walk.status /\ walk'.depth = walk.depth
    BY <1>3, <2>2, Zenon
  <2>5. /\ HopsOK(walk)'
        /\ walk'.scope # {} /\ walk'.scope \subseteq walk.wanted
        /\ Len(walk'.hops) = Len(walk.hops) + 1
        /\ walk'.hops[Len(walk'.hops)] = [subject |-> walk.current, acc |-> walk.acc]
    BY <1>1, <1>2, <1>4, <2>3, <2>4, HopJoins
  <2>6. walk'.hops[Len(walk'.hops)].acc.by \in Anchors /\ walk'.hops # <<>>
    BY <1>6, <1>7, <2>5
  <2>7. Len(walk'.hops) <= walk'.depth
    BY <1>6, <2>4, <2>5
  <2>8. Complete(walk)'
    BY <2>4, <2>5, <2>6, <2>7, Zenon DEF Complete
  <2> QED BY <1>1, <2>1, <2>2, <2>4, <2>8, DecidedStep, Zenon
<1>8. CASE ChainFails("cycle")
  BY <1>1, <1>8, ChainFailsStep
<1>9. CASE /\ a.by \notin Anchors /\ a.by \notin walk.seen /\ pc' = "record"
           /\ walk' = [w EXCEPT !.seen = w.seen \cup {a.by}, !.current = a.by]
           /\ UNCHANGED <<out, World>>
  <2>1. /\ DOMAIN walk' = Fields /\ walk'.seen = w.seen \cup {a.by} /\ walk'.current = a.by
        /\ walk'.subject = w.subject /\ walk'.wanted = w.wanted /\ walk'.mode = w.mode
        /\ walk'.status = w.status /\ walk'.depth = w.depth /\ walk'.left = w.left
        /\ walk'.scope = w.scope /\ walk'.hops = w.hops
    BY <1>3, <1>9, Zenon DEF Fields
  <2>2. /\ records' = records /\ revoked' = revoked /\ held' = held
        /\ revokedBefore' = revokedBefore
    BY <1>9, Zenon DEF World
  <2>3. /\ walk'.hops = hops /\ walk'.scope = scope /\ walk'.left = walk.left
        /\ walk'.subject = walk.subject /\ walk'.wanted = walk.wanted /\ walk'.mode = walk.mode
        /\ walk'.status = walk.status /\ walk'.depth = walk.depth
        /\ walk'.seen = walk.seen \cup {a.by}
    BY <1>3, <2>1, Zenon
  <2>4. /\ HopsOK(walk)'
        /\ walk'.scope # {} /\ walk'.scope # None /\ walk'.scope \subseteq walk.wanted
        /\ Len(walk'.hops) = Len(walk.hops) + 1
        /\ walk'.hops[Len(walk'.hops)] = [subject |-> walk.current, acc |-> walk.acc]
        /\ \A i \in 1..Len(walk.hops) : walk'.hops[i] = walk.hops[i]
    BY <1>1, <1>2, <1>4, <2>2, <2>3, HopJoins
  <2>5. RegistryOK'
    BY <1>1, <1>9, <2>2, SMT DEF RegistryOK
  <2>6. ArgumentsOK'
    BY <1>1, <2>1, <2>3, Zenon DEF IInv, ArgumentsOK
  <2>7. Climbing(walk, 0)'
    <3>1. a.by \in Dids
      <4>1. a \in Catalogue[walk.current] /\ walk.current \in Dids
        BY <1>1, <1>2 DEF Climbing, Picked, RegistryOK
      <4> QED BY <4>1, <1>2, AccreditationAssumption DEF Picked
    <3>2. walk'.hops # <<>> /\ walk'.hops[Len(walk'.hops)].acc.by = a.by
      BY <1>6, <2>4
    <3>3. ASSUME NEW i \in 1..Len(walk'.hops)
          PROVE  walk'.hops[i].subject \in walk'.seen \ {walk'.current}
      <4>1. CASE i \in 1..Len(walk.hops)
        BY <4>1, <1>2, <1>9, <2>1, <2>3, <2>4 DEF Climbing
      <4>2. CASE i = Len(walk.hops) + 1
        BY <4>2, <1>2, <1>9, <2>1, <2>3, <2>4 DEF Climbing
      <4> QED BY <1>6, <2>4, <4>1, <4>2
    <3>4. walk'.left \in Nat /\ Len(walk'.hops) + 0 + walk'.left = walk'.depth
      BY <1>6, <2>3, <2>4
    <3>5. walk'.mode = "chain" /\ walk'.current = a.by /\ a.by \in walk'.seen
      BY <1>2, <2>1, <2>3 DEF Climbing
    <3> QED BY <2>3, <2>4, <3>1, <3>2, <3>3, <3>4, <3>5, Zenon DEF Climbing
  <2>8. WalkOK' /\ DecisionOK'
    BY <1>9, <2>4, <2>7 DEF WalkOK, DecisionOK
  <2> QED BY <1>9, <2>5, <2>6, <2>8 DEF IInv
<1> QED BY <1>5, <1>7, <1>8, <1>9, Zenon

\* The proof of the accreditation that was picked.
LEMMA VerifyAccreditationStep ==
  ASSUME IInv, VerifyAccreditation
  PROVE  IInv'
<1>1. pc = "proof" /\ pc # "idle"
  BY DEF VerifyAccreditation
<1>2. CASE Leave("registryError")
  BY <1>1, <1>2, LeaveStep
<1>3. CASE ChainFails("accreditationInvalid")
  BY <1>1, <1>3, ChainFailsStep
<1>4. CASE Proves(walk.acc, walk.current) /\ ~ walk.status /\ Advance
  BY <1>1, <1>4, AdvanceStep
<1>5. CASE /\ Proves(walk.acc, walk.current) /\ walk.status
           /\ pc' = "status"
           /\ UNCHANGED <<walk, out, World>>
  <2>1. HopsOK(walk) /\ Climbing(walk, 1) /\ Picked(walk)
    BY <1>1, Zenon DEF IInv, WalkOK
  <2>2. HeldGrows /\ walk' = walk /\ held' = held
    BY <1>5 DEF HeldGrows, World
  <2>3. HopsOK(walk)'
    BY <2>1, <2>2, HopsStay, Zenon
  <2>4. Climbing(walk, 1)' /\ Picked(walk)' /\ Proves(walk.acc, walk.current)'
    BY <1>5, <2>1, <2>2, Zenon DEF Climbing, Picked
  <2>5. WalkOK'
    BY <1>5, <2>3, <2>4 DEF WalkOK
  <2> QED BY <1>1, <1>5, <2>5, OnlyPcStep
<1> QED BY <1>2, <1>3, <1>4, <1>5, Zenon DEF VerifyAccreditation

\* What is not revoked now was not when the call began.
LEMMA CheckStatusStep ==
  ASSUME IInv, CheckAccreditationStatus
  PROVE  IInv'
<1>1. pc = "status" /\ pc # "idle"
  BY DEF CheckAccreditationStatus
<1>2. CASE Leave("registryError")
  BY <1>1, <1>2, LeaveStep
<1>3. CASE ChainFails("accreditationInvalid")
  BY <1>1, <1>3, ChainFailsStep
<1>4. CASE ChainFails("accreditationRevoked")
  BY <1>1, <1>4, ChainFailsStep
<1>5. CASE walk.acc \notin revoked /\ Advance
  <2>1. walk.acc \notin revokedBefore
    BY <1>5 DEF IInv, RegistryOK
  <2>2. Proves(walk.acc, walk.current)
    BY <1>1, Zenon DEF IInv, WalkOK
  <2> QED BY <1>1, <1>5, <2>1, <2>2, AdvanceStep
<1> QED BY <1>2, <1>3, <1>4, <1>5, Zenon DEF CheckAccreditationStatus

\* The status of the badge itself, last of all.
LEMMA OwnStatusStep ==
  ASSUME IInv, OwnStatus
  PROVE  IInv'
<1>1. pc = "own" /\ pc # "idle"
  BY DEF OwnStatus
<1>2. CASE Leave("registryError")
  BY <1>1, <1>2, LeaveStep
<1>3. CASE Leave("revoked")
  BY <1>1, <1>3, LeaveStep
<1>4. CASE ~ walk.trusted /\ Leave("untrusted")
  BY <1>1, <1>4, LeaveStep
<1>5. CASE walk.trusted /\ (walk.status => Badge \notin revoked) /\ Leave("trusted")
  <2>1. pc' = "done" /\ walk' = walk
    BY <1>5, Zenon DEF Leave
  <2>2. /\ records' = records /\ revoked' = revoked /\ held' = held
        /\ revokedBefore' = revokedBefore
    BY <1>5, Zenon DEF Leave, World
  <2>3. RegistryOK'
    BY <1>1, <2>1, <2>2, SMT DEF IInv, RegistryOK
  <2>4. ArgumentsOK'
    BY <1>1, <2>1, Zenon DEF IInv, ArgumentsOK
  <2>5. Complete(walk) => Complete(walk)'
    BY <2>1, <2>2, Zenon DEF Complete, HopsOK, HopOK
  <2>6. walk.status => Badge \notin revokedBefore
    BY <1>5 DEF IInv, RegistryOK
  <2>7. walk.mode = "chain" => Complete(walk)
    BY <1>1, <1>5, Zenon DEF IInv, DecisionOK
  <2>8. DecisionOK'
    BY <2>1, <2>2, <2>5, <2>6, <2>7 DEF DecisionOK
  <2>9. WalkOK'
    BY <2>1 DEF WalkOK
  <2> QED BY <2>1, <2>3, <2>4, <2>8, <2>9 DEF IInv
<1> QED BY <1>2, <1>3, <1>4, <1>5, Zenon DEF OwnStatus

----------------------------------------------------------------------------
\* Nothing is walked at first.
LEMMA InitIsGood == Init => IInv
<1> SUFFICES ASSUME Init PROVE IInv
  OBVIOUS
<1>1. RegistryOK
  BY RegistryAssumption DEF Init, RegistryOK
<1> QED BY <1>1 DEF Init, IInv, ArgumentsOK, WalkOK, DecisionOK

\* Nothing changes.
LEMMA StutterStep ==
  ASSUME IInv, UNCHANGED vars
  PROVE  IInv'
<1>1. /\ records' = records /\ revoked' = revoked /\ held' = held
      /\ revokedBefore' = revokedBefore /\ walk' = walk /\ pc' = pc /\ out' = out
  BY Zenon DEF vars
<1>2. RegistryOK' /\ HeldGrows
  BY <1>1, SMT DEF IInv, RegistryOK, HeldGrows
<1> QED BY <1>1, <1>2, WorldStep

\* Every action preserves the invariant.
LEMMA NextIsGood == IInv /\ [Next]_vars => IInv'
<1> SUFFICES ASSUME IInv, [Next]_vars PROVE IInv'
  OBVIOUS
<1>1. ASSUME NEW d \in Issuers, NEW wanted \in Wanted, NEW mode \in {"single", "chain"},
             NEW require \in BOOLEAN, NEW status \in BOOLEAN, NEW depth \in Depths,
             Begin(d, wanted, mode, require, status, depth)
      PROVE  IInv'
  BY <1>1, BeginStep
<1>2. CASE Verify
  BY <1>2, BadgeProofStep, SingleStep, ReadRecordStep, VerifyAccreditationStep,
     CheckStatusStep, OwnStatusStep, Zenon DEF Verify
<1>3. ASSUME NEW d \in Dids, Change(d) PROVE IInv'
  BY <1>3, ChangeStep
<1>4. ASSUME NEW x, Revoke(x) PROVE IInv'
  BY <1>4, RevokeStep
<1>5. CASE UNCHANGED vars
  BY <1>5, StutterStep
<1> QED BY <1>1, <1>2, <1>3, <1>4, <1>5, Zenon DEF Next

\* What the invariant says of a chain that was returned.
LEMMA ChainIsComplete ==
  ASSUME IInv, Trusted
  PROVE  Complete(walk) /\ (walk.status => Badge \notin revokedBefore)
BY Zenon DEF IInv, DecisionOK, Trusted

(***************************************************************************)
(* verify_trust_chain: a chain that is returned is one, of accreditations  *)
(* that their holders' records held since the call, whatever the registry  *)
(* became between the reads.                                               *)
(***************************************************************************)
THEOREM ReturnedChainsAreSound == Spec => []SoundChain
<1>1. IInv => SoundChain
  <2> SUFFICES ASSUME IInv, Trusted PROVE SoundChain
    BY DEF SoundChain
  <2>1. Complete(walk)
    BY ChainIsComplete
  <2>2. walk.hops \in Hops /\ \A i \in 1..Len(walk.hops) : HopOK(walk, i)
    BY <2>1, Zenon DEF Complete, HopsOK
  <2>3. Len(walk.hops) \in Nat /\ (Len(walk.hops) = 0 <=> walk.hops = <<>>)
    BY <2>2 DEF Hops
  <2>4. Len(walk.hops) # 0 => walk.hops[1].subject = walk.subject
    BY <2>2, <2>3 DEF HopOK
  <2>5. IF Len(walk.hops) = 0 THEN walk.subject \in Anchors
        ELSE walk.hops[1].subject = walk.subject /\ walk.hops[Len(walk.hops)].acc.by \in Anchors
    BY <2>1, <2>3, <2>4, Zenon DEF Complete
  <2>6. ASSUME NEW i \in 1..Len(walk.hops)
        PROVE  /\ walk.hops[i].acc \in held[walk.hops[i].subject]
               /\ walk.hops[i].acc.signed /\ walk.hops[i].acc.names = walk.hops[i].subject
               /\ walk.scope \subseteq walk.hops[i].acc.types
               /\ i > 1 => /\ walk.hops[i].subject = walk.hops[i - 1].acc.by
                           /\ walk.hops[i].acc.role \in DelegatingRoles
               /\ \A j \in 1..Len(walk.hops) :
                    walk.hops[i].subject = walk.hops[j].subject => i = j
    <3>1. HopOK(walk, i) /\ (i > 1 => i # 1)
      BY <2>2
    <3> QED BY <3>1, Zenon DEF HopOK
  <2> QED BY <2>1, <2>5, <2>6, Zenon DEF SoundChain, Complete
<1> QED BY <1>1, InitIsGood, NextIsGood, PTL DEF Spec

(***************************************************************************)
(* With resolve_status_list, nothing on the chain was revoked when the     *)
(* call began, at whatever moment its status was read.                     *)
(***************************************************************************)
THEOREM RevokedBeforeIsNotTrusted == Spec => []NothingRevokedIsTrusted
<1>1. IInv => NothingRevokedIsTrusted
  <2> SUFFICES ASSUME IInv, Trusted, walk.status PROVE NothingRevokedIsTrusted
    BY Zenon DEF NothingRevokedIsTrusted
  <2>1. Complete(walk) /\ Badge \notin revokedBefore
    BY ChainIsComplete
  <2>2. walk.hops \in Hops /\ \A i \in 1..Len(walk.hops) : HopOK(walk, i)
    BY <2>1, Zenon DEF Complete, HopsOK
  <2>3. DOMAIN walk.hops = 1..Len(walk.hops)
    BY <2>2 DEF Hops
  <2>4. \A i \in DOMAIN walk.hops : walk.hops[i].acc \notin revokedBefore
    BY <2>2, <2>3, Zenon DEF HopOK
  <2> QED BY <2>1, <2>4, Zenon DEF NothingRevokedIsTrusted
<1> QED BY <1>1, InitIsGood, NextIsGood, PTL DEF Spec

----------------------------------------------------------------------------
(***************************************************************************)
(* The adapter that reads a record, TirWalk.  Inductive is what a pinned   *)
(* walk has requested together with the page it reads next: what _follow   *)
(* lets through names the configured address, since it is put where there  *)
(* was none.                                                               *)
(***************************************************************************)
TirIInv ==
  /\ listed \in Seq(Range(listed)) /\ fetched \in Seq(Range(fetched))
  /\ pinned /\ url # Missing => url.names = "own"
  /\ StaysOnInstance

LEMMA AppendRange ==
  ASSUME NEW s, NEW x, s \in Seq(Range(s))
  PROVE  /\ Append(s, x) \in Seq(Range(Append(s, x)))
         /\ Range(Append(s, x)) = Range(s) \cup {x}
<1> DEFINE t == Append(s, x)
           n == Len(s)
<1>1. /\ n \in Nat /\ DOMAIN s = 1..n /\ t \in Seq(Range(s) \cup {x})
      /\ DOMAIN t = 1..n + 1 /\ t[n + 1] = x /\ \A i \in 1..n : t[i] = s[i]
  BY DEF Range
<1>2. 1..n \subseteq 1..n + 1 /\ n + 1 \in 1..n + 1 /\ \A i \in 1..n + 1 : i \in 1..n \/ i = n + 1
  BY <1>1
<1> HIDE DEF t, n
<1>3. Range(t) = Range(s) \cup {x}
  BY <1>1, <1>2 DEF Range
<1>4. t \in Seq(Range(t))
  BY <1>1, <1>3
<1> QED BY <1>3, <1>4 DEF t

LEMMA InitTirIInv == TirInit => TirIInv
<1>1. <<>> \in Seq(Range(<<>>)) /\ Range(<<>>) = {} /\ DOMAIN <<>> = {}
  BY DEF Range
<1> QED BY <1>1, TirAssumption DEF TirInit, TirIInv, StaysOnInstance

\* The link that is followed next, by _follow and on the issuer's answer.
LEMMA FollowTirIInv ==
  ASSUME TirIInv, NEW l, Follow(l), UNCHANGED pinned
  PROVE  pinned' /\ url' # Missing => url'.names = "own"
BY DEF Follow, End, TirIInv, Bound, Refused

LEMMA NextTirIInv == TirIInv /\ [TirNext]_tirVars => TirIInv'
<1> SUFFICES ASSUME TirIInv, [TirNext]_tirVars PROVE TirIInv'
  OBVIOUS
<1>1. ASSUME UNCHANGED <<pinned, listed, fetched>>, pinned' /\ url' # Missing => url'.names = "own"
      PROVE  TirIInv'
  BY <1>1 DEF TirIInv, StaysOnInstance
<1>2. CASE IssuerRecord \/ ReadRevision \/ UNCHANGED tirVars
  BY <1>1, <1>2 DEF IssuerRecord, ReadRevision, tirVars, TirIInv
<1>3. CASE IssuerAnswer
  <2>1. UNCHANGED <<pinned, listed, fetched>>
    BY <1>3 DEF IssuerAnswer
  <2>2. CASE UNCHANGED url
    BY <1>1, <2>1, <2>2 DEF TirIInv
  <2>3. CASE \E l : Follow(l)
    BY <1>1, <2>1, <2>3, FollowTirIInv
  <2> QED BY <1>3, <2>2, <2>3 DEF IssuerAnswer
<1>4. CASE EndOfPage
  <2>1. UNCHANGED <<pinned, listed, fetched>>
    BY <1>4 DEF EndOfPage
  <2>2. CASE UNCHANGED url
    BY <1>1, <2>1, <2>2 DEF TirIInv
  <2>3. CASE url' = Missing
    BY <1>1, <2>1, <2>3, TirAssumption
  <2>4. CASE \E l : Follow(l)
    BY <1>1, <2>1, <2>4, FollowTirIInv
  <2> QED BY <1>4, <2>2, <2>3, <2>4 DEF EndOfPage
<1>5. CASE ReadPage
  <2>1. UNCHANGED <<pinned, url, fetched>> /\ listed' \in {listed, Append(listed, url)}
    BY <1>5 DEF ReadPage
  <2>2. CASE listed' = listed
    BY <1>1, <2>1, <2>2 DEF TirIInv
  <2>3. CASE listed' = Append(listed, url) /\ url # Missing
    <3>1. listed' \in Seq(Range(listed')) /\ Range(listed') = Range(listed) \cup {url}
      BY <2>3, AppendRange DEF TirIInv
    <3>2. pinned => \A x \in Range(listed) \cup {url} : Instance(x.names) = "own"
      BY <2>3 DEF TirIInv, StaysOnInstance, Instance, Range
    <3>3. \A i \in DOMAIN listed' : listed'[i] \in Range(listed')
      BY DEF Range
    <3> QED BY <2>1, <3>1, <3>2, <3>3 DEF TirIInv, StaysOnInstance
  <2> QED BY <1>5, <2>2, <2>3 DEF ReadPage, WantsPage
<1>6. CASE NextItem
  <2>1. /\ UNCHANGED <<pinned, url, listed>>
        /\ \/ fetched' = fetched
           \/ \E item : /\ fetched' = Append(fetched, [item |-> item, names |-> Bound(item.link)])
                        /\ ~ Refused(item.link)
    BY <1>6 DEF NextItem
  <2>2. ASSUME NEW item, ~ Refused(item.link), NEW f, f = [item |-> item, names |-> Bound(item.link)],
               fetched' = Append(fetched, f)
        PROVE  TirIInv'
    <3>1. fetched' \in Seq(Range(fetched')) /\ Range(fetched') = Range(fetched) \cup {f}
      BY <2>2, AppendRange DEF TirIInv
    <3>2. pinned => f.names = "own"
      BY <2>2 DEF Bound, Refused
    <3>3. pinned => \A x \in Range(fetched) \cup {f} : Instance(x.names) = "own"
      BY <3>2 DEF TirIInv, StaysOnInstance, Instance, Range
    <3>4. \A i \in DOMAIN fetched' : fetched'[i] \in Range(fetched')
      BY DEF Range
    <3> QED BY <2>1, <3>1, <3>3, <3>4 DEF TirIInv, StaysOnInstance
  <2> QED BY <1>1, <2>1, <2>2 DEF TirIInv
<1> QED BY <1>2, <1>3, <1>4, <1>5, <1>6 DEF TirNext, Step

(***************************************************************************)
(* "A walk never mixes registry instances": whatever a registry answers,   *)
(* and however long its listing is, every page and every revision that an  *)
(* adapter with a contract address requests is read on that instance, the  *)
(* links that name none included (_on_contract_address).                   *)
(***************************************************************************)
THEOREM WalksStayOnInstance == TirSpec => []StaysOnInstance
<1>1. TirIInv => StaysOnInstance
  BY DEF TirIInv
<1> QED BY <1>1, InitTirIInv, NextTirIInv, PTL DEF TirSpec

----------------------------------------------------------------------------
(***************************************************************************)
(* A walk of the honest registry from the first page of its listing.  It   *)
(* has read the first n pages; what it has collected is where it stands in *)
(* the attributes, and what is left of the page reaches to the page's end. *)
(***************************************************************************)
\* The attributes after the first c, up to the e-th.
Stretch(c, e) == [j \in 1..(e - c) |-> Attributes[c + j]]

\* What an honest page links to, and what is requested for it.
NextLinks(n) ==
  IF n < Len(Book) THEN {[page |-> Book[n + 1], names |-> "none"]}
  ELSE {[page |-> Book[n], names |-> "none"], Missing}

Named == IF pinned THEN "own" ELSE "none"

At(k) == [page |-> Book[k], names |-> Named]

NextUrls(n) == IF n < Len(Book) THEN {At(n + 1)} ELSE {At(n), Missing}

FromTheStart == registry = "honest" /\ listed # <<>> /\ listed[1] = FirstUrl

InTheBook(n) ==
  /\ n \in 1..Len(Book)
  /\ seen = {At(k) : k \in 1..n} /\ IsFiniteSet(seen) /\ Cardinality(seen) = n

InThePage(n) ==
  /\ todo = [items |-> todo.items, total |-> todo.total, next |-> todo.next]
  /\ todo.total \in {Len(Attributes), Missing}
  /\ todo.next \in NextLinks(n)

ReadSoFar(n) ==
  /\ InTheBook(n)
  /\ total \in {Len(Attributes), Missing}
  /\ collected \in 0..Ends[n] /\ accs = Stretch(0, collected)
  /\ stage = "page" => collected = Ends[n] /\ url \in NextUrls(n)
  /\ stage \in {"item", "revision"} => InThePage(n)
  /\ stage = "item" => todo.items = Stretch(collected, Ends[n])
  /\ stage = "revision" => /\ collected < Ends[n] /\ todo.items = Stretch(collected + 1, Ends[n])
                           /\ Last(fetched).item = Attributes[collected + 1]
  /\ ended = "record" => accs = Attributes

Unread ==
  seen = {} /\ total = Missing /\ collected = 0 /\ accs = <<>> /\ stage \notin {"item", "revision"}

CompleteIInv ==
  /\ listed \in Seq(Range(listed)) /\ fetched \in Seq(Range(fetched))
  /\ stage # "done" => ended = Missing
  /\ stage \in {"idle", "issuer"} => listed = <<>>
  /\ listed = <<>> => Unread
  /\ FromTheStart => ReadSoFar(Len(listed))

\* What HonestAssumption says of one page.
LEMMA HonestPages ==
  ASSUME NEW k \in 1..Len(Book)
  PROVE  /\ Len(Book) \in Nat /\ Len(Attributes) \in Nat /\ DOMAIN Attributes = 1..Len(Attributes)
         /\ Book[k] \in Pages /\ Ends[k - 1] \in Nat /\ Ends[k] \in Nat
         /\ Ends[k - 1] < Ends[k] /\ Ends[k] <= Len(Attributes)
         /\ k = Len(Book) => Ends[k] = Len(Attributes)
         /\ \A j \in 1..Len(Book) : Book[j] = Book[k] => j = k
BY HonestAssumption

LEMMA HonestAnswers ==
  ASSUME NEW k \in 1..Len(Book), NEW p \in Listing["honest"][At(k)]
  PROVE  /\ p = [items |-> p.items, total |-> p.total, next |-> p.next]
         /\ p.items = Stretch(Ends[k - 1], Ends[k])
         /\ p.total \in {Len(Attributes), Missing}
         /\ p.next \in NextLinks(k)
BY HonestAssumption DEF Stretch, NextLinks, At, Named

\* What a link leads to: the next page, or the end, on the walk's instance.
LEMMA HonestUrls ==
  ASSUME NEW k \in 1..Len(Book)
  PROVE  At(k) \in Urls /\ At(k) # Missing /\ [page |-> Book[k], names |-> "none"] \notin {Off, Missing}
<1>1. At(k) \in Urls /\ [page |-> Book[k], names |-> "none"] \in Urls
  BY HonestPages DEF At, Named, Urls, Names
<1> QED BY <1>1, TirAssumption

LEMMA HonestLinks ==
  ASSUME NEW k \in 1..Len(Book), NEW l \in NextLinks(k)
  PROVE  /\ l # Off
         /\ l = Missing => Missing \in NextUrls(k)
         /\ l # Missing => ~ Refused(l.names) /\ [page |-> l.page, names |-> Bound(l.names)] \in NextUrls(k)
<1>1. Len(Book) \in Nat /\ (k < Len(Book) => k + 1 \in 1..Len(Book))
  BY HonestPages
<1>2. CASE k < Len(Book)
  BY <1>1, <1>2, HonestUrls DEF NextLinks, NextUrls, At, Named, Bound, Refused
<1>3. CASE ~ (k < Len(Book))
  <2>1. l \in {[page |-> Book[k], names |-> "none"], Missing} /\ NextUrls(k) = {At(k), Missing}
    BY <1>3 DEF NextLinks, NextUrls
  <2> QED BY <2>1, HonestUrls, TirAssumption DEF At, Named, Bound, Refused
<1> QED BY <1>2, <1>3

\* Stretches of the attributes: the first of one, the rest of one, and one more.
LEMMA StretchStep ==
  ASSUME NEW c \in Nat, NEW e \in Nat, c < e, e <= Len(Attributes)
  PROVE  /\ Stretch(c, e) \in Seq(Range(Attributes)) /\ Stretch(c, e) # <<>>
         /\ Head(Stretch(c, e)) = Attributes[c + 1]
         /\ Tail(Stretch(c, e)) = Stretch(c + 1, e)
         /\ Append(Stretch(0, c), Attributes[c + 1]) = Stretch(0, c + 1)
<1> DEFINE s == Stretch(c, e)
<1>1. Len(Attributes) \in Nat /\ \A j \in 1..Len(Attributes) : Attributes[j] \in Range(Attributes)
  BY HonestAssumption
<1>2. s \in Seq(Range(Attributes)) /\ Len(s) = e - c /\ \A j \in 1..(e - c) : s[j] = Attributes[c + j]
  BY <1>1 DEF Stretch
<1>3. Tail(s) \in Seq(Range(Attributes)) /\ Len(Tail(s)) = e - c - 1
      /\ \A j \in 1..(e - c - 1) : Tail(s)[j] = s[j + 1]
  BY <1>2
<1>4. Stretch(c + 1, e) \in Seq(Range(Attributes)) /\ Len(Stretch(c + 1, e)) = e - c - 1
      /\ \A j \in 1..(e - c - 1) : Stretch(c + 1, e)[j] = Attributes[c + 1 + j]
  BY <1>1 DEF Stretch
<1>5. \A j \in 1..(e - c - 1) : Tail(s)[j] = Stretch(c + 1, e)[j]
  BY <1>2, <1>3, <1>4
<1>6. Tail(s) = Stretch(c + 1, e)
  BY <1>3, <1>4, <1>5, SeqEqual
<1>7. Stretch(0, c) \in Seq(Range(Attributes)) /\ Len(Stretch(0, c)) = c
      /\ \A j \in 1..c : Stretch(0, c)[j] = Attributes[j]
  BY <1>1 DEF Stretch
<1>8. Stretch(0, c + 1) \in Seq(Range(Attributes)) /\ Len(Stretch(0, c + 1)) = c + 1
      /\ \A j \in 1..(c + 1) : Stretch(0, c + 1)[j] = Attributes[j]
  BY <1>1 DEF Stretch
<1> DEFINE t == Append(Stretch(0, c), Attributes[c + 1])
<1>9. t \in Seq(Range(Attributes)) /\ Len(t) = c + 1 /\ \A j \in 1..c : t[j] = Attributes[j]
      /\ t[c + 1] = Attributes[c + 1]
  BY <1>1, <1>7
<1>10. \A j \in 1..(c + 1) : t[j] = Stretch(0, c + 1)[j]
  <2>1. \A j \in 1..(c + 1) : j \in 1..c \/ j = c + 1
    OBVIOUS
  <2>3. t[c + 1] = Attributes[c + 1] /\ \A j \in 1..c : t[j] = Attributes[j]
    BY <1>9
  <2> HIDE DEF t
  <2>2. ASSUME NEW j \in 1..(c + 1) PROVE t[j] = Attributes[j]
    <3>1. CASE j = c + 1
      BY <2>3, <3>1
    <3>2. CASE j \in 1..c
      BY <2>3, <3>2
    <3> QED BY <2>1, <3>1, <3>2
  <2> QED BY <1>8, <2>2
<1>11. t = Stretch(0, c + 1)
  BY <1>8, <1>9, <1>10, SeqEqual
<1>12. s # <<>> /\ Head(s) = Attributes[c + 1]
  BY <1>2
<1> QED BY <1>2, <1>6, <1>11, <1>12

LEMMA StretchEnds ==
  /\ Stretch(0, 0) = <<>> /\ Stretch(0, Len(Attributes)) = Attributes
  /\ \A c, e \in Nat : c <= e /\ Stretch(c, e) = <<>> => c = e
<1>1. Len(Attributes) \in Nat /\ Attributes \in Seq(Range(Attributes))
  BY HonestAssumption
<1>2. Stretch(0, 0) = <<>>
  BY DEF Stretch
<1>3. Stretch(0, Len(Attributes)) = Attributes
  <2>1. /\ Stretch(0, Len(Attributes)) \in Seq(Range(Attributes))
        /\ Len(Stretch(0, Len(Attributes))) = Len(Attributes)
        /\ \A j \in 1..Len(Attributes) : Stretch(0, Len(Attributes))[j] = Attributes[j]
    BY <1>1 DEF Stretch
  <2> QED BY <1>1, <2>1, SeqEqual
<1>4. ASSUME NEW c \in Nat, NEW e \in Nat, c <= e, Stretch(c, e) = <<>> PROVE c = e
  <2>1. DOMAIN Stretch(c, e) = 1..(e - c) /\ DOMAIN Stretch(c, e) = {}
    BY <1>4 DEF Stretch
  <2>2. c < e => 1 \in 1..(e - c)
    OBVIOUS
  <2> QED BY <1>4, <2>1, <2>2
<1> QED BY <1>2, <1>3, <1>4
(***************************************************************************)
(* One action at a time.                                                   *)
(***************************************************************************)
LEMMA InitComplete == TirInit => CompleteIInv
<1>1. <<>> \in Seq(Range(<<>>))
  BY DEF Range
<1> QED BY <1>1 DEF TirInit, CompleteIInv, FromTheStart, Unread

\* The issuer's response: nothing has been read.
LEMMA IssuerComplete ==
  ASSUME CompleteIInv, IssuerRecord \/ IssuerAnswer
  PROVE  CompleteIInv'
<1>1. listed = <<>> /\ listed' = <<>> /\ UNCHANGED <<registry, seen, total, collected, accs, fetched>>
  BY DEF CompleteIInv, IssuerRecord, IssuerAnswer
<1>2. stage' \in {"issuer", "page", "done"} /\ (stage' # "done" => ended' = ended) /\ stage # "done"
  BY DEF IssuerRecord, IssuerAnswer, End, Follow
<1> QED BY <1>1, <1>2 DEF CompleteIInv, FromTheStart, Unread

\* A walk that has begun and is not at its end goes on reading pages.
LEMMA PageWanted ==
  ASSUME CompleteIInv, FromTheStart, stage = "page"
  PROVE  /\ Len(listed) < Len(Book) => WantsPage /\ url = At(Len(listed) + 1)
         /\ WantsPage => Len(listed) < Len(Book)
<1> PICK n : n = Len(listed)
  OBVIOUS
<1>1. InTheBook(n) /\ url \in NextUrls(n)
  BY DEF CompleteIInv, ReadSoFar
<1>2. n \in 1..Len(Book) /\ seen = {At(k) : k \in 1..n} /\ Cardinality(seen) = n
  BY <1>1 DEF InTheBook
<1>3. Len(Book) \in Nat /\ Len(Book) <= MaxPages /\ MaxPages \in Nat /\ n \in Nat
  BY <1>2, HonestAssumption, TirAssumption
<1>4. CASE n < Len(Book)
  <2>1. url = At(n + 1) /\ url # Missing
    BY <1>1, <1>2, <1>3, <1>4, HonestUrls DEF NextUrls
  <2>2. n + 1 \in 1..Len(Book) /\ n + 1 \notin 1..n /\ 1..n \subseteq 1..Len(Book)
    BY <1>2, <1>3, <1>4
  <2>3. At(n + 1) \notin seen
    <3>1. \A k \in 1..n : Book[k] # Book[n + 1]
      BY <2>2, HonestPages
    <3>2. \A k \in 1..n : At(k) # At(n + 1)
      BY <3>1 DEF At
    <3> QED BY <1>2, <3>2
  <2> QED BY <1>2, <1>3, <1>4, <2>1, <2>3 DEF WantsPage
<1>5. CASE ~ (n < Len(Book))
  <2>1. n \in 1..n /\ ~ (n < Len(Book))
    BY <1>2, <1>3, <1>5
  <2>3. url \in {At(n), Missing}
    BY <1>1, <2>1 DEF NextUrls
  <2>2. url = Missing \/ url \in seen
    BY <1>2, <2>1, <2>3
  <2> QED BY <1>3, <1>5, <2>2 DEF WantsPage
<1> QED BY <1>2, <1>3, <1>4, <1>5

\* The n-th page is answered.
LEMMA PageRead ==
  ASSUME CompleteIInv, ReadPage, WantsPage, FromTheStart'
  PROVE  ReadSoFar(Len(listed))'
<1> PICK m : m = Len(listed)
  OBVIOUS
<1> PICK n : n = m + 1
  OBVIOUS
<1>1. /\ stage = "page" /\ seen' = seen \cup {url} /\ listed' = Append(listed, url)
      /\ UNCHANGED <<registry, pinned, url, collected, total, accs, fetched>>
  BY DEF ReadPage
<1>2. listed \in Seq(Range(listed)) /\ m \in Nat /\ Len(listed') = n /\ ended # "record"
  BY <1>1, HonestAssumption DEF CompleteIInv
<1>3. /\ m \in 0..(Len(Book) - 1) /\ url = At(n)
      /\ seen = {At(k) : k \in 1..m} /\ IsFiniteSet(seen) /\ Cardinality(seen) = m
      /\ total \in {Len(Attributes), Missing} /\ collected = Ends[m] /\ accs = Stretch(0, collected)
  <2>1. CASE listed = <<>>
    <3>1. Unread /\ m = 0
      BY <2>1 DEF CompleteIInv
    <3>2. url = At(1)
      BY <1>1, <2>1 DEF FromTheStart, FirstUrl, At, Named
    <3>3. {At(k) : k \in 1..0} = {}
      OBVIOUS
    <3>4. IsFiniteSet({}) /\ Cardinality({}) = 0
      BY FS_EmptySet
    <3>5. 1 <= Len(Book) /\ Len(Book) \in Nat /\ Ends[0] = 0
      BY HonestAssumption
    <3> QED BY <3>1, <3>2, <3>3, <3>4, <3>5, StretchEnds DEF Unread
  <2>2. CASE listed # <<>>
    <3>1. listed'[1] = listed[1]
      BY <1>1, <1>2, <2>2
    <3>2. FromTheStart
      BY <1>1, <2>2, <3>1 DEF FromTheStart, FirstUrl
    <3>3. ReadSoFar(m)
      BY <3>2 DEF CompleteIInv
    <3>4. m < Len(Book) /\ url = At(n)
      BY <1>1, <3>2, PageWanted
    <3> QED BY <1>1, <1>2, <3>3, <3>4, HonestAssumption DEF ReadSoFar, InTheBook
  <2> QED BY <2>1, <2>2
<1>4. n \in 1..Len(Book) /\ n - 1 = m
  BY <1>2, <1>3, HonestAssumption
<1>5. InTheBook(n)'
  <2>1. 1..n = (1..m) \cup {n}
    BY <1>2
  <2>2. {At(k) : k \in 1..n} = seen \cup {At(n)}
    BY <1>3, <2>1
  <2>3. url \notin seen
    BY DEF WantsPage
  <2>4. IsFiniteSet(seen \cup {url}) /\ Cardinality(seen \cup {url}) = Cardinality(seen) + 1
    BY <1>3, <2>3, FS_AddElement
  <2>5. \A k : At(k)' = At(k)
    BY <1>1 DEF At, Named
  <2> QED BY <1>1, <1>3, <1>4, <2>2, <2>4, <2>5 DEF InTheBook
<1>6. Ends[m] \in Nat /\ Ends[n] \in Nat /\ Ends[m] < Ends[n] /\ Ends[n] <= Len(Attributes)
  BY <1>4, HonestPages
<1>7. ASSUME NEW p \in Listing["honest"][At(n)]
      PROVE  /\ p = [items |-> p.items, total |-> p.total, next |-> p.next] /\ p.items # <<>>
             /\ p.items = Stretch(Ends[m], Ends[n])
             /\ p.total \in {Len(Attributes), Missing} /\ p.next \in NextLinks(n)
  <2>1. p.items = Stretch(Ends[m], Ends[n])
    BY <1>4, HonestAnswers
  <2>2. Stretch(Ends[m], Ends[n]) # <<>>
    BY <1>6, StretchStep
  <2> QED BY <1>4, <2>1, <2>2, HonestAnswers
<1>8. \/ stage' = "done" /\ ended' # "record"
      \/ /\ stage' = "item" /\ ended' = ended
         /\ InThePage(n)' /\ todo'.items = Stretch(collected, Ends[n])
  <2>1. registry = "honest"
    BY <1>1 DEF FromTheStart
  <2>2. \/ \E e \in {"http", "malformed"} : End(e)
        \/ \E p \in Listing["honest"][At(n)] :
             IF p.items = <<>> THEN End("record") ELSE stage' = "item" /\ todo' = p /\ UNCHANGED ended
    BY <1>3, <2>1 DEF ReadPage
  <2> QED BY <1>3, <1>7, <2>2 DEF End, InThePage, NextLinks
<1>9. (collected \in 0..Ends[n] /\ total \in {Len(Attributes), Missing} /\ accs = Stretch(0, collected))'
  BY <1>1, <1>3, <1>6 DEF Stretch
<1> QED BY <1>1, <1>2, <1>5, <1>8, <1>9 DEF ReadSoFar, Stretch, NextUrls

LEMMA PagesComplete ==
  ASSUME CompleteIInv, ReadPage
  PROVE  CompleteIInv'
<1>1. /\ stage = "page" /\ fetched' = fetched /\ registry' = registry /\ pinned' = pinned /\ accs' = accs
      /\ UNCHANGED <<collected, total>> /\ stage' \in {"done", "item"}
      /\ stage' # "done" => ended' = ended
  BY DEF ReadPage, End
<1>2. CASE WantsPage
  <2>1. listed' = Append(listed, url)
    BY <1>2 DEF ReadPage
  <2>2. listed' \in Seq(Range(listed')) /\ listed' # <<>>
    BY <2>1, AppendRange DEF CompleteIInv
  <2>3. FromTheStart' => ReadSoFar(Len(listed))'
    BY <1>2, PageRead
  <2> QED BY <1>1, <2>2, <2>3 DEF CompleteIInv
<1>3. CASE ~ WantsPage
  <2>1. stage' = "done" /\ ended' = "record" /\ UNCHANGED <<seen, todo, listed, url>>
    BY <1>3 DEF ReadPage, End
  <2>2. ASSUME FromTheStart' PROVE ReadSoFar(Len(listed))'
    <3> PICK n : n = Len(listed)
      OBVIOUS
    <3>1. FromTheStart /\ ReadSoFar(n)
      BY <1>1, <2>1, <2>2 DEF FromTheStart, FirstUrl, CompleteIInv
    <3>2. n \in 1..Len(Book) /\ Len(Book) \in Nat /\ ~ (n < Len(Book))
      BY <1>1, <1>3, <3>1, PageWanted, HonestAssumption DEF ReadSoFar, InTheBook
    <3>3. n = Len(Book) /\ collected = Ends[n]
      BY <1>1, <3>1, <3>2 DEF ReadSoFar
    <3>4. accs = Attributes
      BY <3>1, <3>3, StretchEnds, HonestAssumption DEF ReadSoFar
    <3> QED BY <1>1, <2>1, <3>1, <3>4 DEF ReadSoFar, InTheBook, Stretch, NextUrls, At, Named
  <2> QED BY <1>1, <2>1, <2>2 DEF CompleteIInv, Unread
<1> QED BY <1>2, <1>3

\* What a walk has in hand between two attributes of a page.
LEMMA InHand ==
  ASSUME CompleteIInv, FromTheStart, stage \in {"item", "revision"}
  PROVE  /\ Len(listed) \in 1..Len(Book) /\ collected \in Nat
         /\ Ends[Len(listed)] \in Nat /\ collected <= Ends[Len(listed)]
         /\ Ends[Len(listed)] <= Len(Attributes) /\ Len(Attributes) \in Nat
         /\ ended = Missing
<1>1. ReadSoFar(Len(listed)) /\ ended = Missing
  BY DEF CompleteIInv
<1>2. Len(listed) \in 1..Len(Book) /\ collected \in 0..Ends[Len(listed)]
  BY <1>1 DEF ReadSoFar, InTheBook
<1> QED BY <1>1, <1>2, HonestPages

LEMMA ItemsComplete ==
  ASSUME CompleteIInv, NextItem
  PROVE  CompleteIInv'
<1>1. /\ stage = "item" /\ todo.items # <<>> /\ UNCHANGED <<registry, pinned, url, seen, total, accs, listed>>
      /\ todo' = [todo EXCEPT !.items = Tail(@)]
      /\ stage' \in {"item", "revision", "done"} /\ (stage' # "done" => ended' = ended)
  BY DEF NextItem, End, Yielded
<1>2. listed # <<>> /\ listed' # <<>>
  BY <1>1 DEF CompleteIInv, Unread
<1>3. fetched' \in Seq(Range(fetched'))
  <2>1. fetched' = fetched \/ \E x : fetched' = Append(fetched, x)
    BY DEF NextItem
  <2>2. fetched \in Seq(Range(fetched))
    BY DEF CompleteIInv
  <2>3. \A x : Append(fetched, x) \in Seq(Range(Append(fetched, x)))
    BY <2>2, AppendRange
  <2> QED BY <2>1, <2>2, <2>3, Zenon
<1>4. ASSUME FromTheStart' PROVE ReadSoFar(Len(listed))'
  <2> PICK n : n = Len(listed)
    OBVIOUS
  <2>1. FromTheStart /\ ReadSoFar(n)
    BY <1>1, <1>4 DEF FromTheStart, FirstUrl, CompleteIInv
  <2>2. /\ n \in 1..Len(Book) /\ collected \in Nat /\ Ends[n] \in Nat /\ collected <= Ends[n]
        /\ Ends[n] <= Len(Attributes) /\ Len(Attributes) \in Nat /\ ended = Missing
    BY <1>1, <2>1, InHand
  <2>3. todo.items = Stretch(collected, Ends[n]) /\ InThePage(n)
    BY <1>1, <2>1 DEF ReadSoFar
  <2>4. collected < Ends[n]
    <3>1. Stretch(collected, collected) = <<>>
      BY <2>2 DEF Stretch
    <3> QED BY <1>1, <2>2, <2>3, <3>1
  <2>5. Head(todo.items) = Attributes[collected + 1] /\ Tail(todo.items) = Stretch(collected + 1, Ends[n])
    BY <2>2, <2>3, <2>4, StretchStep
  <2>6. Attributes[collected + 1].link = "none"
    <3>1. collected + 1 \in 1..Len(Attributes)
      BY <2>2, <2>4
    <3> QED BY <3>1, HonestAssumption
  <2> DEFINE f == [item |-> Head(todo.items), names |-> Bound(Head(todo.items).link)]
  <2>7. stage' = "revision" /\ fetched' = Append(fetched, f) /\ collected' = collected
    BY <2>5, <2>6 DEF NextItem, Refused
  <2>8. Last(fetched').item = Attributes[collected + 1]
    <3>1. f.item = Attributes[collected + 1]
      BY <2>5
    <3> HIDE DEF f
    <3>2. Last(fetched') = f
      BY <2>7 DEF CompleteIInv, Last
    <3> QED BY <3>1, <3>2
  <2>9. InThePage(n)' /\ todo'.items = Stretch(collected + 1, Ends[n])
    BY <1>1, <2>3, <2>5 DEF InThePage, NextLinks
  <2>10. ended' # "record"
    BY <1>1, <2>2, <2>7, HonestAssumption
  <2> QED BY <1>1, <2>1, <2>4, <2>7, <2>8, <2>9, <2>10 DEF ReadSoFar, InTheBook, Stretch, NextUrls, At, Named
<1> QED BY <1>1, <1>2, <1>3, <1>4 DEF CompleteIInv

LEMMA RevisionsComplete ==
  ASSUME CompleteIInv, ReadRevision
  PROVE  CompleteIInv'
<1>1. /\ stage = "revision" /\ UNCHANGED <<registry, pinned, url, seen, total, todo, listed, fetched>>
      /\ stage' \in {"item", "done"} /\ (stage' # "done" => ended' = ended)
  BY DEF ReadRevision, End, Yielded
<1>2. listed # <<>>
  BY <1>1 DEF CompleteIInv, Unread
<1>3. ASSUME FromTheStart' PROVE ReadSoFar(Len(listed))'
  <2> PICK n : n = Len(listed)
    OBVIOUS
  <2>1. FromTheStart /\ ReadSoFar(n)
    BY <1>1, <1>3 DEF FromTheStart, FirstUrl, CompleteIInv
  <2>2. /\ n \in 1..Len(Book) /\ collected \in Nat /\ Ends[n] \in Nat
        /\ Ends[n] <= Len(Attributes) /\ Len(Attributes) \in Nat /\ ended = Missing
    BY <1>1, <2>1, InHand
  <2>3. /\ collected < Ends[n] /\ Last(fetched).item = Attributes[collected + 1] /\ accs = Stretch(0, collected)
        /\ InTheBook(n) /\ InThePage(n) /\ total \in {Len(Attributes), Missing}
        /\ todo.items = Stretch(collected + 1, Ends[n])
    BY <1>1, <2>1 DEF ReadSoFar
  <2>4. InTheBook(n)' /\ InThePage(n)' /\ ended # "record"
    BY <1>1, <2>2, <2>3, HonestAssumption DEF InTheBook, InThePage, NextLinks, NextUrls, At, Named
  <2>5. CASE \E e \in {"http", "malformed"} : End(e) /\ UNCHANGED <<collected, accs>>
    BY <1>1, <2>1, <2>4, <2>5 DEF ReadSoFar, End, Stretch, NextUrls, At, Named
  <2>6. CASE Yielded /\ accs' = Append(accs, Last(fetched).item)
    <3>1. collected' = collected + 1 /\ accs' = Stretch(0, collected + 1)
      BY <2>2, <2>3, <2>6, StretchStep DEF Yielded
    <3>2. ended' = "record" => collected + 1 = Len(Attributes)
      <4>1. ended' = "record" => collected + 1 >= MaxItems
        BY <2>4, <2>6 DEF Yielded, End
      <4> QED BY <2>2, <2>3, <4>1, HonestAssumption, TirAssumption
    <3>3. ended' = "record" => accs' = Attributes
      BY <3>1, <3>2, StretchEnds
    <3>4. collected' \in 0..Ends[n]
      BY <2>2, <2>3, <3>1
    <3> QED BY <1>1, <2>3, <2>4, <3>1, <3>3, <3>4 DEF ReadSoFar, Stretch, NextUrls, At, Named
  <2> QED BY <2>5, <2>6 DEF ReadRevision
<1> QED BY <1>1, <1>2, <1>3 DEF CompleteIInv

LEMMA PageEndsComplete ==
  ASSUME CompleteIInv, EndOfPage
  PROVE  CompleteIInv'
<1>1. /\ stage = "item" /\ todo.items = <<>>
      /\ UNCHANGED <<registry, pinned, seen, collected, todo, accs, listed, fetched>>
      /\ stage' \in {"page", "done"} /\ (stage' # "done" => ended' = ended)
  BY DEF EndOfPage, End, Follow
<1>2. listed # <<>>
  BY <1>1 DEF CompleteIInv, Unread
<1>3. ASSUME FromTheStart' PROVE ReadSoFar(Len(listed))'
  <2> PICK n : n = Len(listed)
    OBVIOUS
  <2>1. FromTheStart /\ ReadSoFar(n)
    BY <1>1, <1>3 DEF FromTheStart, FirstUrl, CompleteIInv
  <2>2. /\ n \in 1..Len(Book) /\ collected \in Nat /\ Ends[n] \in Nat /\ collected <= Ends[n]
        /\ Ends[n] <= Len(Attributes) /\ Len(Attributes) \in Nat /\ ended = Missing
    BY <1>1, <2>1, InHand
  <2>3. /\ accs = Stretch(0, collected) /\ InTheBook(n) /\ InThePage(n)
        /\ total \in {Len(Attributes), Missing} /\ todo.items = Stretch(collected, Ends[n])
    BY <1>1, <2>1 DEF ReadSoFar
  <2>4. collected = Ends[n]
    BY <1>1, <2>2, <2>3, StretchEnds
  <2>5. total' = Total /\ total' \in {Len(Attributes), Missing}
    BY <2>3 DEF EndOfPage, Total, InThePage
  <2>6. InTheBook(n)' /\ ended # "record"
    BY <1>1, <2>2, <2>3, HonestAssumption DEF InTheBook, At, Named
  <2>7. /\ todo.next \in NextLinks(n) /\ todo.next # Off
    BY <2>2, <2>3, HonestLinks DEF InThePage
  <2>8. CASE total' # Missing /\ collected >= total' /\ End("record") /\ UNCHANGED url
    <3>1. collected = Len(Attributes)
      BY <2>2, <2>5, <2>8
    <3>2. accs' = Attributes
      BY <1>1, <2>3, <3>1, StretchEnds
    <3> QED BY <1>1, <2>1, <2>5, <2>6, <2>8, <3>2 DEF ReadSoFar, End, Stretch, NextUrls, At, Named
  <2>9. CASE stage' = "page" /\ url' \in NextUrls(n) /\ UNCHANGED ended
    BY <1>1, <2>1, <2>4, <2>5, <2>6, <2>7, <2>9 DEF ReadSoFar, Stretch, NextLinks, NextUrls, At, Named
  <2>10. CASE todo.next \in {Missing, Off} /\ stage' = "page" /\ url' = Missing /\ UNCHANGED ended
    BY <2>2, <2>7, <2>9, <2>10, HonestLinks
  <2>11. CASE todo.next # Missing /\ Follow(todo.next)
    BY <2>2, <2>7, <2>9, <2>11, HonestLinks DEF Follow
  <2> QED BY <2>8, <2>10, <2>11 DEF EndOfPage
<1> QED BY <1>1, <1>2, <1>3 DEF CompleteIInv

(***************************************************************************)
(* An honest registry is read whole: with every number of pages and of     *)
(* attributes on them that the caps allow, a record that issuer_record     *)
(* returns after it began at the first page has each of them, in order,    *)
(* although the last page may name itself in links.next.                   *)
(***************************************************************************)
THEOREM HonestRegistriesAreReadWhole == TirSpec => []HonestIsComplete
<1>1. CompleteIInv => HonestIsComplete
  BY DEF CompleteIInv, FromTheStart, FirstUrl, ReadSoFar, HonestIsComplete
<1>2. CompleteIInv /\ [TirNext]_tirVars => CompleteIInv'
  <2>1. CompleteIInv /\ UNCHANGED tirVars => CompleteIInv'
    BY DEF tirVars, CompleteIInv, FromTheStart, FirstUrl, ReadSoFar, Unread, InTheBook, InThePage, NextLinks, Stretch, NextUrls, At, Named
  <2> QED BY <2>1, IssuerComplete, PagesComplete, ItemsComplete, RevisionsComplete, PageEndsComplete
          DEF TirNext, Step
<1> QED BY <1>1, <1>2, InitComplete, PTL DEF TirSpec
=============================================================================
