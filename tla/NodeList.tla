------------------------------ MODULE NodeList ------------------------------
(***************************************************************************)
(* openvc_ebsi.nodes.verify_node_list, the pure verifier of the Trusted    *)
(* Nodes List, between its neighbours: the publisher that rotates key      *)
(* lists and issues node lists, a mirror that serves any mix of what was   *)
(* ever published, get_tnl_files that fetches the four files one request   *)
(* at a time, and the caller that persists the two Accepted pairs.         *)
(*                                                                         *)
(* A document is a record and its SHA-256 is the record itself: two        *)
(* documents have one digest exactly when they are the same bytes.  A      *)
(* signature file is what it covers and who signed.                        *)
(***************************************************************************)
EXTENDS Integers, Sequences, FiniteSets, SequencesExt, FiniteSetsExt

CONSTANTS
  Custodians,    \* the people who may be named in a key list
  Keyrings,      \* what a key list may hold: custodians in a row, a threshold
  Contents,      \* which environments a node list covers
  Environment,   \* the environment the caller asks for
  ListFloor, KeysFloor,      \* list_floor, keys_floor
  MinThreshold,  \* min_threshold; 0 is its None: every threshold in range passes
  MaxAge, Skew,  \* max_age or Absent, and the 300 s of clock skew
  Validity,      \* the publisher's expires - issued
  Lead,          \* how far ahead the publisher's clock may be
  Reissues,      \* whether the publisher ever reuses a version number
  MaxKeys, MaxList,          \* bounds on the versions published
  MaxRings, MaxSigs,         \* and on the key lists and signature files
  MaxClock,                  \* bound on the clock
  Absent

ASSUME NodeListAssumption ==
  /\ IsFiniteSet(Custodians)
  /\ Keyrings \subseteq [keys : Seq(Custodians) \ {<<>>}, threshold : Int]
  /\ ListFloor \in Nat /\ KeysFloor \in Nat /\ Skew \in Nat
  /\ Validity \in Nat \ {0} /\ Lead \in Nat
  /\ MinThreshold \in Nat /\ MaxAge \in Nat \cup {Absent}
  /\ Reissues \in BOOLEAN
  /\ MaxKeys \in Nat \ {0} /\ MaxList \in Nat \ {0}
  /\ MaxRings \in Nat /\ MaxSigs \in Nat /\ MaxClock \in Nat

VARIABLES
  clock,         \* the caller's clock, and the publisher's up to Lead
  keyLists,      \* every key list the anchor ever signed
  lists, sigs,   \* every node list, and every signature file over one
  newest,        \* what the publisher serves now
  mirror,        \* "lagging", or from some moment on "current": see Offered
  phase,         \* where the caller is
  got,           \* the files it has fetched
  result,        \* the VerifiedNodeList it is about to persist
  stored         \* the two Accepted pairs, which survive a crash

tnlVars == <<clock, keyLists, lists, sigs, newest, mirror, phase, got, result, stored>>

\* Version v of the key list, holding keyring r.
KeyListOf(v, r) == [version |-> v, threshold |-> r.threshold, keys |-> r.keys]
KeyList == {KeyListOf(v, r) : v \in 1..MaxKeys, r \in Keyrings}
List ==
  [version : 1..MaxList, keysVersion : 1..MaxKeys, issued : Nat, expires : Nat,
   envs : Contents]
Sig == [over : List, by : SUBSET Custodians]

\* last_list, last_keys and max_age are Optional.  Absent is their None: no document.
ASSUME AbsentIsNoDocument == Absent \notin List /\ Absent \notin KeyList

Nothing == [list |-> Absent, keys |-> Absent]

Holders(k) == Range(k.keys)

----------------------------------------------------------------------------
(***************************************************************************)
(* verify_node_list.  The rollback rule, then what each stage checks.      *)
(***************************************************************************)
\* The rule with "equal" left out: what is held is never accepted again.
PairStrict(doc, floor, last) ==
  doc.version >= floor /\ (last # Absent => doc.version > last.version)

\* _check_pair
PairOK(doc, floor, last) ==
  /\ doc.version >= floor
  /\ last # Absent => \/ doc.version > last.version
                      \/ doc = last

AnchorSigned(f) == f.keysSig = f.keys

\* Custodians counted without a look at repeats: one person listed twice.
CustodiansAnyhow(k) == TRUE

\* _read_custodians: no key stands twice in the list.
CustodiansDistinct(k) == IsInjective(k.keys)

\* verified_signers: a signature that names a custodian and does not verify
\* rejects the whole file; one that names nobody in the list is passed over.
SignaturesVerify(f) ==
  f.tnlSig.by \cap Holders(f.keys) # {} => f.tnlSig.over = f.tnl

\* What verified_signers returns: the entries of the key list whose holder signed tnl.
Signers(f) ==
  {i \in DOMAIN f.keys.keys : f.tnlSig.over = f.tnl /\ f.keys.keys[i] \in f.tnlSig.by}

ThresholdMet(f) == Cardinality(Signers(f)) >= f.keys.threshold

ThresholdInRange(k) == 1 <= k.threshold /\ k.threshold <= Len(k.keys)

(***************************************************************************)
(* The checks in the order they are made, with the error each one raises.  *)
(***************************************************************************)
Checks(f, s, t) ==
  << [ok |-> AnchorSigned(f),                             err |-> "signature"],
     [ok |-> PairOK(f.keys, KeysFloor, s.keys),           err |-> "rollback"],
     [ok |-> ThresholdInRange(f.keys),                    err |-> "malformed"],
     [ok |-> f.keys.threshold >= MinThreshold,            err |-> "threshold"],
     [ok |-> CustodiansDistinct(f.keys),                  err |-> "malformed"],
     [ok |-> SignaturesVerify(f),                         err |-> "signature"],
     [ok |-> ThresholdMet(f),                             err |-> "threshold"],
     [ok |-> PairOK(f.tnl, ListFloor, s.list),            err |-> "rollback"],
     [ok |-> f.tnl.keysVersion <= f.keys.version,         err |-> "rollback"],
     [ok |-> t < f.tnl.expires,                           err |-> "expired"],
     [ok |-> f.tnl.issued - t <= Skew,                    err |-> "notYetValid"],
     [ok |-> MaxAge # Absent => t - f.tnl.issued <= MaxAge, err |-> "stale"],
     [ok |-> Environment \in f.tnl.envs,                  err |-> "environment"] >>

Failing(f, s, t) == LET rows == Checks(f, s, t) IN {i \in 1..13 : ~ rows[i].ok}

VerifyNodeList(f, s, t) ==
  IF Failing(f, s, t) = {} THEN "ok" ELSE Checks(f, s, t)[Min(Failing(f, s, t))].err

----------------------------------------------------------------------------
TnlInit ==
  /\ clock = 0
  /\ \E k \in {x \in KeyList : x.version = 1}, e \in Contents :
       LET l == [version |-> 1, keysVersion |-> 1, issued |-> 0, expires |-> Validity, envs |-> e]
           s == [over |-> l, by |-> Holders(k)]
       IN  /\ keyLists = {k} /\ lists = {l} /\ sigs = {s}
           /\ newest = [keys |-> k, tnl |-> l, tnlSig |-> s]
  /\ mirror = "lagging"
  /\ phase = "idle" /\ got = Absent /\ result = Absent
  /\ stored = Nothing

(***************************************************************************)
(* The publisher (external).  A new key list leaves the node list and its  *)
(* signatures as they were; a node list is signed by whoever of the        *)
(* current custodians does; Resign replaces the signature file alone.      *)
(***************************************************************************)
Versions(v, top) == {w \in (IF Reissues THEN {v, v + 1} ELSE {v + 1}) : w <= top}

PublishKeys ==
  /\ Cardinality(keyLists) < MaxRings
  /\ \E v \in Versions(newest.keys.version, MaxKeys), r \in Keyrings :
       LET k == KeyListOf(v, r)
       IN  /\ keyLists' = keyLists \cup {k}
           /\ newest' = [newest EXCEPT !.keys = k]
  /\ UNCHANGED <<clock, lists, sigs, mirror, phase, got, result, stored>>

PublishList ==
  /\ Cardinality(sigs) < MaxSigs
  /\ \E v \in Versions(newest.tnl.version, MaxList), e \in Contents, d \in 0..Lead,
        by \in SUBSET Holders(newest.keys) :
       LET l == [version |-> v, keysVersion |-> newest.keys.version, issued |-> clock + d,
                 expires |-> clock + d + Validity, envs |-> e]
           s == [over |-> l, by |-> by]
       IN  /\ lists' = lists \cup {l}
           /\ sigs' = sigs \cup {s}
           /\ newest' = [newest EXCEPT !.tnl = l, !.tnlSig = s]
  /\ UNCHANGED <<clock, keyLists, mirror, phase, got, result, stored>>

Resign ==
  /\ Cardinality(sigs) < MaxSigs
  /\ \E by \in SUBSET Holders(newest.keys) :
       LET s == [over |-> newest.tnl, by |-> by]
       IN  sigs' = sigs \cup {s} /\ newest' = [newest EXCEPT !.tnlSig = s]
  /\ UNCHANGED <<clock, keyLists, lists, mirror, phase, got, result, stored>>

\* Custodians that were rotated out sign a list of their own.
RetiredSign ==
  /\ Cardinality(sigs) < MaxSigs
  /\ \E v \in 1..MaxList, kv \in 1..MaxKeys, e \in Contents :
       LET l == [version |-> v, keysVersion |-> kv, issued |-> clock, expires |-> clock + Validity,
                 envs |-> e]
           retired == (UNION {Holders(k) : k \in keyLists}) \ Holders(newest.keys)
       IN  /\ retired # {}
           /\ lists' = lists \cup {l}
           /\ sigs' = sigs \cup {[over |-> l, by |-> retired]}
  /\ UNCHANGED <<clock, keyLists, newest, mirror, phase, got, result, stored>>

MirrorCatchesUp ==
  /\ mirror = "lagging"
  /\ mirror' = "current"
  /\ UNCHANGED <<clock, keyLists, lists, sigs, newest, phase, got, result, stored>>

ClockTick ==
  /\ clock < MaxClock
  /\ clock' = clock + 1
  /\ UNCHANGED <<keyLists, lists, sigs, newest, mirror, phase, got, result, stored>>

----------------------------------------------------------------------------
(***************************************************************************)
(* The caller.  get_tnl_files makes one request per file in this order and *)
(* is all or nothing; each answer is any version the mirror still has (a   *)
(* 304 re-uses one the caller holds, which was published too).  A lagging  *)
(* mirror may serve the newest files as well, so nothing is lost by having *)
(* failures and crashes end when it comes to serve those alone.            *)
(***************************************************************************)
Offered(files, current) == IF mirror = "current" THEN {current} ELSE files

Fetch(at, then, field, files, current) ==
  /\ phase = at
  /\ \E x \in Offered(files, current) : got' = [got EXCEPT ![field] = x]
  /\ phase' = then
  /\ UNCHANGED <<clock, keyLists, lists, sigs, newest, mirror, result, stored>>

GetTnlFiles ==
  /\ phase = "idle"
  /\ phase' = "keys"
  /\ got' = [keys |-> Absent, keysSig |-> Absent, tnl |-> Absent, tnlSig |-> Absent]
  /\ UNCHANGED <<clock, keyLists, lists, sigs, newest, mirror, result, stored>>

FetchKeys    == Fetch("keys", "keysSig", "keys", keyLists, newest.keys)
FetchKeysSig == Fetch("keysSig", "tnl", "keysSig", keyLists, newest.keys)
FetchTnl     == Fetch("tnl", "tnlSig", "tnl", lists, newest.tnl)
FetchTnlSig  == Fetch("tnlSig", "verify", "tnlSig", sigs, newest.tnlSig)

\* A request fails: the exception propagates, nothing partial is returned.
FetchFails ==
  /\ mirror = "lagging"
  /\ phase \in {"keys", "keysSig", "tnl", "tnlSig"}
  /\ phase' = "idle" /\ got' = Absent
  /\ UNCHANGED <<clock, keyLists, lists, sigs, newest, mirror, result, stored>>

\* A verification that is not told which list was accepted last.
VerifyUnpinned ==
  /\ phase = "verify"
  /\ IF VerifyNodeList(got, [stored EXCEPT !.list = Absent], clock) = "ok"
     THEN phase' = "persist" /\ result' = [list |-> got.tnl, keys |-> got.keys]
     ELSE phase' = "idle" /\ UNCHANGED result
  /\ got' = Absent
  /\ UNCHANGED <<clock, keyLists, lists, sigs, newest, mirror, stored>>

\* verify_node_list on the four files, the persisted pairs and the clock.
Verify ==
  /\ phase = "verify"
  /\ IF VerifyNodeList(got, stored, clock) = "ok"
     THEN phase' = "persist" /\ result' = [list |-> got.tnl, keys |-> got.keys]
     ELSE phase' = "idle" /\ UNCHANGED result
  /\ got' = Absent
  /\ UNCHANGED <<clock, keyLists, lists, sigs, newest, mirror, stored>>

\* The caller (external) stores the two pairs, one write at a time.
Persist(field) ==
  /\ phase = "persist"
  /\ stored[field] # result[field]
  /\ stored' = [stored EXCEPT ![field] = result[field]]
  /\ UNCHANGED <<clock, keyLists, lists, sigs, newest, mirror, phase, got, result>>

Persisted ==
  /\ phase = "persist"
  /\ stored = result
  /\ phase' = "idle" /\ result' = Absent
  /\ UNCHANGED <<clock, keyLists, lists, sigs, newest, mirror, got, stored>>

\* The process dies: only what was persisted is left.
Crash ==
  /\ mirror = "lagging"
  /\ phase # "idle"
  /\ phase' = "idle" /\ got' = Absent /\ result' = Absent
  /\ UNCHANGED <<clock, keyLists, lists, sigs, newest, mirror, stored>>

Publisher == PublishKeys \/ PublishList \/ Resign \/ RetiredSign

Progress ==
  \/ GetTnlFiles \/ FetchKeys \/ FetchKeysSig \/ FetchTnl \/ FetchTnlSig
  \/ Verify \/ (\E f \in {"list", "keys"} : Persist(f)) \/ Persisted

TnlNext == Publisher \/ MirrorCatchesUp \/ ClockTick \/ Progress \/ FetchFails \/ Crash

TnlSpec == TnlInit /\ [][TnlNext]_tnlVars

(***************************************************************************)
(* A caller that keeps polling, and a mirror that catches up some day.     *)
(***************************************************************************)
TnlFairSpec == TnlSpec /\ WF_tnlVars(Progress) /\ WF_tnlVars(MirrorCatchesUp)

----------------------------------------------------------------------------
TnlTypeOK ==
  /\ clock \in 0..MaxClock
  /\ keyLists \subseteq KeyList /\ lists \subseteq List /\ sigs \subseteq Sig
  /\ newest.keys \in keyLists /\ newest.tnl \in lists /\ newest.tnlSig \in sigs
  /\ mirror \in {"lagging", "current"}
  /\ phase \in {"idle", "keys", "keysSig", "tnl", "tnlSig", "verify", "persist"}
  /\ result # Absent => result.list \in lists /\ result.keys \in keyLists
  /\ stored.list \in lists \cup {Absent} /\ stored.keys \in keyLists \cup {Absent}

(***************************************************************************)
(* Whatever the mirror serves and wherever the process dies, a persisted   *)
(* pair only ever moves to a higher version: "higher version, or the same  *)
(* version only if the bytes are identical".                               *)
(***************************************************************************)
Advances(old, new) == old # Absent => new # Absent /\ (new = old \/ new.version > old.version)

NeverRollsBack ==
  [][Advances(stored.list, stored'.list) /\ Advances(stored.keys, stored'.keys)]_tnlVars

(***************************************************************************)
(* A list the caller is given was signed by MinThreshold different         *)
(* people or more, as its key list asks for, all named in a key list that  *)
(* the anchor signed and that is at least the version the list asks for.   *)
(***************************************************************************)
SignedByAQuorum ==
  result # Absent =>
    /\ result.keys \in keyLists
    /\ result.list.keysVersion <= result.keys.version
    /\ \E s \in sigs :
         /\ s.over = result.list
         /\ Cardinality(s.by \cap Holders(result.keys)) >= result.keys.threshold
         /\ result.keys.threshold >= MinThreshold

(***************************************************************************)
(* No caller locks itself out: when the publisher's newest set verifies on *)
(* its own, nobody else holds its versions, and the mirror serves it, a    *)
(* caller that keeps polling comes to persist it, whatever it had accepted *)
(* from the lagging mirror before and wherever it had died.                *)
(***************************************************************************)
NewestFiles ==
  [keys |-> newest.keys, keysSig |-> newest.keys, tnl |-> newest.tnl, tnlSig |-> newest.tnlSig]

Supersedes(doc, docs) == \A d \in docs \ {doc} : d.version < doc.version

Settled ==
  /\ mirror = "current"
  /\ Supersedes(newest.keys, keyLists) /\ Supersedes(newest.tnl, lists)
  /\ VerifyNodeList(NewestFiles, Nothing, clock) = "ok"

CatchesUp == <>[]Settled => <>[](stored.list = newest.tnl)
=============================================================================
