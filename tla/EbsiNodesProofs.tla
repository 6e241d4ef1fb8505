-------------------------- MODULE EbsiNodesProofs ---------------------------
(***************************************************************************)
(* The list of nodes and the client that reads from them.                  *)
(*                                                                         *)
(* For every set of custodians, every keyring, floor, threshold and age    *)
(* limit: a caller of verify_node_list never steps back to an older pair,  *)
(* and what it is given was signed by a quorum of different people.        *)
(*                                                                         *)
(* For any number of threads and nodes, any policy and any health_ttl_s:   *)
(* the value a run returns comes from one node that answered every read,   *)
(* and a node that failed under a run costs no other run a request until   *)
(* its verdict ends or a later probe answers well.                         *)
(***************************************************************************)
EXTENDS NodeList, NodeClient, ChecksProofs, FiniteSetTheorems

USE NodeListAssumption, AbsentIsNoDocument

(***************************************************************************)
(* The inductive invariant.  TypeOK says nothing of the files in flight:   *)
(* what was fetched was published, file by file in the order of the        *)
(* requests, and what is being persisted may replace what is stored.       *)
(***************************************************************************)
Shapes ==
  /\ newest \in [keys : keyLists, tnl : lists, tnlSig : sigs]
  /\ stored \in [list : lists \cup {Absent}, keys : keyLists \cup {Absent}]

FetchedWasPublished ==
  /\ phase \in {"keys", "keysSig", "tnl", "tnlSig", "verify"} =>
       got \in [keys : keyLists \cup {Absent}, keysSig : keyLists \cup {Absent},
                tnl : lists \cup {Absent}, tnlSig : sigs \cup {Absent}]
  /\ phase \in {"keysSig", "tnl", "tnlSig", "verify"} => got.keys \in keyLists
  /\ phase \in {"tnlSig", "verify"} => got.tnl \in lists
  /\ phase = "verify" => got.tnlSig \in sigs

ResultMayBeStored ==
  /\ result # Absent => phase = "persist"
  /\ phase = "persist" =>
       /\ result \in [list : lists, keys : keyLists]
       /\ Advances(stored.list, result.list)
       /\ Advances(stored.keys, result.keys)

TnlIInv == TnlTypeOK /\ Shapes /\ FetchedWasPublished /\ ResultMayBeStored /\ SignedByAQuorum

----------------------------------------------------------------------------
\* A key list that names nobody twice: the entries that signed are as many
\* different people.
LEMMA SignersAreDistinctPeople ==
  ASSUME NEW f, f.keys \in KeyList, f.tnlSig \in Sig, CustodiansDistinct(f.keys)
  PROVE  /\ Cardinality(Signers(f)) \in Nat
         /\ Cardinality(f.tnlSig.by \cap Holders(f.keys)) \in Nat
         /\ Cardinality(Signers(f)) <= Cardinality(f.tnlSig.by \cap Holders(f.keys))
<1> DEFINE people == f.tnlSig.by \cap Holders(f.keys)
           who == [i \in Signers(f) |-> f.keys.keys[i]]
<1>1. IsFiniteSet(people)
  <2>1. people \subseteq Custodians
    BY DEF Sig
  <2> QED BY <2>1, FS_Subset
<1>2. who \in [Signers(f) -> people]
  BY DEF Signers, Holders, Range
<1>3. ASSUME NEW a \in Signers(f), NEW b \in Signers(f), who[a] = who[b]
      PROVE  a = b
  BY <1>3 DEF Signers, CustodiansDistinct, IsInjective
<1>4. who \in Injection(Signers(f), people)
  BY <1>2, <1>3 DEF Injection, IsInjective
<1>5. IsFiniteSet(Signers(f)) /\ Cardinality(Signers(f)) <= Cardinality(people)
  BY <1>1, <1>4, FS_Injection
<1> QED BY <1>1, <1>5, FS_CardinalityType

\* A set of files that verify_node_list accepts has passed the checks that
\* the two properties rest on.
LEMMA AcceptedFiles ==
  ASSUME NEW f, NEW s, NEW t, VerifyNodeList(f, s, t) = "ok"
  PROVE  /\ PairOK(f.keys, KeysFloor, s.keys)
         /\ PairOK(f.tnl, ListFloor, s.list)
         /\ ThresholdInRange(f.keys)
         /\ f.keys.threshold >= MinThreshold
         /\ CustodiansDistinct(f.keys)
         /\ ThresholdMet(f)
         /\ f.tnl.keysVersion <= f.keys.version
<1> DEFINE bad == Failing(f, s, t)
<1>1. \A i \in 1..13 : Checks(f, s, t)[i].err # "ok"
  BY DEF Checks
<1>2. bad = {}
  <2> SUFFICES ASSUME bad # {} PROVE FALSE
    OBVIOUS
  <2>1. bad \subseteq 1..13
    BY DEF Failing
  <2>2. Min(bad) \in bad
    BY <2>1, MinOfNats
  <2>3. VerifyNodeList(f, s, t) = Checks(f, s, t)[Min(bad)].err
    BY DEF VerifyNodeList
  <2> QED BY <1>1, <2>1, <2>2, <2>3
<1>3. \A i \in 1..13 : Checks(f, s, t)[i].ok
  BY <1>2, Zenon DEF Failing
<1>4. 2 \in 1..13 /\ 3 \in 1..13 /\ 4 \in 1..13 /\ 5 \in 1..13 /\ 6 \in 1..13 /\ 7 \in 1..13
      /\ 8 \in 1..13 /\ 9 \in 1..13
  OBVIOUS
<1>5. /\ Checks(f, s, t)[2].ok = PairOK(f.keys, KeysFloor, s.keys)
      /\ Checks(f, s, t)[3].ok = ThresholdInRange(f.keys)
      /\ Checks(f, s, t)[4].ok = (f.keys.threshold >= MinThreshold)
      /\ Checks(f, s, t)[5].ok = CustodiansDistinct(f.keys)
      /\ Checks(f, s, t)[7].ok = ThresholdMet(f)
      /\ Checks(f, s, t)[8].ok = PairOK(f.tnl, ListFloor, s.list)
      /\ Checks(f, s, t)[9].ok = (f.tnl.keysVersion <= f.keys.version)
  BY DEF Checks
<1> QED BY <1>3, <1>4, <1>5, Zenon

\* What the rollback rule lets through may be stored: it is the document
\* that is held, or one of a higher version.
LEMMA PairAdvances ==
  ASSUME NEW doc, NEW floor, NEW last, doc # Absent, PairOK(doc, floor, last)
  PROVE  Advances(last, doc)
BY DEF PairOK, Advances

----------------------------------------------------------------------------
\* Initially nothing is fetched and nothing is stored.
LEMMA TnlInitIInv == TnlInit => TnlIInv
<1> SUFFICES ASSUME TnlInit PROVE TnlIInv
  OBVIOUS
<1>1. PICK k \in KeyList, e \in Contents :
        LET l == [version |-> 1, keysVersion |-> 1, issued |-> 0, expires |-> Validity, envs |-> e]
            s == [over |-> l, by |-> Holders(k)]
        IN  /\ keyLists = {k} /\ lists = {l} /\ sigs = {s}
            /\ newest = [keys |-> k, tnl |-> l, tnlSig |-> s]
  BY DEF TnlInit
<1>2. Holders(k) \subseteq Custodians
  BY DEF KeyList, KeyListOf, Holders, Range
<1>3. TnlTypeOK /\ Shapes
  BY <1>1, <1>2 DEF TnlInit, TnlTypeOK, Shapes, List, Sig, Nothing
<1> QED BY <1>3 DEF TnlInit, TnlIInv, FetchedWasPublished, ResultMayBeStored, SignedByAQuorum

\* Publishing only ever adds: what was published stays published.
LEMMA PublisherIInv ==
  ASSUME TnlIInv, Publisher PROVE TnlIInv'
<1> DEFINE Rest == UNCHANGED <<clock, mirror, phase, got, result, stored>>
<1>1. Holders(newest.keys) \subseteq Custodians
  BY DEF TnlIInv, TnlTypeOK, KeyList, KeyListOf, Holders, Range
<1>3. SUFFICES /\ Rest
               /\ keyLists \subseteq keyLists' /\ keyLists' \subseteq KeyList
               /\ lists \subseteq lists' /\ lists' \subseteq List
               /\ sigs \subseteq sigs' /\ sigs' \subseteq Sig
               /\ newest' \in [keys : keyLists', tnl : lists', tnlSig : sigs']
  <2>1. TnlTypeOK' /\ Shapes'
    BY <1>3 DEF TnlIInv, TnlTypeOK, Shapes
  <2>2. FetchedWasPublished'
    BY <1>3 DEF TnlIInv, FetchedWasPublished
  <2>3. ResultMayBeStored'
    BY <1>3 DEF TnlIInv, ResultMayBeStored, Advances
  <2>4. SignedByAQuorum'
    BY <1>3 DEF TnlIInv, SignedByAQuorum
  <2> QED BY <2>1, <2>2, <2>3, <2>4 DEF TnlIInv
<1>4. CASE PublishKeys
  <2>1. PICK v \in Versions(newest.keys.version, MaxKeys), r \in Keyrings :
          /\ keyLists' = keyLists \cup {KeyListOf(v, r)}
          /\ newest' = [newest EXCEPT !.keys = KeyListOf(v, r)]
    BY <1>4 DEF PublishKeys
  <2>2. newest.keys.version \in 1..MaxKeys
    BY DEF TnlIInv, TnlTypeOK, KeyList, KeyListOf
  <2>3. v \in 1..MaxKeys
    BY <2>2 DEF Versions
  <2>4. KeyListOf(v, r) \in KeyList
    BY <2>3 DEF KeyList
  <2> QED BY <1>4, <2>1, <2>4 DEF PublishKeys, TnlIInv, TnlTypeOK, Shapes
<1>5. CASE PublishList
  <2>1. PICK v \in Versions(newest.tnl.version, MaxList), e \in Contents, d \in 0..Lead,
             by \in SUBSET Holders(newest.keys) :
          LET l == [version |-> v, keysVersion |-> newest.keys.version, issued |-> clock + d,
                    expires |-> clock + d + Validity, envs |-> e]
              s == [over |-> l, by |-> by]
          IN  /\ lists' = lists \cup {l}
              /\ sigs' = sigs \cup {s}
              /\ newest' = [newest EXCEPT !.tnl = l, !.tnlSig = s]
    BY <1>5 DEF PublishList
  <2>2. newest.tnl.version \in 1..MaxList /\ newest.keys.version \in 1..MaxKeys
    BY DEF TnlIInv, TnlTypeOK, List, KeyList, KeyListOf
  <2>3. v \in 1..MaxList /\ clock + d \in Nat /\ clock + d + Validity \in Nat
    BY <2>2 DEF TnlIInv, TnlTypeOK, Versions
  <2> DEFINE l == [version |-> v, keysVersion |-> newest.keys.version, issued |-> clock + d,
                   expires |-> clock + d + Validity, envs |-> e]
  <2>4. l \in List
    BY <2>2, <2>3 DEF List
  <2>5. [over |-> l, by |-> by] \in Sig
    BY <1>1, <2>4 DEF Sig
  <2> HIDE DEF l
  <2> QED BY <1>5, <2>1, <2>4, <2>5 DEF PublishList, TnlIInv, TnlTypeOK, Shapes, l
<1>6. CASE Resign
  BY <1>1, <1>6 DEF Resign, TnlIInv, TnlTypeOK, Shapes, Sig
<1>7. CASE RetiredSign
  <2> DEFINE retired == (UNION {Holders(k) : k \in keyLists}) \ Holders(newest.keys)
  <2>1. PICK v \in 1..MaxList, kv \in 1..MaxKeys, e \in Contents :
          LET l == [version |-> v, keysVersion |-> kv, issued |-> clock,
                    expires |-> clock + Validity, envs |-> e]
          IN  lists' = lists \cup {l} /\ sigs' = sigs \cup {[over |-> l, by |-> retired]}
    BY <1>7 DEF RetiredSign
  <2> DEFINE l == [version |-> v, keysVersion |-> kv, issued |-> clock,
                   expires |-> clock + Validity, envs |-> e]
  <2>2. clock \in Nat /\ clock + Validity \in Nat
    BY DEF TnlIInv, TnlTypeOK
  <2>3. l \in List
    BY <2>2 DEF List
  <2>4. retired \subseteq Custodians
    BY DEF TnlIInv, TnlTypeOK, KeyList, KeyListOf, Holders, Range
  <2>5. [over |-> l, by |-> retired] \in Sig
    BY <2>3, <2>4 DEF Sig
  <2> HIDE DEF l, retired
  <2> QED BY <1>7, <2>1, <2>3, <2>5 DEF RetiredSign, TnlIInv, TnlTypeOK, Shapes, l, retired
<1> QED BY <1>4, <1>5, <1>6, <1>7 DEF Publisher

\* A fetch fills one field with something that was published.
LEMMA FetchIInv ==
  ASSUME TnlIInv, FetchKeys \/ FetchKeysSig \/ FetchTnl \/ FetchTnlSig
  PROVE  TnlIInv'
<1>1. UNCHANGED <<clock, keyLists, lists, sigs, newest, mirror, result, stored>>
  BY DEF FetchKeys, FetchKeysSig, FetchTnl, FetchTnlSig, Fetch
<1>2. result = Absent /\ phase' # "persist" /\ phase' # "idle"
  BY DEF TnlIInv, ResultMayBeStored, FetchKeys, FetchKeysSig, FetchTnl, FetchTnlSig, Fetch
<1>3. TnlTypeOK' /\ Shapes'
  BY <1>1 DEF TnlIInv, TnlTypeOK, Shapes, FetchKeys, FetchKeysSig, FetchTnl, FetchTnlSig, Fetch
<1>4. FetchedWasPublished'
  <2>1. \A files, current : current \in files => Offered(files, current) \subseteq files
    BY DEF Offered
  <2>2. CASE FetchKeys
    BY <1>1, <2>1, <2>2 DEF FetchKeys, Fetch, TnlIInv, TnlTypeOK, FetchedWasPublished
  <2>3. CASE FetchKeysSig
    BY <1>1, <2>1, <2>3 DEF FetchKeysSig, Fetch, TnlIInv, TnlTypeOK, FetchedWasPublished
  <2>4. CASE FetchTnl
    BY <1>1, <2>1, <2>4 DEF FetchTnl, Fetch, TnlIInv, TnlTypeOK, FetchedWasPublished
  <2>5. CASE FetchTnlSig
    BY <1>1, <2>1, <2>5 DEF FetchTnlSig, Fetch, TnlIInv, TnlTypeOK, FetchedWasPublished
  <2> QED BY <2>2, <2>3, <2>4, <2>5
<1> QED BY <1>1, <1>2, <1>3, <1>4 DEF TnlIInv, ResultMayBeStored, SignedByAQuorum

\* verify_node_list: the one step that a mirror's answer can reach the
\* caller by.
LEMMA VerifyIInv ==
  ASSUME TnlIInv, Verify
  PROVE  TnlIInv'
<1>1. UNCHANGED <<clock, keyLists, lists, sigs, newest, mirror, stored>>
  BY DEF Verify
<1>2. CASE VerifyNodeList(got, stored, clock) # "ok"
  BY <1>1, <1>2 DEF Verify, TnlIInv, TnlTypeOK, Shapes, FetchedWasPublished, ResultMayBeStored,
                    SignedByAQuorum
<1>3. CASE VerifyNodeList(got, stored, clock) = "ok"
  <2>1. phase' = "persist" /\ result' = [list |-> got.tnl, keys |-> got.keys]
    BY <1>3 DEF Verify
  <2>2. got.keys \in keyLists /\ got.tnl \in lists /\ got.tnlSig \in sigs
    BY DEF Verify, TnlIInv, FetchedWasPublished
  <2>3. got.keys \in KeyList /\ got.tnl \in List /\ got.tnlSig \in Sig
    BY <2>2 DEF TnlIInv, TnlTypeOK
  <2>4. TnlTypeOK' /\ Shapes' /\ FetchedWasPublished'
    BY <1>1, <2>1, <2>2 DEF TnlIInv, TnlTypeOK, Shapes, FetchedWasPublished
  <2>5. Advances(stored.keys, got.keys) /\ Advances(stored.list, got.tnl)
    BY <1>3, <2>3, AcceptedFiles, PairAdvances
  <2>6. ResultMayBeStored'
    BY <1>1, <2>1, <2>2, <2>5 DEF ResultMayBeStored
  <2>7. SignedByAQuorum'
    <3> DEFINE people == got.tnlSig.by \cap Holders(got.keys)
    <3>1. /\ CustodiansDistinct(got.keys) /\ ThresholdMet(got)
          /\ ThresholdInRange(got.keys) /\ got.keys.threshold >= MinThreshold
          /\ got.tnl.keysVersion <= got.keys.version
      BY <1>3, AcceptedFiles
    <3>2. got.keys.threshold \in Int
      BY <2>3 DEF KeyList, KeyListOf
    <3>3. Cardinality(people) >= got.keys.threshold
      BY <2>3, <3>1, <3>2, SignersAreDistinctPeople DEF ThresholdMet
    <3>4. got.tnlSig.over = got.tnl
      <4>1. Cardinality(Signers(got)) # 0
        BY <3>1, <3>2 DEF ThresholdMet, ThresholdInRange
      <4>2. Signers(got) # {}
        BY <4>1, FS_EmptySet
      <4> QED BY <4>2 DEF Signers
    <3> QED BY <1>1, <2>1, <2>2, <3>1, <3>3, <3>4 DEF SignedByAQuorum
  <2> QED BY <2>4, <2>6, <2>7 DEF TnlIInv
<1> QED BY <1>2, <1>3

\* The caller's two writes, between which the process may die.
LEMMA PersistIInv ==
  ASSUME TnlIInv, NEW field \in {"list", "keys"}, Persist(field)
  PROVE  /\ TnlIInv'
         /\ Advances(stored.list, stored'.list)
         /\ Advances(stored.keys, stored'.keys)
<1>1. UNCHANGED <<clock, keyLists, lists, sigs, newest, mirror, phase, got, result>>
  BY DEF Persist
<1>2. /\ phase = "persist" /\ result \in [list : lists, keys : keyLists]
      /\ Advances(stored.list, result.list) /\ Advances(stored.keys, result.keys)
  BY DEF Persist, TnlIInv, ResultMayBeStored
<1>3. result.list # Absent /\ result.keys # Absent
  BY <1>2 DEF TnlIInv, TnlTypeOK
<1>4. /\ stored' \in [list : lists \cup {Absent}, keys : keyLists \cup {Absent}]
      /\ stored'.list \in {stored.list, result.list}
      /\ stored'.keys \in {stored.keys, result.keys}
  BY <1>2 DEF Persist, TnlIInv, Shapes
<1>5. Advances(stored.list, stored'.list) /\ Advances(stored.keys, stored'.keys)
  BY <1>2, <1>4 DEF Advances
<1>6. ResultMayBeStored'
  BY <1>1, <1>2, <1>3, <1>4 DEF TnlIInv, ResultMayBeStored, Advances
<1>7. TnlTypeOK' /\ Shapes' /\ FetchedWasPublished' /\ SignedByAQuorum'
  BY <1>1, <1>4 DEF TnlIInv, TnlTypeOK, Shapes, FetchedWasPublished, SignedByAQuorum
<1> QED BY <1>5, <1>6, <1>7 DEF TnlIInv

\* Every step keeps the invariant and never takes a stored pair back.
LEMMA TnlNextIInv ==
  ASSUME TnlIInv, [TnlNext]_tnlVars
  PROVE  /\ TnlIInv'
         /\ Advances(stored.list, stored'.list)
         /\ Advances(stored.keys, stored'.keys)
<1> DEFINE Kept == stored' = stored
<1>1. SUFFICES ASSUME ~ \E field \in {"list", "keys"} : Persist(field)
               PROVE  TnlIInv' /\ Kept
  BY <1>1, PersistIInv DEF Advances
<1>2. CASE Publisher
  BY <1>2, PublisherIInv DEF Publisher, PublishKeys, PublishList, Resign, RetiredSign
<1>3. CASE MirrorCatchesUp
  BY <1>3 DEF MirrorCatchesUp, TnlIInv, TnlTypeOK, Shapes, FetchedWasPublished, ResultMayBeStored,
              SignedByAQuorum
<1>4. CASE ClockTick
  <2>1. clock' \in 0..MaxClock
    BY <1>4 DEF ClockTick, TnlIInv, TnlTypeOK
  <2> QED BY <1>4, <2>1 DEF ClockTick, TnlIInv, TnlTypeOK, Shapes, FetchedWasPublished,
                            ResultMayBeStored, SignedByAQuorum
<1>5. CASE GetTnlFiles
  BY <1>5 DEF GetTnlFiles, TnlIInv, TnlTypeOK, Shapes, FetchedWasPublished, ResultMayBeStored,
              SignedByAQuorum
<1>6. CASE FetchKeys \/ FetchKeysSig \/ FetchTnl \/ FetchTnlSig
  BY <1>6, FetchIInv DEF FetchKeys, FetchKeysSig, FetchTnl, FetchTnlSig, Fetch
<1>7. CASE Verify
  BY <1>7, VerifyIInv DEF Verify
<1>8. CASE Persisted \/ FetchFails \/ Crash
  BY <1>8 DEF Persisted, FetchFails, Crash, TnlIInv, TnlTypeOK, Shapes, FetchedWasPublished,
              ResultMayBeStored, SignedByAQuorum
<1>9. CASE UNCHANGED tnlVars
  BY <1>9 DEF tnlVars, TnlIInv, TnlTypeOK, Shapes, FetchedWasPublished, ResultMayBeStored,
              SignedByAQuorum
<1> QED BY <1>1, <1>2, <1>3, <1>4, <1>5, <1>6, <1>7, <1>8, <1>9 DEF TnlNext, Progress

\* Every reachable state satisfies the inductive invariant.
LEMMA TnlSpecIInv == TnlSpec => []TnlIInv
BY TnlInitIInv, TnlNextIInv, PTL DEF TnlSpec

\* TypeOK holds in every state: every file in the caller's hands and on its
\* disk is one that was published.
THEOREM TnlTypeCorrect == TnlSpec => []TnlTypeOK
<1>1. TnlIInv => TnlTypeOK
  BY DEF TnlIInv
<1> QED BY <1>1, TnlSpecIInv, PTL

\* verify_node_list with the persisted pairs: whatever a mirror serves, in
\* whatever mix of old and new files, and wherever the process dies between
\* the two writes, a stored pair is only ever replaced by a higher version.
THEOREM StoredPairsNeverRollBack == TnlSpec => NeverRollsBack
<1>1. TnlIInv /\ [TnlNext]_tnlVars =>
        [Advances(stored.list, stored'.list) /\ Advances(stored.keys, stored'.keys)]_tnlVars
  BY TnlNextIInv
<1> QED BY <1>1, TnlSpecIInv, PTL DEF TnlSpec, NeverRollsBack

\* A list that verify_node_list returns is signed by as many different
\* custodians of an anchored key list as that list, and the caller, ask for.
THEOREM AcceptedListHasAQuorum == TnlSpec => []SignedByAQuorum
<1>1. TnlIInv => SignedByAQuorum
  BY DEF TnlIInv
<1> QED BY <1>1, TnlSpecIInv, PTL

----------------------------------------------------------------------------
USE NodeClientAssumption, NoneIsNothing

Running == {"next", "probe", "walk", "read"}

(***************************************************************************)
(* The inductive invariant, which implies TypeOK.  A run has a node from   *)
(* its first candidate on, its attempt heard nobody else, and what the     *)
(* session noted is all that went wrong; while a failure is remembered the *)
(* memo holds a bad verdict that lasts at least as long.                   *)
(***************************************************************************)
OneNode(p, r) ==
  /\ p # "next" => r.node \in Nodes
  /\ r.heard \subseteq {r.node}
  /\ r.broken = (r.failure \/ r.terminal # None)

LocalsOK(p, r) ==
  /\ p = "idle" => r = None
  /\ p \in Running => r \in Runs /\ OneNode(p, r)
  /\ p = "check" => r \in Nodes

ThreadsOK ==
  /\ pc \in [Threads -> {"idle", "next", "probe", "walk", "read", "check"}]
  /\ run = [c \in Threads |-> run[c]]
  /\ out \in [Threads -> Outcomes]
  /\ \A c \in Threads : LocalsOK(pc[c], run[c])

FailureCovered(n) ==
  failedAt[n] # None =>
    /\ failedAt[n] <= now
    /\ health[n] # None /\ health[n].bad
    /\ health[n].expires >= failedAt[n] + HealthTtl
    /\ now <= failedAt[n] + HealthTtl

MemoOK ==
  /\ now \in 0..MaxTime
  /\ health \in [Nodes -> [bad : BOOLEAN, expires : Nat] \cup {None}]
  /\ failedAt \in [Nodes -> Nat \cup {None}]
  /\ \A n \in Nodes : FailureCovered(n)

IInv == ThreadsOK /\ MemoOK

----------------------------------------------------------------------------
\* A step of thread c: the others' locals stay what they are.
LEMMA ThreadStep ==
  ASSUME ThreadsOK, NEW c \in Threads,
         NEW p \in {"idle", "next", "probe", "walk", "read", "check"}, NEW r, NEW o \in Outcomes,
         LocalsOK(p, r),
         pc' = [pc EXCEPT ![c] = p], run' = [run EXCEPT ![c] = r], out' = [out EXCEPT ![c] = o]
  PROVE  ThreadsOK'
<1>1. \A d \in Threads : LocalsOK(pc'[d], run'[d])
  <2> TAKE d \in Threads
  <2>1. CASE d = c
    BY <2>1 DEF ThreadsOK
  <2>2. CASE d # c
    BY <2>2 DEF ThreadsOK
  <2> QED BY <2>1, <2>2
<1>2. /\ pc' \in [Threads -> {"idle", "next", "probe", "walk", "read", "check"}]
      /\ run' = [d \in Threads |-> run'[d]]
      /\ out' \in [Threads -> Outcomes]
  BY DEF ThreadsOK
<1> QED BY <1>1, <1>2 DEF ThreadsOK

\* The end of a run or of a check.
LEMMA FinishOK ==
  ASSUME ThreadsOK, NEW c \in Threads, NEW o \in Outcomes, Finish(c, o)
  PROVE  ThreadsOK'
<1>1. LocalsOK("idle", None)
  BY DEF LocalsOK, Running
<1> QED BY <1>1, ThreadStep DEF Finish

\* Nothing is recorded: what the memo covers stays covered.
LEMMA MemoKept ==
  ASSUME MemoOK, UNCHANGED <<now, health, failedAt>>
  PROVE  MemoOK'
BY DEF MemoOK, FailureCovered

\* A verdict is recorded for one node: a bad one extends what is covered, a
\* good one ends it.
LEMMA VerdictRecorded ==
  ASSUME MemoOK, NEW n \in Nodes, NEW bad \in BOOLEAN, now' = now,
         health' = [health EXCEPT ![n] = Verdict(bad)],
         IF bad THEN UNCHANGED failedAt \/ Marked(n) ELSE Overruled(n)
  PROVE  MemoOK'
<1>1. Verdict(bad) \in [bad : BOOLEAN, expires : Nat]
  BY DEF MemoOK, Verdict
<1>2. /\ health' \in [Nodes -> [bad : BOOLEAN, expires : Nat] \cup {None}]
      /\ failedAt' \in [Nodes -> Nat \cup {None}]
  BY <1>1 DEF MemoOK, Marked, Overruled
<1>3. ASSUME NEW m \in Nodes, m # n PROVE FailureCovered(m)'
  BY <1>3 DEF MemoOK, FailureCovered, Marked, Overruled
<1>4. FailureCovered(n)'
  <2>1. CASE ~ bad
    BY <2>1 DEF MemoOK, FailureCovered, Overruled
  <2>2. CASE bad
    <3>1. health'[n] = [bad |-> TRUE, expires |-> now + HealthTtl] /\ health'[n] # None
      BY <1>1, <2>2 DEF MemoOK, Verdict
    <3>2. failedAt'[n] \in {failedAt[n], now}
      BY <2>2 DEF MemoOK, Marked
    <3>3. failedAt[n] # None => failedAt[n] \in Nat /\ failedAt[n] <= now /\ now <= failedAt[n] + HealthTtl
      BY DEF MemoOK, FailureCovered
    <3> QED BY <3>1, <3>2, <3>3 DEF MemoOK, FailureCovered
  <2> QED BY <2>1, <2>2
<1> QED BY <1>2, <1>3, <1>4 DEF MemoOK

----------------------------------------------------------------------------
\* An order that _order accepts is a row of nodes of the list.
LEMMA OrderIsOfNodes ==
  ASSUME NEW o \in PolicyOutputs, OrderOK(o)
  PROVE  o \in Seq(Nodes)
<1>1. Cardinality(Nodes) + 1 \in Nat
  BY FS_CardinalityType
<1>2. PICK n \in 0..(Cardinality(Nodes) + 1) : o \in [1..n -> Nodes \cup {Stranger}]
  BY DEF PolicyOutputs
<1>3. n \in Nat
  BY <1>1, <1>2
<1>4. o \in [1..n -> Nodes]
  BY <1>2 DEF OrderOK, Listed
<1> QED BY <1>3, <1>4

\* The queue of a run holds nodes of the list.
LEMMA QueueOfNodes ==
  ASSUME NEW r \in Runs, r.queue # <<>>
  PROVE  Head(r.queue) \in Nodes /\ Tail(r.queue) \in Seq(Nodes)
BY DEF Runs

\* A candidate is taken on in a fresh session.
LEMMA TakenOK ==
  ASSUME NEW r \in Runs, r.queue # <<>>
  PROVE  /\ Taken(r, Head(r.queue)) \in Runs
         /\ \A p : OneNode(p, Taken(r, Head(r.queue)))
<1>1. Head(r.queue) \in Nodes /\ Tail(r.queue) \in Seq(Nodes)
  BY QueueOfNodes
<1>2. PICK n \in Nodes, q \in Seq(Nodes) : n = Head(r.queue) /\ q = Tail(r.queue)
  BY <1>1
<1> DEFINE t == [queue |-> q, node |-> n, spent |-> r.spent + 1, failure |-> FALSE,
                 terminal |-> None, reads |-> 0, heard |-> {}, broken |-> FALSE]
<1>3. Taken(r, n) = t
  <2>1. Taken(r, n) = [r EXCEPT !.queue = q, !.node = n, !.spent = @ + 1, !.failure = FALSE,
                                !.terminal = None, !.reads = 0, !.heard = {}, !.broken = FALSE]
    BY <1>2, Zenon DEF Taken
  <2> QED BY <2>1 DEF Runs
<1>4. t \in Runs
  BY DEF Runs
<1>5. \A p : OneNode(p, t)
  BY DEF OneNode
<1> QED BY <1>2, <1>3, <1>4, <1>5, Zenon

\* What _note makes of an error.
LEMMA NotedOK ==
  ASSUME NEW p, NEW r \in Runs, OneNode(p, r), NEW e \in Answered \cup Failures \cup Terminals
  PROVE  Noted(r, e) \in Runs /\ OneNode(p, Noted(r, e))
<1> DEFINE m == Noted(r, e)
<1>1. m.terminal = IF r.terminal = None /\ e \in Terminals THEN e ELSE r.terminal
  BY DEF Noted, Runs
<1>2. m.failure = (r.failure \/ e \in Failures)
  BY DEF Noted, Runs
<1>3. m.broken = (r.broken \/ e \in Failures \cup Terminals)
  BY DEF Noted, Runs
<1>4. m.node = r.node /\ m.heard = r.heard /\ m.queue = r.queue /\ m.reads = r.reads
  BY DEF Noted, Runs
<1>5. m \in Runs
  <2>1. r.terminal \in Terminals \cup {None} /\ r.failure \in BOOLEAN /\ r.broken \in BOOLEAN
    BY DEF Runs
  <2>2. m.terminal \in Terminals \cup {None}
    BY <1>1, <2>1
  <2>3. m.failure \in BOOLEAN /\ m.broken \in BOOLEAN
    BY <1>2, <1>3, <2>1
  <2>4. m = [r EXCEPT !.terminal = m.terminal, !.failure = m.failure, !.broken = m.broken]
    BY <1>1, <1>2, <1>3 DEF Noted, Runs
  <2> HIDE DEF m
  <2> QED BY <2>2, <2>3, <2>4 DEF Runs
<1>6. m.broken = (m.failure \/ m.terminal # None)
  <2>1. m.terminal # None <=> (r.terminal # None \/ e \in Terminals)
    BY <1>1 DEF Terminals
  <2>2. r.broken = (r.failure \/ r.terminal # None)
    BY DEF OneNode
  <2> HIDE DEF m
  <2> QED BY <1>2, <1>3, <2>1, <2>2
<1> QED BY <1>4, <1>5, <1>6 DEF OneNode

----------------------------------------------------------------------------
(***************************************************************************)
(* One lemma per action.                                                   *)
(***************************************************************************)
\* The gate and the policy's order.
LEMMA BeginIInv ==
  ASSUME IInv, NEW c \in Threads, Begin(c)
  PROVE  IInv'
<1>1. MemoOK'
  BY MemoKept DEF IInv, Begin
<1>2. CASE Finish(c, "expired") \/ Finish(c, "config")
  BY <1>1, <1>2, FinishOK DEF IInv, Outcomes, Terminals
<1>3. CASE \E o \in PolicyOutputs :
             /\ OrderOK(o)
             /\ pc' = [pc EXCEPT ![c] = "next"]
             /\ run' = [run EXCEPT ![c] =
                  [queue |-> o, node |-> None, spent |-> 0,
                   failure |-> FALSE, terminal |-> None, reads |-> 0,
                   heard |-> {}, broken |-> FALSE]]
             /\ out' = [out EXCEPT ![c] = None]
  <2>1. PICK o \in PolicyOutputs :
             /\ OrderOK(o)
             /\ pc' = [pc EXCEPT ![c] = "next"]
             /\ run' = [run EXCEPT ![c] =
                  [queue |-> o, node |-> None, spent |-> 0,
                   failure |-> FALSE, terminal |-> None, reads |-> 0,
                   heard |-> {}, broken |-> FALSE]]
             /\ out' = [out EXCEPT ![c] = None]
    BY <1>3
  <2> DEFINE r == [queue |-> o, node |-> None, spent |-> 0, failure |-> FALSE,
                   terminal |-> None, reads |-> 0, heard |-> {}, broken |-> FALSE]
  <2>2. r \in Runs
    BY <2>1, OrderIsOfNodes DEF Runs
  <2>3. LocalsOK("next", r)
    BY <2>2 DEF LocalsOK, OneNode, Running
  <2>4. None \in Outcomes
    BY DEF Outcomes
  <2> HIDE DEF r
  <2>5. ThreadsOK'
    BY <2>1, <2>3, <2>4, ThreadStep DEF IInv, r
  <2> QED BY <1>1, <2>5 DEF IInv
<1> QED BY <1>2, <1>3 DEF Begin

\* The run leaves its node, which is marked.
LEMMA MarkAndMoveOnIInv ==
  ASSUME IInv, NEW c \in Threads, pc[c] \in {"probe", "walk"}, MarkAndMoveOn(c)
  PROVE  IInv'
<1>1. run[c] \in Runs /\ OneNode(pc[c], run[c]) /\ run[c].node \in Nodes
  BY DEF IInv, ThreadsOK, LocalsOK, Running, OneNode
<1>2. MemoOK'
  BY <1>1, VerdictRecorded DEF IInv, MarkAndMoveOn
<1>3. LocalsOK("next", run[c])
  BY <1>1 DEF LocalsOK, OneNode, Running
<1>4. run' = [run EXCEPT ![c] = run[c]] /\ out' = [out EXCEPT ![c] = out[c]] /\ out[c] \in Outcomes
  BY DEF MarkAndMoveOn, IInv, ThreadsOK
<1>5. ThreadsOK'
  BY <1>3, <1>4, ThreadStep DEF IInv, MarkAndMoveOn
<1> QED BY <1>2, <1>5 DEF IInv

\* The candidates of a run: none is left, one is skipped, or no more may be
\* asked.
LEMMA SkipIInv ==
  ASSUME IInv, NEW c \in Threads, NoneLeft(c) \/ Skip(c) \/ OutOfNodes(c)
  PROVE  IInv'
<1>1. MemoOK'
  BY MemoKept DEF IInv, NoneLeft, Skip, OutOfNodes
<1>2. CASE Finish(c, "noHealthyNode")
  BY <1>1, <1>2, FinishOK DEF IInv, Outcomes
<1>3. CASE Skip(c)
  <2>1. run[c] \in Runs /\ OneNode("next", run[c]) /\ pc[c] = "next" /\ run[c].queue # <<>>
    BY <1>3 DEF IInv, ThreadsOK, LocalsOK, Running, Skip
  <2>2. PICK q \in Seq(Nodes) : q = Tail(run[c].queue)
    BY <2>1, QueueOfNodes, Zenon
  <2> DEFINE r == [run[c] EXCEPT !.queue = q]
  <2>3. LocalsOK("next", r)
    BY <2>1 DEF LocalsOK, OneNode, Running, Runs
  <2>4. pc' = [pc EXCEPT ![c] = "next"] /\ out' = [out EXCEPT ![c] = out[c]] /\ out[c] \in Outcomes
    BY <1>3, <2>1 DEF Skip, IInv, ThreadsOK
  <2>5. run' = [run EXCEPT ![c] = r]
    <3>1. run' = [run EXCEPT ![c].queue = q]
      BY <1>3, <2>2, Zenon DEF Skip
    <3> QED BY <3>1
  <2> HIDE DEF r
  <2>6. ThreadsOK'
    BY <2>3, <2>4, <2>5, ThreadStep DEF IInv
  <2> QED BY <1>1, <2>6 DEF IInv
<1> QED BY <1>2, <1>3 DEF NoneLeft, OutOfNodes

\* The next candidate is taken on.
LEMMA TakeIInv ==
  ASSUME IInv, NEW c \in Threads, Take(c)
  PROVE  IInv'
<1>1. MemoOK'
  BY MemoKept DEF IInv, Take
<1>2. CASE Finish(c, "expired")
  BY <1>1, <1>2, FinishOK DEF IInv, Outcomes, Terminals
<1>3. CASE \E p \in {"probe", "walk"} :
             /\ pc' = [pc EXCEPT ![c] = p]
             /\ run' = [run EXCEPT ![c] = Taken(@, Head(run[c].queue))]
             /\ UNCHANGED out
  <2>1. run[c] \in Runs /\ run[c].queue # <<>>
    BY DEF IInv, ThreadsOK, LocalsOK, Running, Take
  <2>2. PICK r \in Runs : r = Taken(run[c], Head(run[c].queue)) /\ \A p : OneNode(p, r)
    BY <2>1, TakenOK
  <2>3. PICK p \in {"idle", "next", "probe", "walk", "read", "check"} :
          p \in {"probe", "walk"} /\ pc' = [pc EXCEPT ![c] = p]
    BY <1>3
  <2>4. LocalsOK(p, r)
    BY <2>2, <2>3 DEF LocalsOK, Running
  <2>5. run' = [run EXCEPT ![c] = r] 
    BY <1>3, <2>2, Zenon
  <2>6. out' = [out EXCEPT ![c] = out[c]] /\ out[c] \in Outcomes
    BY <1>3 DEF IInv, ThreadsOK
  <2>7. ThreadsOK'
    BY <2>3, <2>4, <2>5, <2>6, ThreadStep DEF IInv
  <2> QED BY <1>1, <2>7 DEF IInv
<1> QED BY <1>2, <1>3, Zenon DEF Take

\* The probe of a candidate is answered.
LEMMA ProbeAnswerIInv ==
  ASSUME IInv, NEW c \in Threads, ProbeAnswer(c)
  PROVE  IInv'
<1>1. pc[c] = "probe" /\ run[c] \in Runs /\ OneNode("probe", run[c]) /\ run[c].node \in Nodes
  BY DEF IInv, ThreadsOK, LocalsOK, Running, OneNode, ProbeAnswer
<1>2. CASE MarkAndMoveOn(c)
  BY <1>1, <1>2, MarkAndMoveOnIInv
<1>3. CASE Finish(c, "expired") /\ UNCHANGED <<now, health, failedAt>>
  BY <1>3, FinishOK, MemoKept DEF IInv, Outcomes, Terminals
<1>4. CASE /\ health' = [health EXCEPT ![run[c].node] = Verdict(FALSE)]
           /\ pc' = [pc EXCEPT ![c] = "walk"]
           /\ Overruled(run[c].node)
           /\ UNCHANGED <<now, run, out>>
  <2>1. MemoOK'
    BY <1>1, <1>4, VerdictRecorded DEF IInv
  <2>2. LocalsOK("walk", run[c])
    BY <1>1 DEF LocalsOK, OneNode, Running
  <2>3. run' = [run EXCEPT ![c] = run[c]] /\ out' = [out EXCEPT ![c] = out[c]] /\ out[c] \in Outcomes
    BY <1>4 DEF IInv, ThreadsOK
  <2>4. ThreadsOK'
    BY <1>4, <2>2, <2>3, ThreadStep DEF IInv
  <2> QED BY <2>1, <2>4 DEF IInv
<1> QED BY <1>2, <1>3, <1>4 DEF ProbeAnswer

\* The walk reads: gated, refused for the host, or sent to the run's node.
LEMMA ReadIInv ==
  ASSUME IInv, NEW c \in Threads, NEW target \in Nodes \cup {Stranger}, Read(c, target)
  PROVE  IInv'
<1>0. pc[c] = "walk" /\ run[c] \in Runs /\ OneNode("walk", run[c])
  BY DEF IInv, ThreadsOK, LocalsOK, Running, Read
<1>1. /\ pc[c] = "walk" /\ run[c] \in Runs /\ OneNode("walk", run[c])
      /\ run[c].reads + 1 \in 0..MaxReads
  <2>1. run[c].reads \in 0..MaxReads
    BY <1>0 DEF Runs
  <2>2. run[c].reads < MaxReads /\ MaxReads \in Nat
    BY DEF Read
  <2>3. run[c].reads + 1 \in 0..MaxReads
    BY ONLY <2>1, <2>2
  <2> QED BY <1>0, <2>3
<1>2. MemoOK'
  BY MemoKept DEF IInv, Read
<1>3. out' = [out EXCEPT ![c] = out[c]] /\ out[c] \in Outcomes
  BY DEF Read, IInv, ThreadsOK
<1>4. CASE \E e \in Terminals :
             /\ run' = [run EXCEPT ![c] = [Noted(run[c], e) EXCEPT !.reads = @ + 1]]
             /\ UNCHANGED pc
  <2>1. PICK e \in Terminals :
          run' = [run EXCEPT ![c] = [Noted(run[c], e) EXCEPT !.reads = @ + 1]] /\ pc' = pc
    BY <1>4
  <2>2. Noted(run[c], e) \in Runs /\ OneNode("walk", Noted(run[c], e))
    BY <1>1, NotedOK
  <2>3. Noted(run[c], e).reads = run[c].reads
    BY <1>1 DEF Noted, Runs
  <2> DEFINE r == [Noted(run[c], e) EXCEPT !.reads = @ + 1]
  <2>4. r \in Runs /\ OneNode("walk", r)
    BY <1>1, <2>2, <2>3 DEF Runs, OneNode
  <2>5. LocalsOK("walk", r)
    BY <2>4 DEF LocalsOK, Running
  <2>6. pc' = [pc EXCEPT ![c] = "walk"]
    BY <1>1, <2>1 DEF IInv, ThreadsOK
  <2>7. ThreadsOK'
    BY <1>3, <2>1, <2>5, <2>6, ThreadStep DEF IInv
  <2> QED BY <1>2, <2>7 DEF IInv
<1>5. CASE /\ target = run[c].node
           /\ pc' = [pc EXCEPT ![c] = "read"]
           /\ run' = [run EXCEPT ![c].reads = @ + 1, ![c].heard = @ \cup {target}]
  <2> DEFINE r == [run[c] EXCEPT !.reads = @ + 1, !.heard = @ \cup {target}]
  <2>1. r \in Runs /\ OneNode("read", r)
    BY <1>1, <1>5 DEF Runs, OneNode
  <2>2. LocalsOK("read", r)
    BY <2>1 DEF LocalsOK, Running
  <2>3. run' = [run EXCEPT ![c] = r]
    BY <1>1, <1>5 DEF IInv, ThreadsOK, Runs
  <2> HIDE DEF r
  <2>4. ThreadsOK'
    BY <1>3, <1>5, <2>2, <2>3, ThreadStep DEF IInv
  <2> QED BY <1>2, <2>4 DEF IInv
<1> QED BY <1>4, <1>5, Zenon DEF Read, Terminals

\* The client's read ends.
LEMMA ReadAnswerIInv ==
  ASSUME IInv, NEW c \in Threads, ReadAnswer(c)
  PROVE  IInv'
<1>1. pc[c] = "read" /\ run[c] \in Runs /\ OneNode("walk", run[c])
  BY DEF IInv, ThreadsOK, LocalsOK, Running, ReadAnswer, OneNode
<1>2. MemoOK'
  BY MemoKept DEF IInv, ReadAnswer
<1>3. out' = [out EXCEPT ![c] = out[c]] /\ out[c] \in Outcomes /\ pc' = [pc EXCEPT ![c] = "walk"]
  BY DEF ReadAnswer, IInv, ThreadsOK
<1>4. PICK e \in Answered \cup Failures \cup Terminals :
        run' = [run EXCEPT ![c] = Noted(run[c], e)]
  BY DEF ReadAnswer
<1>5. LocalsOK("walk", Noted(run[c], e))
  BY <1>1, <1>4, NotedOK DEF LocalsOK, Running
<1>6. ThreadsOK'
  BY <1>3, <1>4, <1>5, ThreadStep DEF IInv
<1> QED BY <1>2, <1>6 DEF IInv

\* The walk ends, and the run with it or with its node.
LEMMA WalkDoneIInv ==
  ASSUME IInv, NEW c \in Threads, WalkDone(c)
  PROVE  IInv'
<1>1. pc[c] = "walk" /\ run[c] \in Runs
  BY DEF IInv, ThreadsOK, LocalsOK, Running, WalkDone
<1>2. CASE MarkAndMoveOn(c)
  BY <1>1, <1>2, MarkAndMoveOnIInv
<1>3. CASE \E o \in Outcomes : Finish(c, o) /\ UNCHANGED <<now, health, failedAt>>
  BY <1>3, FinishOK, MemoKept DEF IInv
<1>4. run[c].terminal # None => run[c].terminal \in Outcomes
  BY <1>1 DEF Runs, Outcomes
<1>5. "value" \in Outcomes /\ "raised" \in Outcomes
  BY DEF Outcomes
<1> QED BY <1>2, <1>3, <1>4, <1>5 DEF WalkDone, Settle

\* check_health begins and ends.
LEMMA CheckIInv ==
  ASSUME IInv, NEW c \in Threads, CheckAnswer(c) \/ \E n \in Nodes : CheckHealth(c, n)
  PROVE  IInv'
<1>1. CASE \E n \in Nodes : CheckHealth(c, n)
  <2>1. PICK n \in Nodes : CheckHealth(c, n)
    BY <1>1
  <2>2. LocalsOK("check", n)
    BY DEF LocalsOK, Running
  <2>3. out' = [out EXCEPT ![c] = out[c]] /\ out[c] \in Outcomes
    BY <2>1 DEF CheckHealth, IInv, ThreadsOK
  <2>4. ThreadsOK'
    BY <2>1, <2>2, <2>3, ThreadStep DEF IInv, CheckHealth
  <2> QED BY <2>1, <2>4, MemoKept DEF IInv, CheckHealth
<1>2. CASE CheckAnswer(c)
  <2>1. run[c] \in Nodes /\ now' = now
    BY <1>2 DEF CheckAnswer, IInv, ThreadsOK, LocalsOK
  <2>2. ThreadsOK'
    BY <1>2, FinishOK DEF CheckAnswer, IInv, Outcomes
  <2>3. MemoOK'
    BY <1>2, <2>1, MemoKept, VerdictRecorded DEF CheckAnswer, IInv
  <2> QED BY <2>2, <2>3 DEF IInv
<1> QED BY <1>1, <1>2

\* Time passes: a verdict that ends takes the failure it covers with it.
LEMMA TickIInv ==
  ASSUME IInv, Tick
  PROVE  IInv'
<1>1. ThreadsOK'
  BY DEF IInv, ThreadsOK, Tick
<1>2. /\ now' \in 0..MaxTime /\ now \in Nat /\ now' = now + 1
      /\ health' \in [Nodes -> [bad : BOOLEAN, expires : Nat] \cup {None}]
      /\ failedAt' \in [Nodes -> Nat \cup {None}]
  BY DEF IInv, MemoOK, Tick
<1>3. ASSUME NEW n \in Nodes, failedAt'[n] # None
      PROVE  /\ failedAt'[n] <= now'
             /\ health'[n] # None /\ health'[n].bad
             /\ health'[n].expires >= failedAt'[n] + HealthTtl
             /\ now' <= failedAt'[n] + HealthTtl
  <2>1. failedAt'[n] = failedAt[n] /\ failedAt[n] \in Nat /\ now' <= failedAt[n] + HealthTtl
    BY <1>2, <1>3 DEF IInv, MemoOK, Tick
  <2>2. /\ failedAt[n] <= now /\ health[n] # None /\ health[n].bad
        /\ health[n].expires >= failedAt[n] + HealthTtl
        /\ health[n].expires \in Nat
    BY <1>3, <2>1 DEF IInv, MemoOK, FailureCovered
  <2>3. health'[n] = health[n]
    BY <1>2, <2>1, <2>2 DEF Tick
  <2> QED BY <1>2, <2>1, <2>2, <2>3
<1>4. MemoOK'
  BY <1>2, <1>3 DEF MemoOK, FailureCovered
<1> QED BY <1>1, <1>4 DEF IInv

----------------------------------------------------------------------------
\* No run is under way at the start, and nothing is remembered.
LEMMA InitIInv == Init => IInv
BY DEF Init, IInv, ThreadsOK, MemoOK, LocalsOK, Running, FailureCovered, Outcomes

\* A thread's own steps.
LEMMA StepIInv ==
  ASSUME IInv, NEW c \in Threads, Step(c)
  PROVE  IInv'
BY SkipIInv, TakeIInv, ProbeAnswerIInv, ReadIInv, ReadAnswerIInv, WalkDoneIInv, CheckIInv DEF Step

\* Every step keeps the invariant.
LEMMA NextIInv ==
  ASSUME IInv, [Next]_vars
  PROVE  IInv'
<1>1. CASE \E c \in Callers : Begin(c)
  BY <1>1, BeginIInv DEF Threads
<1>2. CASE \E c \in Threads : Step(c)
  BY <1>2, StepIInv
<1>3. CASE \E c \in Checkers, n \in Nodes : CheckHealth(c, n)
  BY <1>3, CheckIInv DEF Threads
<1>4. CASE Tick
  BY <1>4, TickIInv
<1>5. CASE UNCHANGED vars
  BY <1>5, MemoKept DEF vars, IInv, ThreadsOK
<1> QED BY <1>1, <1>2, <1>3, <1>4, <1>5 DEF Next

\* Every reachable state satisfies the inductive invariant.
LEMMA SpecIInv == Spec => []IInv
BY InitIInv, NextIInv, PTL DEF Spec

\* TypeOK holds in every state of every run and check.
THEOREM TypeCorrect == Spec => []TypeOK
<1>1. IInv => TypeOK
  BY DEF IInv, ThreadsOK, MemoOK, LocalsOK, Running, TypeOK
<1> QED BY <1>1, SpecIInv, PTL

----------------------------------------------------------------------------
\* A step that ends a run with a value is the end of its walk, and the
\* session noted neither a failure nor a terminal error.
LEMMA ValueEndsACleanWalk ==
  ASSUME IInv, Next, NEW d \in Threads, Ends(d, "value")
  PROVE  pc[d] = "walk" /\ ~ run[d].failure /\ run[d].terminal = None
<1>1. PICK c \in Threads : \/ Begin(c) \/ Step(c) \/ (\E n \in Nodes : CheckHealth(c, n))
  BY DEF Next, Threads, Tick, Ends
<1>2. pc \in [Threads -> {"idle", "next", "probe", "walk", "read", "check"}] /\ DOMAIN out = Threads
  BY DEF IInv, ThreadsOK
<1>3. ASSUME NEW o, Finish(c, o) PROVE d = c /\ o = "value"
  BY <1>2, <1>3 DEF Finish, Ends
<1>4. ASSUME NEW p, p # "idle", pc' = [pc EXCEPT ![c] = p] PROVE FALSE
  BY <1>2, <1>4 DEF Ends
<1>5. ASSUME pc' = pc PROVE FALSE
  BY <1>5 DEF Ends
<1>6. CASE Begin(c) \/ \E n \in Nodes : CheckHealth(c, n)
  <2>1. pc[c] = "idle"
    BY <1>6 DEF Begin, CheckHealth
  <2>2. \A e \in Threads : e # c => pc'[e] = pc[e]
    BY <1>2, <1>6 DEF Begin, CheckHealth, Finish
  <2> QED BY <2>1, <2>2 DEF Ends
<1>7. CASE NoneLeft(c) \/ Skip(c) \/ OutOfNodes(c) \/ Take(c) \/ ProbeAnswer(c)
  <2>1. ~ Finish(c, "noHealthyNode") /\ ~ Finish(c, "expired")
    BY <1>3
  <2>2. pc' # [pc EXCEPT ![c] = "probe"] /\ pc' # [pc EXCEPT ![c] = "walk"] /\ ~ MarkAndMoveOn(c)
    BY <1>4 DEF MarkAndMoveOn
  <2>3. ~ (NoneLeft(c) \/ OutOfNodes(c)) 
    BY <2>1 DEF NoneLeft, OutOfNodes
  <2>4. ~ Skip(c)
    BY <1>5 DEF Skip
  <2>5. ~ Take(c)
    BY <2>1, <2>2, Zenon DEF Take
  <2>6. ~ ProbeAnswer(c)
    BY <2>1, <2>2 DEF ProbeAnswer
  <2> QED BY <1>7, <2>3, <2>4, <2>5, <2>6
<1>8. CASE ReadAnswer(c) \/ \E target \in Nodes \cup {Stranger} : Read(c, target)
  BY <1>4, <1>5, <1>8 DEF Read, ReadAnswer
<1>9. CASE CheckAnswer(c)
  BY <1>3, <1>9 DEF CheckAnswer
<1>10. CASE WalkDone(c)
  <2>1. run[c].terminal \in Terminals \cup {None} /\ pc[c] = "walk"
    BY <1>10 DEF WalkDone, IInv, ThreadsOK, LocalsOK, Running, Runs
  <2>2. PICK end \in WalkEnds : Settle(c, end)
    BY <1>3, <1>10 DEF WalkDone
  <2>3. run[c].terminal = None
    BY <1>3, <2>1, <2>2 DEF Settle, Terminals
  <2>4. ~ MarkAndMoveOn(c)
    BY <1>4 DEF MarkAndMoveOn
  <2>5. ~ run[c].failure
    BY <1>3, <2>2, <2>3, <2>4 DEF Settle
  <2>6. d = c
    BY <1>3, <2>2, <2>4 DEF Settle
  <2> QED BY <2>1, <2>3, <2>5, <2>6
<1> QED BY <1>1, <1>6, <1>7, <1>8, <1>9, <1>10 DEF Step

\* run: whatever the threads do and whatever the walk swallows, a
\* value that run returns rests on one node's answers, none of them missing.
THEOREM ValuesComeFromOneNode == Spec => OneNodePerValue
<1>1. ASSUME IInv, Next, NEW c \in Threads, Ends(c, "value")
      PROVE  run[c].heard \subseteq {run[c].node} /\ ~ run[c].broken
  <2>1. pc[c] = "walk" /\ ~ run[c].failure /\ run[c].terminal = None
    BY <1>1, ValueEndsACleanWalk
  <2> QED BY <1>1, <2>1 DEF IInv, ThreadsOK, LocalsOK, Running, OneNode
<1>2. IInv /\ [Next]_vars =>
        [\A c \in Threads : Ends(c, "value") =>
           run[c].heard \subseteq {run[c].node} /\ ~ run[c].broken]_vars
  BY <1>1
<1> QED BY <1>2, SpecIInv, PTL DEF Spec, OneNodePerValue

\* A node that a run has marked is skipped by every run, of every thread,
\* for health_ttl_s, unless a probe after that answered well.
THEOREM MarkedNodesAreSkipped == Spec => FailureIsRemembered
<1>1. ASSUME IInv, Next, NEW d \in Threads, NEW n \in Nodes, Spends(d, n), failedAt[n] # None
      PROVE  FALSE
  <2>1. KnownBad(n)
    BY <1>1 DEF IInv, MemoOK, FailureCovered, KnownBad, Remembered
  <2>2. pc \in [Threads -> {"idle", "next", "probe", "walk", "read", "check"}]
    BY <1>1 DEF IInv, ThreadsOK
  <2>3. PICK c \in Threads : \/ Begin(c) \/ Step(c) \/ (\E m \in Nodes : CheckHealth(c, m))
    BY <1>1 DEF Next, Threads, Tick, Spends
  <2>4. ASSUME NEW p, p \notin {"probe", "walk"}, pc' = [pc EXCEPT ![c] = p] PROVE FALSE
    BY <1>1, <2>2, <2>4 DEF Spends
  <2>5. ASSUME NEW p, pc[c] # "next", pc' = [pc EXCEPT ![c] = p] PROVE FALSE
    BY <1>1, <2>2, <2>5 DEF Spends
  <2>6. ASSUME pc' = pc PROVE FALSE
    BY <1>1, <2>6 DEF Spends
  <2>7. CASE Begin(c) \/ \E m \in Nodes : CheckHealth(c, m)
    BY <2>4, <2>7 DEF Begin, CheckHealth, Finish
  <2>8. CASE NoneLeft(c) \/ Skip(c) \/ OutOfNodes(c)
    BY <2>4, <2>6, <2>8 DEF NoneLeft, Skip, OutOfNodes, Finish
  <2>9. CASE Take(c)
    <3>1. d = c
      BY <1>1, <2>2, <2>9 DEF Take, Spends, Finish
    <3>2. ~ KnownBad(n)
      BY <1>1, <2>9, <3>1, Zenon DEF Take, Spends
    <3> QED BY <2>1, <3>2
  <2>10. CASE ProbeAnswer(c)
    BY <2>5, <2>10 DEF ProbeAnswer, MarkAndMoveOn, Finish
  <2>11. CASE ReadAnswer(c) \/ \E target \in Nodes \cup {Stranger} : Read(c, target)
    BY <2>5, <2>6, <2>11 DEF Read, ReadAnswer
  <2>12. CASE WalkDone(c) \/ CheckAnswer(c)
    BY <2>4, <2>12 DEF WalkDone, Settle, MarkAndMoveOn, CheckAnswer, Finish
  <2> QED BY <2>3, <2>7, <2>8, <2>9, <2>10, <2>11, <2>12 DEF Step
<1>2. IInv /\ [Next]_vars =>
        [\A c \in Threads, n \in Nodes :
           Spends(c, n) /\ failedAt[n] # None => now > failedAt[n] + HealthTtl]_vars
  BY <1>1
<1> QED BY <1>2, SpecIInv, PTL DEF Spec, FailureIsRemembered
=============================================================================
