--------------------------- MODULE DidWebvhProofs ---------------------------
(***************************************************************************)
(* For every set of keys, versions, requests and DNS answers and for logs  *)
(* of every length: the fetch contacts only what it checked and is         *)
(* bounded, and the replay of a log implements DidHistory, whatever the    *)
(* host makes of the lines.                                                *)
(***************************************************************************)
EXTENDS DidWebvh, ChecksProofs, SequenceTheorems

----------------------------------------------------------------------------
(***************************************************************************)
(* Sequences whose elements belong to no declared set.                     *)
(***************************************************************************)
IsSeq(s) == s \in Seq({s[i] : i \in DOMAIN s})

\* A sequence over some set is a sequence.
LEMMA SeqIsSeq ==
  ASSUME NEW S, NEW s \in Seq(S)
  PROVE  IsSeq(s)
BY DEF IsSeq

\* What is known of a sequence.
LEMMA IsSeqFacts ==
  ASSUME NEW s, IsSeq(s)
  PROVE  /\ Len(s) \in Nat /\ DOMAIN s = 1..Len(s) /\ s = [i \in 1..Len(s) |-> s[i]]
         /\ s = <<>> <=> Len(s) = 0
BY DEF IsSeq

----------------------------------------------------------------------------
(***************************************************************************)
(* What is in force.  One version more: what it declares, or what was in   *)
(* force before it.                                                        *)
(***************************************************************************)
LastOf(f, default) ==
  LET at == {k \in DOMAIN f : f[k] # None}
  IN  IF at = {} THEN default ELSE f[Max(at)]

\* What is declared in the last place is the last; else what was before it.
LEMMA LastOfOneMore ==
  ASSUME NEW n \in Nat, NEW f, NEW g, NEW default, DOMAIN f = 1..n, DOMAIN g = 1..(n + 1),
         \A k \in 1..n : g[k] = f[k]
  PROVE  LastOf(g, default) = Declared(g[n + 1], LastOf(f, default))
<1> DEFINE before == {k \in DOMAIN f : f[k] # None}
           with == {k \in DOMAIN g : g[k] # None}
<1>1. CASE g[n + 1] = None
  <2>1. with = before
    BY <1>1
  <2>2. before # {} => Max(before) \in before
    <3>1. before \subseteq 0..n
      OBVIOUS
    <3> QED BY <3>1, MaxOfBounded
  <2>3. before # {} => g[Max(before)] = f[Max(before)]
    BY <2>2
  <2> HIDE DEF before, with
  <2> QED BY <1>1, <2>1, <2>3 DEF LastOf, Declared, before, with
<1>2. CASE g[n + 1] # None
  <2>1. n + 1 \in Nat /\ n + 1 \in with /\ with \subseteq 0..(n + 1)
    BY <1>2
  <2> HIDE DEF with
  <2>2. Max(with) \in with /\ n + 1 <= Max(with)
    BY <2>1, MaxOfBounded
  <2>3. Max(with) = n + 1
    <3>1. Max(with) \in 0..(n + 1)
      BY <2>1, <2>2
    <3> QED BY <2>2, <3>1
  <2> QED BY <1>2, <2>1, <2>3 DEF LastOf, Declared, with
<1> QED BY <1>1, <1>2

\* What is in force, as the last of what is declared.
LEMMA InForceIsLast ==
  ASSUME NEW n \in Nat, NEW h, DOMAIN h = 1..n
  PROVE  /\ History!KeysInForce(h) = LastOf([k \in 1..n |-> h[k].keys], {})
         /\ History!Commitment(h)  = LastOf([k \in 1..n |-> h[k].next], {})
         /\ History!Deactivated(h) = LastOf([k \in 1..n |-> h[k].deactivated], FALSE)
<1> DEFINE keys == [k \in 1..n |-> h[k].keys]
           next == [k \in 1..n |-> h[k].next]
           off == [k \in 1..n |-> h[k].deactivated]
           at(f) == {k \in 1..n : f[k] # None}
<1>1. \A S : History!Max(S) = Max(S)
  BY Zenon DEF History!Max, Max
<1>2. \A f : at(f) # {} => Max(at(f)) \in 1..n
  <2>1. \A f : at(f) \subseteq 0..n /\ at(f) \subseteq 1..n
    OBVIOUS
  <2> HIDE DEF at
  <2> QED BY <2>1, MaxOfBounded
<1>3. History!KeysInForce(h) = LastOf(keys, {})
  <2>1. {k \in DOMAIN h : h[k].keys # None} = at(keys)
    OBVIOUS
  <2>2. History!KeysInForce(h) = IF at(keys) = {} THEN {} ELSE h[Max(at(keys))].keys
    BY <1>1, <2>1, Zenon DEF History!KeysInForce, History!InForce
  <2>3. at(keys) # {} => keys[Max(at(keys))] = h[Max(at(keys))].keys
    BY <1>2
  <2> HIDE DEF keys
  <2> QED BY <2>2, <2>3 DEF LastOf, keys
<1>4. History!Commitment(h) = LastOf(next, {})
  <2>1. {k \in DOMAIN h : h[k].next # None} = at(next)
    OBVIOUS
  <2>2. History!Commitment(h) = IF at(next) = {} THEN {} ELSE h[Max(at(next))].next
    BY <1>1, <2>1, Zenon DEF History!Commitment, History!InForce
  <2>3. at(next) # {} => next[Max(at(next))] = h[Max(at(next))].next
    BY <1>2
  <2> HIDE DEF next
  <2> QED BY <2>2, <2>3 DEF LastOf, next
<1>5. History!Deactivated(h) = LastOf(off, FALSE)
  <2>1. {k \in DOMAIN h : h[k].deactivated # None} = at(off)
    OBVIOUS
  <2>2. History!Deactivated(h) = IF at(off) = {} THEN FALSE ELSE h[Max(at(off))].deactivated
    BY <1>1, <2>1, Zenon DEF History!Deactivated, History!InForce
  <2>3. at(off) # {} => off[Max(at(off))] = h[Max(at(off))].deactivated
    BY <1>2
  <2> HIDE DEF off
  <2> QED BY <2>2, <2>3 DEF LastOf, off
<1> QED BY <1>3, <1>4, <1>5

\* Nothing is in force before the first version.
LEMMA NothingInForce ==
  /\ History!KeysInForce(<<>>) = {}
  /\ History!Commitment(<<>>) = {}
  /\ History!Deactivated(<<>>) = FALSE
BY Zenon, SMT DEF History!KeysInForce, History!Commitment, History!Deactivated, History!InForce

\* One version more: what it declares, or what was in force before it.
LEMMA OneVersionMore ==
  ASSUME NEW n \in Nat, NEW h, NEW g, DOMAIN h = 1..n, DOMAIN g = 1..(n + 1),
         \A k \in 1..n : g[k] = h[k]
  PROVE  /\ History!KeysInForce(g) = Declared(g[n + 1].keys, History!KeysInForce(h))
         /\ History!Commitment(g)  = Declared(g[n + 1].next, History!Commitment(h))
         /\ History!Deactivated(g) = Declared(g[n + 1].deactivated, History!Deactivated(h))
<1>1. n + 1 \in Nat
  OBVIOUS
<1>2. History!KeysInForce(g) = Declared(g[n + 1].keys, History!KeysInForce(h))
  <2> DEFINE f == [k \in 1..n |-> h[k].keys]
             e == [k \in 1..(n + 1) |-> g[k].keys]
  <2>1. DOMAIN f = 1..n /\ DOMAIN e = 1..(n + 1) /\ e[n + 1] = g[n + 1].keys
        /\ \A k \in 1..n : e[k] = f[k]
    OBVIOUS
  <2>2. History!KeysInForce(g) = LastOf(e, {}) /\ History!KeysInForce(h) = LastOf(f, {})
    BY <1>1, InForceIsLast
  <2> HIDE DEF e, f
  <2> QED BY <2>1, <2>2, LastOfOneMore
<1>3. History!Commitment(g) = Declared(g[n + 1].next, History!Commitment(h))
  <2> DEFINE f == [k \in 1..n |-> h[k].next]
             e == [k \in 1..(n + 1) |-> g[k].next]
  <2>1. DOMAIN f = 1..n /\ DOMAIN e = 1..(n + 1) /\ e[n + 1] = g[n + 1].next
        /\ \A k \in 1..n : e[k] = f[k]
    OBVIOUS
  <2>2. History!Commitment(g) = LastOf(e, {}) /\ History!Commitment(h) = LastOf(f, {})
    BY <1>1, InForceIsLast
  <2> HIDE DEF e, f
  <2> QED BY <2>1, <2>2, LastOfOneMore
<1>4. History!Deactivated(g) = Declared(g[n + 1].deactivated, History!Deactivated(h))
  <2> DEFINE f == [k \in 1..n |-> h[k].deactivated]
             e == [k \in 1..(n + 1) |-> g[k].deactivated]
  <2>1. DOMAIN f = 1..n /\ DOMAIN e = 1..(n + 1) /\ e[n + 1] = g[n + 1].deactivated
        /\ \A k \in 1..n : e[k] = f[k]
    OBVIOUS
  <2>2. History!Deactivated(g) = LastOf(e, FALSE) /\ History!Deactivated(h) = LastOf(f, FALSE)
    BY <1>1, InForceIsLast
  <2> HIDE DEF e, f
  <2>3. \A default : LastOf(e, default) = Declared(e[n + 1], LastOf(f, default))
    BY <2>1, LastOfOneMore
  <2> QED BY <2>1, <2>2, <2>3, Zenon
<1> QED BY <1>2, <1>3, <1>4

----------------------------------------------------------------------------
(***************************************************************************)
(* A hash is of a version and of what precedes it, so a version id stands  *)
(* for the whole history up to it.                                         *)
(***************************************************************************)
Before(k, h, ids) == IF k = 1 THEN h[1].scid ELSE ids[k - 1]

Chained(n, h, ids) == \A k \in 1..n : ids[k] = VersionId(k, h[k], Before(k, h, ids))

\* A version id gives away what it was made of.
LEMMA IdIsOne ==
  ASSUME NEW k, NEW v, NEW w, NEW p, NEW q, VersionId(k, v, p) = VersionId(k, w, q)
  PROVE  v = w /\ p = q
<1>1. VersionId(k, v, p).hash = <<v, p>> /\ VersionId(k, w, q).hash = <<w, q>>
  BY DEF VersionId
<1>2. <<v, p>> = <<w, q>>
  BY <1>1
<1> QED BY <1>2

\* Two chains that end in one version id are chains of the same versions.
LEMMA IdStandsForHistory ==
  ASSUME NEW n \in Nat \ {0}, NEW h, NEW g, NEW ids, NEW jds,
         Chained(n, h, ids), Chained(n, g, jds), ids[n] = jds[n]
  PROVE  \A k \in 1..n : h[k] = g[k]
<1> DEFINE differ == {k \in 1..n : ids[k] # jds[k]}
<1>1. differ = {}
  <2> SUFFICES ASSUME differ # {} PROVE FALSE
    OBVIOUS
  <2>1. PICK k \in differ : \A m \in differ : m <= k
    <3>1. differ \subseteq 0..n
      OBVIOUS
    <3> QED BY <3>1, MaxOfBounded
  <2>2. k \in 1..(n - 1) /\ k + 1 \in 1..n /\ k + 1 # 1 /\ (k + 1) - 1 = k
    BY <2>1
  <2>3. k + 1 \notin differ
    BY <2>1, <2>2
  <2>4. ids[k + 1] = jds[k + 1]
    BY <2>2, <2>3
  <2>5. /\ ids[k + 1] = VersionId(k + 1, h[k + 1], ids[k])
        /\ jds[k + 1] = VersionId(k + 1, g[k + 1], jds[k])
    BY <2>2 DEF Chained, Before
  <2>6. VersionId(k + 1, h[k + 1], ids[k]) = VersionId(k + 1, g[k + 1], jds[k])
    BY <2>4, <2>5, Zenon
  <2>7. ids[k] = jds[k]
    BY <2>6, IdIsOne
  <2> QED BY <2>1, <2>7
<1>2. ASSUME NEW k \in 1..n PROVE h[k] = g[k]
  <2>1. ids[k] = jds[k]
    BY <1>1
  <2>2. VersionId(k, h[k], Before(k, h, ids)) = VersionId(k, g[k], Before(k, g, jds))
    BY <2>1 DEF Chained
  <2> QED BY <2>2, IdIsOne
<1> QED BY <1>2

----------------------------------------------------------------------------
(***************************************************************************)
(* The fetch.  Until the connection nothing was contacted, and the address *)
(* it goes to has been checked; until the body the clock has not started.  *)
(***************************************************************************)
FetchEnds == {"done", "unsafe", "transport", "deadline", "status", "oversize", "decode"}

FetchOK ==
  /\ fetch = [pc |-> fetch.pc, ip |-> fetch.ip, status |-> fetch.status, got |-> fetch.got,
              clock |-> fetch.clock, deadline |-> fetch.deadline]
  /\ fetch.pc \in {"idle", "lookup", "connect", "response", "body"} \cup FetchEnds
  /\ fetch.got \in Nat /\ fetch.clock \in Nat /\ fetch.deadline \in Nat
  /\ fetch.pc \in {"idle", "lookup", "connect"} => contacted = {}
  /\ fetch.pc = "connect" => fetch.ip \notin Forbidden
  /\ fetch.pc # "body" => fetch.clock = 0 /\ fetch.got = 0
  /\ ContactsOnlyChecked
  /\ ReadIsBounded

\* What the checks of the fetch raise.
LEMMA FetchErrors ==
  /\ \A url : FirstError(UrlChecks(url)) \in {"ok", "unsafe"}
  /\ \A ips : FirstError(Addresses(ips)) \in {"ok", "unsafe"}
  /\ FirstError(StatusChecks) \in {"ok", "unsafe", "status", "oversize"}
<1>1. ASSUME NEW url PROVE FirstError(UrlChecks(url)) \in {"ok", "unsafe"}
  <2>1. DOMAIN UrlChecks(url) = 1..6 /\ \A i \in 1..6 : UrlChecks(url)[i].err = "unsafe"
    BY DEF UrlChecks, Check
  <2> QED BY <2>1, FirstErrorIsOne
<1>2. ASSUME NEW ips PROVE FirstError(Addresses(ips)) \in {"ok", "unsafe"}
  <2>1. DOMAIN Addresses(ips) = 1..2 /\ \A i \in 1..2 : Addresses(ips)[i].err = "unsafe"
    BY DEF Addresses, Check
  <2> QED BY <2>1, FirstErrorIsOne
<1>3. FirstError(StatusChecks) \in {"ok", "unsafe", "status", "oversize"}
  <2>1. /\ DOMAIN StatusChecks = 1..3
        /\ \A i \in 1..3 : StatusChecks[i].err \in {"unsafe", "status", "oversize"}
    BY DEF StatusChecks, Check
  <2> QED BY <2>1, FirstErrorIsOne
<1> QED BY <1>1, <1>2, <1>3

\* An answer of the DNS that is let through has a first address, and it is
\* not forbidden.
LEMMA CheckedAddress ==
  ASSUME NEW ips \in Answers, FirstError(Addresses(ips)) = "ok"
  PROVE  ips[1] \notin Forbidden
<1> DEFINE routable == \A n \in DOMAIN ips : ips[n] \notin Forbidden
<1>1. /\ DOMAIN Addresses(ips) = 1..2 /\ \A i \in 1..2 : Addresses(ips)[i].err # "ok"
      /\ Addresses(ips)[1].ok = (ips # <<>>)
      /\ Addresses(ips)[2].ok = routable
  <2>1. Addresses(ips) = <<Check(ips # <<>>, "unsafe"), Check(routable, "unsafe")>>
    BY Zenon DEF Addresses
  <2> HIDE DEF routable
  <2> QED BY <2>1 DEF Check
<1>2. \A i \in 1..2 : Addresses(ips)[i].ok
  BY <1>1, FirstErrorOK
<1>3. Addresses(ips)[1].ok /\ Addresses(ips)[2].ok
  BY <1>2
<1>4. ips # <<>> /\ \A n \in DOMAIN ips : ips[n] \notin Forbidden
  BY <1>1, <1>3, Zenon
<1>5. ips \in Seq(UNION {{b[n] : n \in DOMAIN b} : b \in Answers})
  BY FetchAssumption
<1>6. 1 \in DOMAIN ips
  BY <1>4, <1>5, EmptySeq, LenProperties
<1> QED BY <1>4, <1>6

\* The steps of the fetch keep that.
LEMMA FetchKeepsOK ==
  ASSUME FetchOK,
         \/ Lookup \/ Connect \/ Response \/ ReadUnit \/ EndFetch
         \/ \E url : StartFetch(url)
         \/ UNCHANGED <<fetch, contacted>>
  PROVE  FetchOK'
<1> USE FetchAssumption
<1>1. ASSUME NEW how \in FetchEnds \cup {"lookup"}, FetchReturns(how), ContactsOnlyChecked',
             how = "lookup" => contacted' = {}
      PROVE  FetchOK'
  <2>1. fetch' = [pc |-> how, ip |-> None, status |-> None, got |-> 0, clock |-> 0, deadline |-> 0]
    BY <1>1 DEF FetchReturns, Idle
  <2> QED BY <1>1, <2>1 DEF FetchOK, ReadIsBounded, FetchEnds
<1>2. CASE \E url : StartFetch(url)
  <2>1. PICK url : StartFetch(url)
    BY <1>2
  <2>2. PICK how \in {"lookup", "unsafe"} : FetchReturns(how)
    BY <2>1, FetchErrors DEF StartFetch, FetchReturns
  <2>3. contacted' = {} /\ ContactsOnlyChecked'
    BY <2>1 DEF StartFetch, FetchOK, ContactsOnlyChecked
  <2> QED BY <1>1, <2>2, <2>3 DEF FetchEnds
<1>3. CASE Lookup
  <2>1. contacted' = {} /\ ContactsOnlyChecked'
    BY <1>3 DEF Lookup, FetchOK, ContactsOnlyChecked
  <2>2. PICK ips \in Answers : IF FirstError(Addresses(ips)) = "ok"
                              THEN fetch' = [fetch EXCEPT !.pc = "connect", !.ip = ips[1]]
                              ELSE FetchFails(FirstError(Addresses(ips)))
    BY <1>3 DEF Lookup
  <2>3. CASE FirstError(Addresses(ips)) = "ok"
    <3>1. fetch' = [fetch EXCEPT !.pc = "connect", !.ip = ips[1]]
      BY <2>2, <2>3
    <3>2. ips[1] \notin Forbidden
      BY <2>3, CheckedAddress
    <3> QED BY <1>3, <2>1, <3>1, <3>2 DEF Lookup, FetchOK, ReadIsBounded
  <2>4. CASE FirstError(Addresses(ips)) # "ok"
    <3>1. FetchReturns("unsafe")
      BY <2>2, <2>4, FetchErrors DEF FetchFails
    <3> QED BY <1>1, <2>1, <3>1 DEF FetchEnds
  <2> QED BY <2>3, <2>4
<1>4. CASE Connect
  <2>1. contacted' = {fetch.ip} /\ fetch.ip \notin Forbidden
    BY <1>4 DEF Connect, Peer, FetchOK
  <2>2. ContactsOnlyChecked'
    BY <2>1 DEF ContactsOnlyChecked
  <2>3. CASE fetch' = [fetch EXCEPT !.pc = "response"]
    BY <1>4, <2>2, <2>3 DEF Connect, FetchOK, ReadIsBounded
  <2>4. CASE FetchReturns("transport")
    BY <1>1, <2>2, <2>4 DEF FetchEnds
  <2> QED BY <1>4, <2>3, <2>4 DEF Connect, FetchFails
<1>5. CASE Response
  <2>1. ContactsOnlyChecked'
    BY <1>5 DEF Response, FetchOK, ContactsOnlyChecked
  <2>2. CASE FetchReturns("transport")
    BY <1>1, <2>1, <2>2 DEF FetchEnds
  <2>3. ASSUME NEW s, fetch' = [fetch EXCEPT !.pc = "body", !.status = s,
                                             !.deadline = fetch.clock + Timeout]
        PROVE  FetchOK'
    <3>1. fetch' = [pc |-> "body", ip |-> fetch.ip, status |-> s, got |-> fetch.got,
                    clock |-> fetch.clock, deadline |-> fetch.clock + Timeout]
      BY <2>3 DEF FetchOK
    <3>2. fetch.clock = 0 /\ fetch.got = 0 /\ Timeout \in Nat /\ MaxUnits \in Nat
      BY <1>5 DEF Response, FetchOK
    <3> QED BY <2>1, <3>1, <3>2 DEF FetchOK, ReadIsBounded
  <2> QED BY <1>5, <2>2, <2>3 DEF Response, FetchFails
<1>6. CASE ReadUnit
  <2>1. ContactsOnlyChecked'
    BY <1>6 DEF ReadUnit, FetchOK, ContactsOnlyChecked
  <2>2. CASE FetchReturns("transport") \/ FetchReturns("deadline")
    BY <1>1, <2>1, <2>2 DEF FetchEnds
  <2>3. ASSUME NEW t \in 0..Timeout, ~ Late, fetch' = [fetch EXCEPT !.got = @ + 1, !.clock = @ + t]
        PROVE  FetchOK'
    <3>1. fetch.got \in Nat /\ fetch.clock \in Nat /\ fetch.deadline \in Nat
      BY DEF FetchOK
    <3>2. fetch.pc = "body" /\ fetch.got <= MaxUnits
      BY <1>6, Zenon DEF ReadUnit
    <3>3. fetch.clock <= fetch.deadline
      BY <2>3, <3>1 DEF Late
    <3>4. fetch' = [pc |-> "body", ip |-> fetch.ip, status |-> fetch.status,
                    got |-> fetch.got + 1, clock |-> fetch.clock + t, deadline |-> fetch.deadline]
      BY <2>3, <3>2 DEF FetchOK
    <3>5. /\ fetch.got + 1 \in Nat /\ fetch.clock + t \in Nat
          /\ fetch.clock + t <= fetch.deadline + Timeout /\ fetch.got + 1 <= MaxUnits + 1
      BY <3>1, <3>2, <3>3
    <3> QED BY <2>1, <3>1, <3>4, <3>5 DEF FetchOK, ReadIsBounded
  <2> QED BY <1>6, <2>2, <2>3 DEF ReadUnit, FetchFails
<1>7. CASE EndFetch
  <2>1. ContactsOnlyChecked'
    BY <1>7 DEF EndFetch, FetchOK, ContactsOnlyChecked
  <2>2. PICK how \in FetchEnds : FetchReturns(how)
    BY <1>7, FetchErrors DEF EndFetch, FetchFails, FetchEnds, Decoded
  <2> QED BY <1>1, <2>1, <2>2 DEF FetchEnds
<1>8. CASE UNCHANGED <<fetch, contacted>>
  BY <1>8 DEF FetchOK, ContactsOnlyChecked, ReadIsBounded
<1> QED BY <1>2, <1>3, <1>4, <1>5, <1>6, <1>7, <1>8

----------------------------------------------------------------------------
(***************************************************************************)
(* The log.  A sealed line is one that was written, by the holder of the   *)
(* key it names and after the history its version id stands for; until the *)
(* host alters the log, its lines are a chain.                             *)
(***************************************************************************)
Written(line, by) ==
  \E w \in by : \E ids :
    /\ IsSeq(w.history) /\ w.history # <<>>
    /\ w.by = line.key
    /\ Chained(Len(w.history), w.history, ids)
    /\ line.id = ids[Len(w.history)]

LineShape(line) ==
  /\ line = [version |-> line.version, id |-> line.id, key |-> line.key,
             sealed |-> line.sealed, by |-> line.by]
  /\ line.id = [number |-> line.id.number, hash |-> line.id.hash]

LineOK(line, by, theirs) ==
  /\ LineShape(line)
  /\ line.sealed => Written(line, by)
  /\ line.by = "others" => line.key \in theirs \cup (Keys \ Own)

Ids(lines) == [n \in DOMAIN lines |-> lines[n].id]

LogOK ==
  /\ IsSeq(log) /\ changed \in Nat
  /\ \A n \in DOMAIN log : LineOK(log[n], written, stolen)
  /\ changed = 0 => Chained(Len(log), Contents(log), Ids(log))

\* A sequence and one element more.
LEMMA AppendFacts ==
  ASSUME NEW s, IsSeq(s), NEW e
  PROVE  /\ IsSeq(Append(s, e)) /\ Len(Append(s, e)) = Len(s) + 1
         /\ \A i \in 1..Len(s) : Append(s, e)[i] = s[i]
         /\ Append(s, e)[Len(s) + 1] = e
<1> DEFINE S == {s[i] : i \in DOMAIN s} \cup {e}
<1>1. s \in Seq(S)
  BY SeqMonotonic DEF IsSeq
<1>2. e \in S
  OBVIOUS
<1> HIDE DEF S
<1>3. Append(s, e) \in Seq(S)
  BY <1>1, <1>2
<1>4. IsSeq(Append(s, e))
  BY <1>3, SeqIsSeq
<1> QED BY <1>1, <1>2, <1>4

\* The versions of a log are a sequence of the same length.
LEMMA ContentsFacts ==
  ASSUME NEW lines, IsSeq(lines)
  PROVE  /\ IsSeq(Contents(lines)) /\ Len(Contents(lines)) = Len(lines)
         /\ DOMAIN Contents(lines) = 1..Len(lines)
         /\ \A n \in 1..Len(lines) : Contents(lines)[n] = lines[n].version
<1>1. Len(lines) \in Nat /\ DOMAIN lines = 1..Len(lines)
  BY IsSeqFacts
<1>2. Contents(lines) = [n \in 1..Len(lines) |-> lines[n].version]
  BY <1>1 DEF Contents
<1>3. Contents(lines) \in Seq({Contents(lines)[n] : n \in DOMAIN Contents(lines)})
  BY <1>1, <1>2
<1> QED BY <1>1, <1>2, <1>3 DEF IsSeq

\* What was written stays written, and a key that was stolen stays stolen.
LEMMA LineStaysOK ==
  ASSUME NEW line, NEW by, NEW theirs, NEW by2, NEW theirs2, LineOK(line, by, theirs),
         by \subseteq by2, theirs \subseteq theirs2
  PROVE  LineOK(line, by2, theirs2)
BY DEF LineOK, Written

\* Somebody writes a line: it is chained to the log, and sealed because
\* it is written.
LEMMA PutKeepsLog ==
  ASSUME LogOK, changed = 0, NEW v, NEW key, NEW who, Put(v, key, who),
         who = "others" => key \in stolen \cup (Keys \ Own),
         changed' = changed, stolen' = stolen
  PROVE  LogOK' /\ written \subseteq written'
<1> DEFINE n == Len(log)
           p == IF n = 0 THEN v.scid ELSE log[n].id
           line == Line(n + 1, v, p, key, who)
           h == Append(Contents(log), v)
<1>1. n \in Nat /\ DOMAIN log = 1..n
  BY IsSeqFacts DEF LogOK
<1>2. log' = Append(log, line) /\ written' = written \cup {[history |-> h, by |-> key]}
  BY <1>1 DEF Put, Predecessor
<1> HIDE DEF line
<1>3. /\ IsSeq(log') /\ Len(log') = n + 1 /\ log'[n + 1] = line
      /\ \A k \in 1..n : log'[k] = log[k]
  BY <1>2, AppendFacts DEF LogOK
<1>4. DOMAIN log' = 1..(n + 1)
  BY <1>3, IsSeqFacts
<1>5. /\ IsSeq(h) /\ Len(h) = n + 1 /\ h # <<>> /\ h[n + 1] = v
      /\ \A k \in 1..n : h[k] = log[k].version
  <2>1. IsSeq(Contents(log)) /\ Len(Contents(log)) = n /\ \A k \in 1..n : Contents(log)[k] = log[k].version
    BY ContentsFacts DEF LogOK
  <2>2. IsSeq(h) /\ Len(h) = n + 1 /\ h[n + 1] = v /\ \A k \in 1..n : h[k] = log[k].version
    BY <2>1, AppendFacts
  <2> HIDE DEF h
  <2>3. h # <<>>
    BY <1>1, <2>2, IsSeqFacts
  <2> QED BY <2>2, <2>3
<1> HIDE DEF h
<1> DEFINE ids == Ids(log')
<1>6. ids = [k \in 1..(n + 1) |-> log'[k].id]
  BY <1>4 DEF Ids
<1>7. \A k \in 1..n : ids[k] = log[k].id
  BY <1>1, <1>3, <1>6
<1>8. ids[n + 1] = VersionId(n + 1, v, p)
  BY <1>1, <1>3, <1>6 DEF line, Line
<1> HIDE DEF ids
<1>9. Chained(n + 1, h, ids)
  <2> SUFFICES ASSUME NEW k \in 1..(n + 1)
               PROVE  ids[k] = VersionId(k, h[k], Before(k, h, ids))
    BY DEF Chained
  <2>1. CASE k = n + 1
    <3>1. Before(k, h, ids) = p
      <4>1. CASE n = 0
        BY <1>5, <2>1, <4>1 DEF Before
      <4>2. CASE n # 0
        <5>1. k - 1 = n /\ n \in 1..n /\ k # 1
          BY <1>1, <2>1, <4>2
        <5> QED BY <1>7, <4>2, <5>1 DEF Before
      <4> QED BY <4>1, <4>2
    <3> QED BY <1>5, <1>8, <2>1, <3>1
  <2>2. CASE k # n + 1
    <3>1. k \in 1..n /\ (k # 1 => k - 1 \in 1..n) /\ (k = 1 => 1 \in 1..n)
      BY <1>1, <2>2
    <3>2. Ids(log)[k] = VersionId(k, Contents(log)[k], Before(k, Contents(log), Ids(log)))
      BY <3>1 DEF LogOK, Chained
    <3>3. \A j \in 1..n : Ids(log)[j] = ids[j] /\ Contents(log)[j] = h[j]
      BY <1>1, <1>5, <1>7 DEF Ids, Contents
    <3>4. Before(k, Contents(log), Ids(log)) = Before(k, h, ids)
      BY <3>1, <3>3 DEF Before
    <3> QED BY <3>1, <3>2, <3>3, <3>4
  <2> QED BY <2>1, <2>2
<1>10. \A k \in 1..(n + 1) : Contents(log')[k] = h[k]
  <2>1. \A k \in 1..(n + 1) : Contents(log')[k] = log'[k].version
    BY <1>3, ContentsFacts
  <2>2. log'[n + 1].version = v
    BY <1>3 DEF line, Line
  <2>3. \A k \in 1..(n + 1) : k \in 1..n \/ k = n + 1
    BY <1>1
  <2> QED BY <1>3, <1>5, <2>1, <2>2, <2>3
<1>11. Chained(Len(log'), Contents(log'), Ids(log'))
  <2>1. 1 \in 1..(n + 1)
    BY <1>1
  <2> QED BY <1>3, <1>9, <1>10, <2>1 DEF Chained, Before, ids
<1>12. LineOK(line, written', stolen')
  <2>1. LineShape(line) /\ line.by = who /\ line.key = key /\ line.id = VersionId(n + 1, v, p)
    BY DEF LineShape, line, Line, VersionId
  <2>2. Written(line, written')
    <3>1. [history |-> h, by |-> key] \in written'
      BY <1>2
    <3>2. PICK w \in written' : w.history = h /\ w.by = key
      BY <3>1
    <3>3. line.id = ids[Len(h)]
      BY <1>5, <1>8, <2>1
    <3> QED BY <1>5, <1>9, <2>1, <3>2, <3>3 DEF Written
  <2> QED BY <2>1, <2>2 DEF LineOK
<1>13. \A k \in DOMAIN log' : LineOK(log'[k], written', stolen')
  <2>1. ASSUME NEW k \in 1..n PROVE LineOK(log'[k], written', stolen')
    <3>1. LineOK(log[k], written, stolen)
      BY <1>1 DEF LogOK
    <3>2. log'[k] = log[k]
      BY <1>3
    <3>3. written \subseteq written' /\ stolen \subseteq stolen'
      BY <1>2
    <3> QED BY <3>1, <3>2, <3>3, LineStaysOK
  <2>2. \A k \in 1..(n + 1) : k \in 1..n \/ k = n + 1
    BY <1>1
  <2> QED BY <1>3, <1>4, <1>12, <2>1, <2>2
<1> QED BY <1>2, <1>3, <1>11, <1>13 DEF LogOK

\* The host drops, repeats, exchanges or edits lines: the lines it leaves as
\* they were are as good as before, and the ones it edits are not sealed.
LEMMA AlterKeepsLog ==
  ASSUME LogOK, log' \in Altered, changed' = changed + 1, written' = written, stolen' = stolen
  PROVE  LogOK'
<1> DEFINE n == Len(log)
           Good == {log[i] : i \in 1..n}
<1>1. n \in Nat /\ DOMAIN log = 1..n /\ log \in Seq(Good) /\ log = [i \in 1..n |-> log[i]]
  BY IsSeqFacts DEF LogOK, IsSeq
<1>2. SUFFICES IsSeq(log') /\ \A i \in DOMAIN log' : LineOK(log'[i], written, stolen)
  <2>1. changed' \in Nat /\ changed' # 0
    BY DEF LogOK
  <2> QED BY <2>1 DEF LogOK
<1>3. SUFFICES ASSUME log' \notin Seq(Good)
               PROVE  IsSeq(log') /\ \A i \in DOMAIN log' : LineOK(log'[i], written, stolen)
  <2>1. ASSUME log' \in Seq(Good)
        PROVE  IsSeq(log') /\ \A i \in DOMAIN log' : log'[i] \in Good
    BY <2>1, SeqIsSeq
  <2>2. \A line \in Good : LineOK(line, written, stolen)
    BY <1>1 DEF LogOK
  <2> HIDE DEF Good
  <2> QED BY <1>3, <2>1, <2>2
<1>4. \A i, j \in Int : (\A k \in i..j : k \in 1..n) => SubSeq(log, i, j) \in Seq(Good)
  <2> SUFFICES ASSUME NEW i \in Int, NEW j \in Int, \A k \in i..j : k \in 1..n
               PROVE  SubSeq(log, i, j) \in Seq(Good)
    OBVIOUS
  <2>1. \A k \in i..j : log[k] \in Good
    OBVIOUS
  <2> HIDE DEF Good
  <2> QED BY <2>1, SubSeqProperties
<1>5. ASSUME NEW k \in 1..n PROVE SubSeq(log, 1, k - 1) \o SubSeq(log, k + 1, n) \in Seq(Good)
  <2>1. SubSeq(log, 1, k - 1) \in Seq(Good) /\ SubSeq(log, k + 1, n) \in Seq(Good)
    BY <1>1, <1>4
  <2> HIDE DEF Good
  <2> QED BY <2>1, ConcatProperties
<1>6. ASSUME NEW k \in 1..n PROVE SubSeq(log, 1, k) \o SubSeq(log, k, n) \in Seq(Good)
  <2>1. SubSeq(log, 1, k) \in Seq(Good) /\ SubSeq(log, k, n) \in Seq(Good)
    BY <1>1, <1>4
  <2> HIDE DEF Good
  <2> QED BY <2>1, ConcatProperties
<1>7. ASSUME NEW k \in 1..(n - 1)
      PROVE  [log EXCEPT ![k] = log[k + 1], ![k + 1] = log[k]] \in Seq(Good)
  <2>1. k \in 1..n /\ k + 1 \in 1..n
    BY <1>1
  <2>2. log[k] \in Good /\ log[k + 1] \in Good
    BY <2>1
  <2> HIDE DEF Good
  <2>3. [log EXCEPT ![k] = log[k + 1]] \in Seq(Good) /\ Len([log EXCEPT ![k] = log[k + 1]]) = n
    BY <1>1, <2>1, <2>2, ExceptSeq
  <2> QED BY <2>1, <2>2, <2>3, ExceptSeq
<1>8. PICK k, v, id :
        /\ k \in 1..n /\ log' = [log EXCEPT ![k] = Edited(log[k], v, id)]
        /\ id = [number |-> id.number, hash |-> id.hash]
  <2> DEFINE others == {Later(b) : b \in Edits}
             cut == {SubSeq(log, 1, i - 1) \o SubSeq(log, i + 1, Len(log)) : i \in DOMAIN log}
             twice == {SubSeq(log, 1, i) \o SubSeq(log, i, Len(log)) : i \in DOMAIN log}
             swapped == {[log EXCEPT ![i] = log[i + 1], ![i + 1] = log[i]] : i \in 1..(Len(log) - 1)}
             edited == {[log EXCEPT ![i] = Edited(log[i], w, log[i].id)] :
                          i \in DOMAIN log, w \in others}
             rehashed == {[log EXCEPT ![i] = Edited(log[i], w, VersionId(i, w, Predecessor(i - 1)))] :
                            i \in 2..Len(log), w \in others}
  <2>1. log' \in cut \cup twice \cup swapped \cup edited \cup rehashed
    <3>1. Altered = (cut \cup twice \cup swapped \cup edited \cup rehashed) \ {log}
      BY DEF Altered
    <3> HIDE DEF cut, twice, swapped, edited, rehashed
    <3> QED BY <3>1, Zenon
  <2>2. log' \notin cut /\ log' \notin twice
    BY <1>1, <1>3, <1>5, <1>6
  <2>3. log' \notin swapped
    <3> SUFFICES ASSUME NEW i \in 1..(n - 1), log' = [log EXCEPT ![i] = log[i + 1], ![i + 1] = log[i]]
                 PROVE  FALSE
      BY Zenon
    <3>1. [log EXCEPT ![i] = log[i + 1], ![i + 1] = log[i]] \in Seq(Good)
      BY <1>7
    <3> HIDE DEF Good
    <3> QED BY <1>3, <3>1, Zenon
  <2>4. CASE log' \in edited
    <3>1. PICK i \in DOMAIN log, w \in others : log' = [log EXCEPT ![i] = Edited(log[i], w, log[i].id)]
      BY <2>4
    <3>2. i \in 1..n /\ log[i].id = [number |-> log[i].id.number, hash |-> log[i].id.hash]
      BY <1>1 DEF LogOK, LineOK, LineShape
    <3> QED BY <3>1, <3>2, Zenon
  <2>5. CASE log' \in rehashed
    <3>1. PICK i \in 2..Len(log), w \in others :
            log' = [log EXCEPT ![i] = Edited(log[i], w, VersionId(i, w, Predecessor(i - 1)))]
      BY <2>5
    <3>2. \A q : VersionId(i, w, q) = [number |-> VersionId(i, w, q).number,
                                      hash |-> VersionId(i, w, q).hash]
      BY DEF VersionId
    <3>3. i \in 1..n
      BY <1>1
    <3> QED BY <3>1, <3>2, <3>3, Zenon
  <2> HIDE DEF cut, twice, swapped, edited, rehashed
  <2> QED BY <2>1, <2>2, <2>3, <2>4, <2>5, Zenon
<1> DEFINE new == Edited(log[k], v, id)
<1>9. /\ k \in 1..n /\ log' = [log EXCEPT ![k] = new]
      /\ LineShape(new) /\ ~ new.sealed /\ new.by = log[k].by /\ new.key = log[k].key
  BY <1>8 DEF Edited, LineShape
<1> HIDE DEF new
<1>10. log[k].by = "others" => log[k].key \in stolen \cup (Keys \ Own)
  BY <1>1, <1>9 DEF LogOK, LineOK
<1>11. LineOK(new, written, stolen)
  BY <1>9, <1>10 DEF LineOK
<1>12. /\ log' \in Seq(Good \cup {new}) /\ DOMAIN log' = 1..n
       /\ \A i \in 1..n : log'[i] = IF i = k THEN new ELSE log[i]
  <2>1. log \in Seq(Good \cup {new})
    BY <1>1, SeqMonotonic
  <2> QED BY <1>1, <1>9, <2>1, ExceptSeq
<1>13. \A i \in 1..n : LineOK(log'[i], written, stolen)
  BY <1>1, <1>11, <1>12 DEF LogOK
<1> QED BY <1>12, <1>13, SeqIsSeq

----------------------------------------------------------------------------
(***************************************************************************)
(* The replay.  The lines accepted so far are a chain, each signed by a    *)
(* key in control after those before it, and the locals of _replay are     *)
(* what is in force after them.                                            *)
(***************************************************************************)
Prefix(n) == SubSeq(Contents(log), 1, n)

ReplayOK ==
  /\ replay.n \in 0..Len(log)
  /\ replay.n = 0 => replay = Fresh
  /\ replay.n > 0 => /\ asked.method = "webvh" /\ replay.predecessor = log[replay.n].id
                     /\ replay.time = log[replay.n].version.time
  /\ Chained(replay.n, Contents(log), Ids(log))
  /\ \A k \in 1..replay.n : log[k].key \in History!InControl(Prefix(k - 1), log[k].version)
  /\ replay.keys = History!KeysInForce(Prefix(replay.n))
  /\ replay.next = History!Commitment(Prefix(replay.n))
  /\ replay.deactivated = History!Deactivated(Prefix(replay.n))

OutcomeOK ==
  /\ outcome \in {"open", "refused", "resolved"}
  /\ outcome = "resolved" /\ asked.method = "webvh" => replay.n = Len(log)
  /\ outcome = "resolved" => document.id = asked
  /\ outcome = "resolved" /\ asked.method = "webvh" =>
       document = Document(asked, log[Len(log)].version)

IInv == FetchOK /\ LogOK /\ ReplayOK /\ OutcomeOK

\* The first n versions of some lines.
LEMMA FirstVersions ==
  ASSUME NEW lines, IsSeq(lines), NEW n \in 0..Len(lines)
  PROVE  LET h == SubSeq(Contents(lines), 1, n)
         IN  IsSeq(h) /\ Len(h) = n /\ \A k \in 1..n : h[k] = lines[k].version
<1> DEFINE c == Contents(lines)
           S == {c[i] : i \in DOMAIN c}
<1>1. Len(lines) \in Nat
  BY IsSeqFacts
<1>2. DOMAIN c = 1..Len(lines) /\ \A k \in 1..Len(lines) : c[k] = lines[k].version
  BY ContentsFacts
<1>3. \A i \in 1..n : i \in 1..Len(lines) /\ c[i] \in S
  BY <1>1, <1>2
<1> HIDE DEF c, S
<1>4. /\ SubSeq(c, 1, n) \in Seq(S) /\ Len(SubSeq(c, 1, n)) = n
      /\ \A i \in 1..n : SubSeq(c, 1, n)[i] = c[i]
  <2>1. 1 \in Int /\ n \in Int /\ n - 1 + 1 = n
    BY <1>1
  <2>2. /\ SubSeq(c, 1, n) \in Seq(S) /\ Len(SubSeq(c, 1, n)) = IF 1 <= n THEN n - 1 + 1 ELSE 0
        /\ \A i \in 1..(n - 1 + 1) : SubSeq(c, 1, n)[i] = c[1 + i - 1]
    BY <1>3, <2>1, SubSeqProperties
  <2> QED BY <1>1, <2>1, <2>2
<1>5. IsSeq(SubSeq(c, 1, n)) /\ Len(SubSeq(c, 1, n)) = n
  BY <1>4, SeqIsSeq
<1>6. \A k \in 1..n : SubSeq(c, 1, n)[k] = lines[k].version
  BY <1>2, <1>3, <1>4
<1> QED BY <1>5, <1>6 DEF c

\* Logs whose first n versions are the same have the same history up to there.
LEMMA SameVersions ==
  ASSUME NEW s, NEW t, IsSeq(s), IsSeq(t), NEW n \in Nat, n <= Len(s), n <= Len(t),
         \A k \in 1..n : s[k].version = t[k].version
  PROVE  SubSeq(Contents(s), 1, n) = SubSeq(Contents(t), 1, n)
<1> DEFINE g == SubSeq(Contents(s), 1, n)
           h == SubSeq(Contents(t), 1, n)
<1>1. n \in 0..Len(s) /\ n \in 0..Len(t)
  BY IsSeqFacts
<1>2. /\ IsSeq(g) /\ Len(g) = n /\ \A k \in 1..n : g[k] = s[k].version
      /\ IsSeq(h) /\ Len(h) = n /\ \A k \in 1..n : h[k] = t[k].version
  BY <1>1, FirstVersions
<1> HIDE DEF g, h
<1>3. g = [k \in 1..n |-> g[k]] /\ h = [k \in 1..n |-> h[k]]
  BY <1>2, IsSeqFacts
<1>4. g = h
  BY <1>2, <1>3
<1> QED BY <1>4 DEF g, h

\* The first n versions of the log.
LEMMA PrefixFacts ==
  ASSUME IsSeq(log), NEW n \in 0..Len(log)
  PROVE  /\ IsSeq(Prefix(n)) /\ Len(Prefix(n)) = n /\ DOMAIN Prefix(n) = 1..n
         /\ \A k \in 1..n : Prefix(n)[k] = log[k].version
         /\ Prefix(n) = <<>> <=> n = 0
<1>1. IsSeq(Prefix(n)) /\ Len(Prefix(n)) = n /\ \A k \in 1..n : Prefix(n)[k] = log[k].version
  BY FirstVersions DEF Prefix
<1>2. DOMAIN Prefix(n) = 1..n /\ (Prefix(n) = <<>> <=> n = 0)
  BY <1>1, IsSeqFacts
<1> QED BY <1>1, <1>2

\* A prefix without its last version is the prefix before it.
LEMMA ShorterPrefix ==
  ASSUME IsSeq(log), NEW n \in 0..(Len(log) - 1)
  PROVE  SubSeq(Prefix(n + 1), 1, n) = Prefix(n)
<1>1. Len(log) \in Nat
  BY IsSeqFacts
<1>2. n \in 0..Len(log) /\ n + 1 \in 0..Len(log) /\ n \in Nat /\ n \in Int /\ n - 1 + 1 = n
  BY <1>1
<1> DEFINE p == Prefix(n + 1)
           q == Prefix(n)
           S == {p[i] : i \in DOMAIN p}
<1>3. /\ DOMAIN p = 1..(n + 1) /\ IsSeq(q) /\ Len(q) = n
      /\ \A k \in 1..(n + 1) : p[k] = log[k].version
      /\ \A k \in 1..n : q[k] = log[k].version
  BY <1>2, PrefixFacts
<1>4. \A i \in 1..n : i \in 1..(n + 1) /\ p[i] \in S /\ q[i] = p[i]
  <2>1. \A i \in 1..n : i \in 1..(n + 1)
    BY <1>2
  <2>2. \A i \in DOMAIN p : p[i] \in S
    OBVIOUS
  <2> HIDE DEF p, q, S
  <2> QED BY <1>3, <2>1, <2>2
<1> HIDE DEF p, q, S
<1>5. /\ SubSeq(p, 1, n) \in Seq(S) /\ Len(SubSeq(p, 1, n)) = n
      /\ \A i \in 1..n : SubSeq(p, 1, n)[i] = p[i]
  <2>1. /\ SubSeq(p, 1, n) \in Seq(S) /\ Len(SubSeq(p, 1, n)) = IF 1 <= n THEN n - 1 + 1 ELSE 0
        /\ \A i \in 1..(n - 1 + 1) : SubSeq(p, 1, n)[i] = p[1 + i - 1]
    BY <1>2, <1>4, SubSeqProperties
  <2> QED BY <1>2, <2>1
<1>6. q \in Seq(S)
  <2>1. q = [i \in 1..n |-> q[i]]
    BY <1>3, IsSeqFacts
  <2> QED BY <1>2, <1>4, <2>1
<1>7. SubSeq(p, 1, n) = q
  BY <1>3, <1>4, <1>5, <1>6, SeqEqual
<1> QED BY <1>7 DEF p, q

\* What the checks of a line let through: a line that is sealed, whose id is
\* the hash of its version after the line before it, that is no earlier than
\* it, and that is signed by a key in control.
LEMMA AcceptedLine ==
  ASSUME LogOK, ReplayOK, replay.n < Len(log),
         NEW line, line = log[replay.n + 1],
         FirstError(LineChecks(line, replay)) = "ok"
  PROVE  /\ line.sealed
         /\ line.id = VersionId(replay.n + 1, line.version,
                                IF replay.n = 0 THEN line.version.scid ELSE log[replay.n].id)
         /\ line.key \in History!InControl(Prefix(replay.n), line.version)
         /\ replay.n > 0 => log[replay.n].version.time <= line.version.time
<1> DEFINE n == replay.n
           v == line.version
           order == InOrder(replay.time, v.time)
           a == Authorized(v, replay)
           p == IF n = 0 THEN v.scid ELSE replay.predecessor
           genesis == (n = 0 => FirstError(GenesisChecks(v)) = "ok")
           proof == (a # None => ProofOK(line, a))
           checks == LineChecks(line, replay)
<1>1. n \in Nat /\ Len(log) \in Nat /\ n + 1 \in 1..Len(log) /\ DOMAIN log = 1..Len(log)
  BY IsSeqFacts DEF LogOK, ReplayOK
<1>2. /\ DOMAIN checks = 1..7 /\ \A i \in 1..7 : checks[i].err # "ok"
      /\ checks[2].ok = (a # None) /\ checks[4].ok = (line.id.number = n + 1)
      /\ checks[5].ok = (line.id.hash = <<v, p>>) /\ checks[6].ok = order /\ checks[7].ok = proof
  <2>1. checks = << Check(v.parameters, "parameters"), Check(a # None, "keys"),
                    Check(genesis, "genesis"), Check(line.id.number = n + 1, "number"),
                    Check(line.id.hash = <<v, p>>, "hash"),
                    Check(order, "time"), Check(proof, "proof") >>
    BY Zenon DEF LineChecks
  <2> HIDE DEF a, p, genesis, order, proof, checks
  <2> QED BY <2>1 DEF Check
<1> HIDE DEF checks
<1>3. \A i \in 1..7 : checks[i].ok
  BY <1>2, FirstErrorOK DEF checks
<1>4. checks[2].ok /\ checks[4].ok /\ checks[5].ok /\ checks[6].ok /\ checks[7].ok
  BY <1>3
<1>5. a # None /\ line.id.number = n + 1 /\ line.id.hash = <<v, p>> /\ order /\ proof
  BY <1>2, <1>4, Zenon
<1>6. line.key \in a /\ line.sealed
  BY <1>5, Zenon DEF ProofOK
<1>7. line.id = VersionId(n + 1, v, IF n = 0 THEN v.scid ELSE log[n].id)
  <2>1. line.id = [number |-> line.id.number, hash |-> line.id.hash]
    BY <1>1 DEF LogOK, LineOK, LineShape
  <2>2. p = IF n = 0 THEN v.scid ELSE log[n].id
    BY <1>1 DEF ReplayOK
  <2> QED BY <1>5, <2>1, <2>2 DEF VersionId
<1>8. line.key \in History!InControl(Prefix(n), v)
  <2>1. Prefix(n) = <<>> <=> n = 0
    BY <1>1, PrefixFacts DEF LogOK
  <2>2. replay.keys = History!KeysInForce(Prefix(n)) /\ replay.next = History!Commitment(Prefix(n))
    BY DEF ReplayOK
  <2>3. CASE n = 0 \/ replay.next # {}
    <3>1. v.keys # None /\ a = v.keys /\ (n > 0 => v.keys \subseteq replay.next)
      BY <1>5, <2>3 DEF Authorized
    <3> HIDE DEF a, v
    <3> QED BY <1>1, <1>6, <2>1, <2>2, <2>3, <3>1 DEF History!InControl
  <2>4. CASE ~ (n = 0 \/ replay.next # {})
    <3>1. a = replay.keys
      BY <2>4 DEF Authorized
    <3> HIDE DEF a, v
    <3> QED BY <1>1, <1>6, <2>1, <2>2, <2>4, <3>1 DEF History!InControl
  <2> QED BY <2>3, <2>4
<1>9. n > 0 => log[n].version.time <= v.time
  BY <1>5 DEF ReplayOK, InOrder
<1> QED BY <1>6, <1>7, <1>8, <1>9

\* A line that is accepted was written after exactly the versions before it.
LEMMA WasWritten ==
  ASSUME LogOK, ReplayOK, replay.n < Len(log),
         NEW line, line = log[replay.n + 1],
         FirstError(LineChecks(line, replay)) = "ok"
  PROVE  /\ Chained(replay.n + 1, Contents(log), Ids(log))
         /\ \E w \in written : w.history = Prefix(replay.n + 1) /\ w.by = line.key
<1> DEFINE n == replay.n
           c == Contents(log)
           ids == Ids(log)
<1>1. n \in Nat /\ Len(log) \in Nat /\ n + 1 \in 1..Len(log) /\ DOMAIN log = 1..Len(log)
      /\ n \in 0..Len(log) /\ n + 1 \in 0..Len(log) /\ n + 1 \in Nat \ {0}
  BY IsSeqFacts DEF LogOK, ReplayOK
<1>2. /\ \A k \in 1..Len(log) : c[k] = log[k].version
      /\ \A k \in 1..Len(log) : ids[k] = log[k].id
  BY <1>1, ContentsFacts DEF Ids, LogOK
<1>3. line.sealed /\ line.id = VersionId(n + 1, line.version,
                                         IF n = 0 THEN line.version.scid ELSE log[n].id)
  BY AcceptedLine
<1> HIDE DEF c, ids
<1>4. Chained(n + 1, c, ids)
  <2> SUFFICES ASSUME NEW k \in 1..(n + 1) PROVE ids[k] = VersionId(k, c[k], Before(k, c, ids))
    BY DEF Chained
  <2>1. CASE k = n + 1
    <3>1. ids[k] = line.id /\ c[k] = line.version
      BY <1>1, <1>2, <2>1
    <3>2. Before(k, c, ids) = IF n = 0 THEN line.version.scid ELSE log[n].id
      <4>1. CASE n = 0
        BY <2>1, <3>1, <4>1 DEF Before
      <4>2. CASE n # 0
        <5>1. n \in 1..Len(log) /\ k # 1 /\ k - 1 = n
          BY <1>1, <2>1, <4>2
        <5> QED BY <1>2, <4>2, <5>1 DEF Before
      <4> QED BY <4>1, <4>2
    <3> QED BY <1>3, <2>1, <3>1, <3>2
  <2>2. CASE k # n + 1
    <3>1. k \in 1..n
      BY <1>1, <2>2
    <3> QED BY <3>1 DEF ReplayOK, Chained, c, ids
  <2> QED BY <2>1, <2>2
<1>5. PICK w, jds :
        /\ w \in written /\ IsSeq(w.history) /\ w.history # <<>> /\ w.by = line.key
        /\ Chained(Len(w.history), w.history, jds) /\ line.id = jds[Len(w.history)]
  <2>1. LineOK(line, written, stolen)
    BY <1>1 DEF LogOK
  <2>2. Written(line, written)
    BY <1>3, <2>1, Zenon DEF LineOK
  <2> QED BY <2>2, Zenon DEF Written
<1>6. Len(w.history) \in Nat \ {0}
  BY <1>5, IsSeqFacts
<1>7. Len(w.history) = n + 1
  <2>1. Len(w.history) \in 1..Len(w.history)
    BY <1>6
  <2>2. PICK q : jds[Len(w.history)] = VersionId(Len(w.history), w.history[Len(w.history)], q)
    BY <1>5, <2>1 DEF Chained
  <2>3. line.id.number = n + 1
    BY <1>3 DEF VersionId
  <2>4. line.id.number = Len(w.history)
    BY <1>5, <2>2 DEF VersionId
  <2> QED BY <2>3, <2>4
<1>8. \A k \in 1..(n + 1) : w.history[k] = c[k]
  <2>1. ids[n + 1] = jds[n + 1] /\ Chained(n + 1, w.history, jds)
    BY <1>1, <1>2, <1>5, <1>7
  <2> QED BY <1>1, <1>4, <2>1, IdStandsForHistory
<1>9. w.history = Prefix(n + 1)
  <2>1. /\ IsSeq(Prefix(n + 1)) /\ Len(Prefix(n + 1)) = n + 1
        /\ \A k \in 1..(n + 1) : Prefix(n + 1)[k] = log[k].version
    BY <1>1, PrefixFacts DEF LogOK
  <2>2. \A k \in 1..(n + 1) : w.history[k] = Prefix(n + 1)[k]
    BY <1>1, <1>2, <1>8, <2>1
  <2>3. /\ w.history = [k \in 1..(n + 1) |-> w.history[k]]
        /\ Prefix(n + 1) = [k \in 1..(n + 1) |-> Prefix(n + 1)[k]]
    BY <1>5, <1>7, <2>1, IsSeqFacts
  <2> QED BY <2>2, <2>3
<1>10. \E u \in written : u.history = Prefix(n + 1) /\ u.by = line.key
  BY <1>5, <1>9
<1> QED BY <1>4, <1>10 DEF c, ids

----------------------------------------------------------------------------
(***************************************************************************)
(* The invariant.  It has one part for each thing a step can disturb, and  *)
(* a step that is not about a thing leaves that part alone.                *)
(***************************************************************************)
\* No version comes before the first.
LEMMA NoPrefix ==
  ASSUME NEW lines, IsSeq(lines)
  PROVE  SubSeq(Contents(lines), 1, 0) = <<>>
<1> DEFINE c == Contents(lines)
           S == {c[i] : i \in DOMAIN c}
<1>1. c \in Seq(S)
  BY ContentsFacts DEF IsSeq
<1> HIDE DEF c, S
<1>2. SubSeq(c, 1, 0) \in Seq(S) /\ Len(SubSeq(c, 1, 0)) = 0
  BY <1>1
<1>3. SubSeq(c, 1, 0) = <<>>
  BY <1>2, EmptySeq
<1> QED BY <1>3 DEF c

\* Before its first line, a replay is right about any log.
LEMMA FreshReplay ==
  ASSUME IsSeq(log'), replay' = Fresh
  PROVE  ReplayOK'
<1>1. Prefix(0)' = <<>>
  BY NoPrefix DEF Prefix
<1>2. Len(log') \in Nat
  BY IsSeqFacts
<1>3. /\ replay'.n = 0 /\ replay'.keys = {} /\ replay'.next = {}
      /\ replay'.deactivated = FALSE
  BY DEF Fresh
<1>4. \A k : ~ (k \in 1..0)
  OBVIOUS
<1>5. Chained(0, Contents(log'), Ids(log'))
  BY <1>4 DEF Chained
<1>6. /\ replay'.keys = History!KeysInForce(Prefix(0)')
      /\ replay'.next = History!Commitment(Prefix(0)')
      /\ replay'.deactivated = History!Deactivated(Prefix(0)')
  BY <1>1, <1>3, NothingInForce, Zenon
<1>7. 0 \in 0..Len(log') /\ ~ (0 > 0)
  BY <1>2
<1> QED BY <1>3, <1>4, <1>5, <1>6, <1>7, Zenon DEF ReplayOK, Prefix

\* A replay that stands still over a log that does.
LEMMA SameReplay ==
  ASSUME ReplayOK, UNCHANGED <<asked, log, replay>>
  PROVE  ReplayOK'
BY Zenon DEF ReplayOK, Prefix

\* The same for the log.
LEMMA SameLog ==
  ASSUME LogOK, UNCHANGED world
  PROVE  LogOK'
BY DEF LogOK, world

\* Where somebody writes or the host alters the log, no line was replayed.
LEMMA ServedIsFresh ==
  ASSUME ReplayOK, OutcomeOK, Served, IsSeq(log'),
         UNCHANGED <<asked, replay, outcome, document>>
  PROVE  ReplayOK' /\ OutcomeOK'
<1>1. replay' = Fresh
  BY DEF Served, ReplayOK
<1>2. ReplayOK'
  BY <1>1, FreshReplay
<1>3. OutcomeOK'
  BY DEF Served, OutcomeOK
<1> QED BY <1>2, <1>3

\* Accepting a line carries forward what is in force after it.
LEMMA LineKeepsReplay ==
  ASSUME LogOK, ReplayOK, replay.n < Len(log), asked.method = "webvh",
         FirstError(LineChecks(log[replay.n + 1], replay)) = "ok",
         replay' = Carried(log[replay.n + 1], replay), UNCHANGED world
  PROVE  ReplayOK'
<1> DEFINE n == replay.n
           line == log[n + 1]
           g == Prefix(n + 1)
<1>1. n \in Nat /\ Len(log) \in Nat /\ n \in 0..Len(log) /\ n + 1 \in 0..Len(log)
      /\ n + 1 \in 1..(n + 1) /\ n + 1 > 0 /\ n + 1 # 0
  BY IsSeqFacts DEF LogOK, ReplayOK
<1>2. /\ replay'.n = n + 1 /\ replay'.predecessor = line.id /\ replay'.time = line.version.time
      /\ replay'.keys = Declared(line.version.keys, replay.keys)
      /\ replay'.next = Declared(line.version.next, replay.next)
  BY DEF Carried
<1>3. replay'.deactivated = Declared(line.version.deactivated, replay.deactivated)
  BY DEF Carried
<1>4. Chained(n + 1, Contents(log), Ids(log))
  BY WasWritten
<1>5. \A k \in 1..(n + 1) : log[k].key \in History!InControl(Prefix(k - 1), log[k].version)
  <2> SUFFICES ASSUME NEW k \in 1..(n + 1)
               PROVE  log[k].key \in History!InControl(Prefix(k - 1), log[k].version)
    OBVIOUS
  <2>1. CASE k = n + 1
    <3>1. k - 1 = n
      BY <1>1, <2>1
    <3>2. line.key \in History!InControl(Prefix(n), line.version)
      BY AcceptedLine
    <3> QED BY <2>1, <3>1, <3>2
  <2>2. CASE k # n + 1
    <3>1. k \in 1..n
      BY <1>1, <2>2
    <3> QED BY <3>1 DEF ReplayOK
  <2> QED BY <2>1, <2>2
<1>6. /\ History!KeysInForce(g) = Declared(line.version.keys, History!KeysInForce(Prefix(n)))
      /\ History!Commitment(g) = Declared(line.version.next, History!Commitment(Prefix(n)))
      /\ History!Deactivated(g) = Declared(line.version.deactivated, History!Deactivated(Prefix(n)))
  <2>1. DOMAIN Prefix(n) = 1..n /\ \A k \in 1..n : Prefix(n)[k] = log[k].version
    BY <1>1, PrefixFacts DEF LogOK
  <2>2. DOMAIN g = 1..(n + 1) /\ \A k \in 1..(n + 1) : g[k] = log[k].version
    BY <1>1, PrefixFacts DEF LogOK
  <2>3. g[n + 1] = line.version /\ \A k \in 1..n : g[k] = Prefix(n)[k]
    BY <1>1, <2>1, <2>2
  <2> HIDE DEF g
  <2>4. /\ History!KeysInForce(g) = Declared(g[n + 1].keys, History!KeysInForce(Prefix(n)))
        /\ History!Commitment(g) = Declared(g[n + 1].next, History!Commitment(Prefix(n)))
        /\ History!Deactivated(g) = Declared(g[n + 1].deactivated, History!Deactivated(Prefix(n)))
    BY <1>1, <2>1, <2>2, <2>3, OneVersionMore
  <2> QED BY <2>3, <2>4, Zenon
<1>7. /\ replay.keys = History!KeysInForce(Prefix(n))
      /\ replay.next = History!Commitment(Prefix(n))
      /\ replay.deactivated = History!Deactivated(Prefix(n))
  BY Zenon DEF ReplayOK
<1>8. /\ replay'.keys = History!KeysInForce(g)
      /\ replay'.next = History!Commitment(g)
      /\ replay'.deactivated = History!Deactivated(g)
  BY <1>2, <1>3, <1>6, <1>7, Zenon
<1>9. log' = log /\ asked' = asked
  BY DEF world
<1> QED BY <1>1, <1>2, <1>4, <1>5, <1>8, <1>9, Zenon DEF ReplayOK, Prefix

\* A log that resolves ends in a version that is about the identifier asked
\* for, and is not deactivated.
LEMMA LastLine ==
  ASSUME FirstError(LastChecks(replay)) = "ok"
  PROVE  /\ ~ replay.deactivated
         /\ Parsed(State(log[replay.n].version)) = Document(asked, log[replay.n].version)
<1> DEFINE v == log[replay.n].version
           checks == LastChecks(replay)
<1>1. /\ DOMAIN checks = 1..4 /\ \A i \in 1..4 : checks[i].err # "ok"
      /\ checks[1].ok = (v.about = asked) /\ checks[2].ok = (v.state # "wrapped")
      /\ checks[3].ok = ~ replay.deactivated
  <2>1. checks = << Check(v.about = asked, "id"), Check(v.state # "wrapped", "wrapper"),
                    Check(~ replay.deactivated, "deactivated"), Check(IsAskedFor(State(v)), "id") >>
    BY Zenon DEF LastChecks
  <2> HIDE DEF checks, v
  <2> QED BY <2>1 DEF Check
<1> HIDE DEF checks
<1>2. \A i \in 1..4 : checks[i].ok
  BY <1>1, FirstErrorOK DEF checks
<1>3. checks[1].ok /\ checks[2].ok /\ checks[3].ok
  BY <1>2
<1>4. v.about = asked /\ v.state # "wrapped" /\ ~ replay.deactivated
  BY <1>1, <1>3, Zenon
<1>5. Parsed(State(v)) = Document(asked, v)
  <2> HIDE DEF v
  <2>1. State(v) = [id |-> asked, body |-> v, inner |-> None]
    BY <1>4 DEF State
  <2> QED BY <2>1 DEF Parsed
<1> QED BY <1>4, <1>5

\* Initially nothing is fetched, written or replayed.
LEMMA InitIInv == Init => IInv
<1> SUFFICES ASSUME Init PROVE IInv
  OBVIOUS
<1>1. FetchOK
  BY FetchAssumption DEF Init, FetchInit, Idle, FetchOK, ContactsOnlyChecked, ReadIsBounded
<1>2. IsSeq(log) /\ DOMAIN log = {} /\ Len(log) = 0
  BY DEF Init, IsSeq
<1>3. LogOK
  BY <1>2 DEF Init, LogOK, Chained
<1>4. Prefix(0) = <<>>
  BY <1>2, NoPrefix DEF Prefix
<1>5. ReplayOK
  <2>1. /\ replay.n = 0 /\ replay = Fresh /\ replay.keys = {} /\ replay.next = {}
        /\ replay.deactivated = FALSE
    BY DEF Init, Fresh
  <2>2. \A k : ~ (k \in 1..0)
    OBVIOUS
  <2>3. 0 \in 0..Len(log) /\ ~ (0 > 0)
    BY <1>2
  <2> QED BY <1>4, <2>1, <2>2, <2>3, NothingInForce, Zenon DEF ReplayOK, Chained
<1>6. OutcomeOK
  BY DEF Init, OutcomeOK
<1> QED BY <1>1, <1>3, <1>5, <1>6 DEF IInv

\* Every step keeps the invariant.
LEMMA NextIInv == IInv /\ [Next]_vars => IInv'
<1> SUFFICES ASSUME IInv, [Next]_vars PROVE IInv'
  OBVIOUS
<1>0. FetchOK /\ LogOK /\ ReplayOK /\ OutcomeOK /\ IsSeq(log)
  BY DEF IInv, LogOK
<1>1. ASSUME UNCHANGED world, UNCHANGED <<replay, document>>, outcome' \in {outcome, "refused"},
             FetchOK'
      PROVE  IInv'
  <2>1. OutcomeOK'
    BY <1>0, <1>1 DEF OutcomeOK, world
  <2> QED BY <1>0, <1>1, <2>1, SameLog, SameReplay DEF IInv, world
<1>2. CASE Ask
  <2>1. FetchOK'
    BY <1>0, <1>2, FetchKeepsOK DEF Ask
  <2> QED BY <1>1, <1>2, <2>1 DEF Ask, Stop
<1>3. CASE FetchStep
  <2>1. FetchOK'
    BY <1>0, <1>3, FetchKeepsOK DEF FetchStep
  <2> QED BY <1>1, <1>3, <2>1 DEF FetchStep
<1>4. CASE FetchRaises
  <2>1. FetchOK'
    BY <1>0, <1>4, FetchKeepsOK DEF FetchRaises
  <2> QED BY <1>1, <1>4, <2>1 DEF FetchRaises, Stop
<1>5. ASSUME LogOK', Served, UNCHANGED <<fetch, contacted, asked, replay, outcome, document>>
      PROVE  IInv'
  <2>1. FetchOK'
    BY <1>0, <1>5, FetchKeepsOK
  <2>2. IsSeq(log')
    BY <1>5 DEF LogOK
  <2> QED BY <1>0, <1>5, <2>1, <2>2, ServedIsFresh DEF IInv
<1>6. CASE ControllerWrites
  <2>1. PICK v, k : Put(v, k, "controller")
    BY <1>6 DEF ControllerWrites
  <2>2. LogOK'
    BY <1>0, <1>6, <2>1, PutKeepsLog DEF ControllerWrites
  <2> QED BY <1>5, <1>6, <2>2 DEF ControllerWrites
<1>7. CASE KeyIsStolen
  <2>1. stolen \subseteq stolen' /\ UNCHANGED <<log, changed, written>>
    BY <1>7 DEF KeyIsStolen
  <2>2. \A n \in DOMAIN log : LineOK(log[n], written, stolen')
    BY <1>0, <2>1, LineStaysOK DEF LogOK
  <2>3. LogOK'
    BY <1>0, <2>1, <2>2 DEF LogOK
  <2> QED BY <1>5, <1>7, <2>3 DEF KeyIsStolen
<1>8. CASE OthersWrite
  <2>1. PICK v, k : k \in stolen \cup (Keys \ Own) /\ Put(v, k, "others")
    BY <1>8 DEF OthersWrite
  <2>2. LogOK'
    BY <1>0, <1>8, <2>1, PutKeepsLog DEF OthersWrite
  <2> QED BY <1>5, <1>8, <2>2 DEF OthersWrite
<1>9. CASE HostAlters
  <2>1. LogOK'
    BY <1>0, <1>9, AlterKeepsLog DEF HostAlters
  <2> QED BY <1>5, <1>9, <2>1 DEF HostAlters
<1>10. CASE ReplayLine
  <2>1. FetchOK' /\ UNCHANGED world
    BY <1>0, <1>10, FetchKeepsOK DEF ReplayLine
  <2>2. CASE Stop("refused")
    BY <1>1, <2>1, <2>2 DEF Stop
  <2>3. CASE /\ FirstError(LineChecks(log[replay.n + 1], replay)) = "ok"
             /\ replay' = Carried(log[replay.n + 1], replay) /\ UNCHANGED <<outcome, document>>
    <3>1. asked.method = "webvh" /\ outcome = "open" /\ replay.n < Len(log)
      BY <1>0, <1>10 DEF ReplayLine, Served, ReplayOK
    <3>2. ReplayOK'
      BY <1>0, <2>1, <2>3, <3>1, LineKeepsReplay
    <3>3. OutcomeOK'
      BY <2>3, <3>1 DEF OutcomeOK
    <3> QED BY <1>0, <2>1, <3>2, <3>3, SameLog DEF IInv
  <2> QED BY <1>10, <2>2, <2>3 DEF ReplayLine
<1>11. CASE ReplayEnds
  <2>1. FetchOK' /\ UNCHANGED world
    BY <1>0, <1>11, FetchKeepsOK DEF ReplayEnds
  <2>2. CASE Stop("refused")
    BY <1>1, <2>1, <2>2 DEF Stop
  <2>3. CASE /\ FirstError(LastChecks(replay)) = "ok" /\ outcome' = "resolved"
             /\ document' = Parsed(State(log[replay.n].version)) /\ UNCHANGED replay
    <3>1. document' = Document(asked, log[replay.n].version)
      BY <2>3, LastLine
    <3>2. document'.id = asked
      BY <3>1 DEF Document
    <3>3. OutcomeOK'
      BY <1>11, <2>1, <2>3, <3>1, <3>2 DEF OutcomeOK, ReplayEnds, world
    <3> QED BY <1>0, <2>1, <2>3, <3>3, SameLog, SameReplay DEF IInv, world
  <2> QED BY <1>11, <2>2, <2>3 DEF ReplayEnds
<1>12. CASE WebDocument
  <2>1. FetchOK' /\ UNCHANGED world
    BY <1>0, <1>12, FetchKeepsOK DEF WebDocument
  <2>2. CASE Stop("refused")
    BY <1>1, <2>1, <2>2 DEF Stop
  <2>3. ASSUME NEW raw, IsAskedFor(raw), outcome' = "resolved", document' = Parsed(raw),
               UNCHANGED replay
        PROVE  IInv'
    <3>1. OutcomeOK'
      BY <1>12, <2>1, <2>3 DEF OutcomeOK, WebDocument, IsAskedFor, world
    <3> QED BY <1>0, <2>1, <2>3, <3>1, SameLog, SameReplay DEF IInv, world
  <2> QED BY <1>12, <2>2, <2>3 DEF WebDocument
<1>13. CASE UNCHANGED vars
  <2>1. FetchOK'
    BY <1>0, <1>13, FetchKeepsOK DEF vars
  <2> QED BY <1>1, <1>13, <2>1 DEF vars, world
<1> QED BY <1>2, <1>3, <1>4, <1>6, <1>7, <1>8, <1>9, <1>10, <1>11, <1>12, <1>13 DEF Next

\* The invariant holds of every behaviour.
LEMMA SpecIInv == Spec => []IInv
BY InitIInv, NextIInv, PTL DEF Spec

----------------------------------------------------------------------------
(***************************************************************************)
(* "An attacker who flips DNS between the check and the connect cannot     *)
(* redirect us to an internal address": for every DNS, one fetch opens one *)
(* connection at most, to an address that was checked.                     *)
(***************************************************************************)
THEOREM OnlyCheckedAddressesAreContacted == Spec => []ContactsOnlyChecked
<1>1. IInv => ContactsOnlyChecked
  BY DEF IInv, FetchOK
<1> QED BY <1>1, SpecIInv, PTL

(***************************************************************************)
(* For every timeout and limit, a server that drips holds the fetch for    *)
(* one socket timeout past the deadline at most, and one unit beyond the   *)
(* limit at most is taken in.                                              *)
(***************************************************************************)
THEOREM TheBodyIsBounded == Spec => []ReadIsBounded
<1>1. IInv => ReadIsBounded
  BY DEF IInv, FetchOK
<1> QED BY <1>1, SpecIInv, PTL

(***************************************************************************)
(* "A compromised current key cannot rotate to an attacker key": for every *)
(* set of keys and versions and for logs of every length, where others     *)
(* take a resolved log over from its controller past a commitment, they    *)
(* hold a key that is committed to.                                        *)
(***************************************************************************)
THEOREM TakeoverNeedsACommittedKey == Spec => []TheftNeedsACommittedKey
<1>1. IInv => TheftNeedsACommittedKey
  <2> SUFFICES ASSUME IInv, outcome = "resolved", asked.method = "webvh",
                      NEW n \in 2..Len(log), log[n].by = "others",
                      History!Commitment(SubSeq(Contents(log), 1, n - 1)) # {}
               PROVE  History!Commitment(SubSeq(Contents(log), 1, n - 1))
                        \cap (stolen \cup (Keys \ Own)) # {}
    BY Zenon DEF TheftNeedsACommittedKey
  <2> DEFINE h == Prefix(n - 1)
             v == log[n].version
             k == log[n].key
  <2>1. Len(log) \in Nat /\ DOMAIN log = 1..Len(log)
    BY IsSeqFacts DEF IInv, LogOK
  <2>2. n \in 1..Len(log) /\ n - 1 \in 0..Len(log) /\ n - 1 # 0
    BY <2>1
  <2>3. replay.n = Len(log)
    BY DEF IInv, OutcomeOK
  <2>4. k \in stolen \cup (Keys \ Own)
    BY <2>1, <2>2 DEF IInv, LogOK, LineOK
  <2>5. k \in History!InControl(h, v)
    BY <2>2, <2>3 DEF IInv, ReplayOK
  <2>6. h # <<>> /\ History!Commitment(h) # {}
    BY <2>2, PrefixFacts DEF IInv, LogOK, Prefix
  <2> HIDE DEF h, v, k
  <2>7. k \in History!Commitment(h)
    BY <2>5, <2>6 DEF History!InControl
  <2> QED BY <2>4, <2>7 DEF h, Prefix
<1> QED BY <1>1, SpecIInv, PTL

----------------------------------------------------------------------------
(***************************************************************************)
(* The refinement.                                                         *)
(***************************************************************************)
\* The history the abstract specification sees does not move when neither
\* the log nor the replay does, nor before the first line is replayed.
LEMMA SameHistory ==
  ASSUME IInv, IInv', replay' = replay, log' = log \/ replay.n = 0
  PROVE  SubSeq(Contents(log), 1, replay.n)' = SubSeq(Contents(log), 1, replay.n)
<1>1. CASE log' = log
  BY <1>1
<1>2. CASE replay.n = 0
  <2>1. IsSeq(log) /\ IsSeq(log')
    BY DEF IInv, LogOK
  <2>2. SubSeq(Contents(log), 1, 0) = <<>> /\ SubSeq(Contents(log'), 1, 0) = <<>>
    BY <2>1, NoPrefix
  <2> QED BY <1>2, <2>2
<1> QED BY <1>1, <1>2

\* The initial states are initial states of DidHistory.
LEMMA InitRefines == Init => History!Init
<1> SUFFICES ASSUME Init PROVE History!Init
  OBVIOUS
<1>1. IsSeq(log) /\ replay.n = 0
  BY DEF Init, IsSeq, Fresh
<1>2. SubSeq(Contents(log), 1, replay.n) = <<>>
  BY <1>1, NoPrefix
<1> QED BY <1>2 DEF Init, History!Init

\* Every step is a step of DidHistory, or none.
LEMMA NextRefines == IInv /\ IInv' /\ [Next]_vars => [History!Next]_(History!vars)
<1> SUFFICES ASSUME IInv, IInv', [Next]_vars PROVE [History!Next]_(History!vars)
  OBVIOUS
<1> DEFINE hist == SubSeq(Contents(log), 1, replay.n)
           out == IF asked.method = "webvh" THEN outcome ELSE "open"
<1>1. ASSUME hist' = hist, out' = out, written \subseteq written' PROVE [History!Next]_(History!vars)
  BY <1>1 DEF History!Next, History!Write
<1>2. ASSUME hist' = hist, out = "open", out' = "refused", written' = written
      PROVE  [History!Next]_(History!vars)
  BY <1>2 DEF History!Next, History!Refuse
<1>3. ASSUME UNCHANGED world, Stop("refused"), outcome = "open" PROVE [History!Next]_(History!vars)
  <2>1. hist' = hist /\ written' = written /\ asked' = asked
    BY <1>3, SameHistory DEF Stop, world
  <2>2. CASE asked.method = "webvh"
    BY <1>2, <1>3, <2>1, <2>2 DEF Stop
  <2>3. CASE asked.method # "webvh"
    BY <1>1, <2>1, <2>3
  <2> QED BY <2>2, <2>3
<1>4. ASSUME UNCHANGED world, UNCHANGED <<replay, outcome>> PROVE [History!Next]_(History!vars)
  <2>1. hist' = hist
    BY <1>4, SameHistory DEF world
  <2> QED BY <1>1, <1>4, <2>1 DEF world
<1>5. ASSUME Served, UNCHANGED <<asked, replay, outcome>>, written \subseteq written'
      PROVE  [History!Next]_(History!vars)
  <2>1. hist' = hist
    BY <1>5, SameHistory DEF Served
  <2> QED BY <1>1, <1>5, <2>1
<1>6. CASE Ask
  BY <1>3, <1>4, <1>6 DEF Ask
<1>7. CASE FetchStep
  BY <1>4, <1>7 DEF FetchStep
<1>8. CASE FetchRaises
  BY <1>3, <1>8 DEF FetchRaises
<1>9. CASE ControllerWrites
  BY <1>5, <1>9 DEF ControllerWrites, Put
<1>10. CASE KeyIsStolen
  BY <1>5, <1>10 DEF KeyIsStolen
<1>11. CASE OthersWrite
  BY <1>5, <1>11 DEF OthersWrite, Put
<1>12. CASE HostAlters
  BY <1>5, <1>12 DEF HostAlters
<1>13. CASE ReplayLine
  <2>1. UNCHANGED world /\ outcome = "open" /\ asked.method = "webvh" /\ replay.n < Len(log)
    BY <1>13 DEF ReplayLine, Served, IInv, ReplayOK
  <2>2. CASE Stop("refused")
    BY <1>3, <2>1, <2>2
  <2>3. CASE /\ FirstError(LineChecks(log[replay.n + 1], replay)) = "ok"
             /\ replay' = Carried(log[replay.n + 1], replay) /\ UNCHANGED <<outcome, document>>
    <3> DEFINE n == replay.n
               line == log[n + 1]
    <3>1. n \in Nat /\ Len(log) \in Nat /\ n \in 0..(Len(log) - 1) /\ n + 1 \in 0..Len(log)
          /\ (n + 1) - 1 = n /\ n + 1 \in 1..(n + 1) /\ n + 1 # 0
      BY <2>1, IsSeqFacts DEF IInv, LogOK, ReplayOK
    <3>2. PICK w \in written : w.history = Prefix(n + 1) /\ w.by = line.key
      BY <2>1, <2>3, WasWritten DEF IInv
    <3>3. /\ Len(w.history) = n + 1 /\ w.history # <<>> /\ w.history[n + 1] = line.version
      BY <3>1, <3>2, PrefixFacts DEF IInv, LogOK
    <3>4. hist = SubSeq(w.history, 1, Len(w.history) - 1)
      BY <3>1, <3>2, <3>3, ShorterPrefix DEF IInv, LogOK, Prefix
    <3>5. w.by \in History!InControl(hist, w.history[Len(w.history)])
      <4>1. line.key \in History!InControl(Prefix(n), line.version)
        BY <2>1, <2>3, AcceptedLine DEF IInv
      <4> QED BY <3>2, <3>3, <4>1 DEF Prefix
    <3>6. hist # <<>> => hist[Len(hist)].time <= w.history[Len(w.history)].time
      <4>1. n > 0 => log[n].version.time <= line.version.time
        BY <2>1, <2>3, AcceptedLine DEF IInv
      <4>2. Len(Prefix(n)) = n /\ (Prefix(n) = <<>> <=> n = 0)
            /\ \A k \in 1..n : Prefix(n)[k] = log[k].version
        BY <3>1, PrefixFacts DEF IInv, LogOK
      <4>3. n # 0 => n > 0 /\ n \in 1..n
        BY <3>1
      <4>4. n # 0 => Prefix(n)[n] = log[n].version
        BY <4>2, <4>3
      <4> HIDE DEF n, line
      <4>5. Prefix(n) # <<>> => Prefix(n)[Len(Prefix(n))].time <= w.history[Len(w.history)].time
        BY <3>3, <4>1, <4>2, <4>3, <4>4
      <4> QED BY <4>5 DEF Prefix, n
    <3>7. hist' = w.history
      BY <2>1, <2>3, <3>2 DEF world, Carried, Prefix
    <3>8. out = "open" /\ out' = out /\ written' = written
      BY <2>1, <2>3 DEF world
    <3> QED BY <3>2, <3>3, <3>4, <3>5, <3>6, <3>7, <3>8, Zenon DEF History!Next, History!Extend
  <2> QED BY <1>13, <2>2, <2>3 DEF ReplayLine
<1>14. CASE ReplayEnds
  <2>1. /\ UNCHANGED world /\ outcome = "open" /\ asked.method = "webvh"
        /\ replay.n = Len(log)
    BY <1>14 DEF ReplayEnds, Served, IInv, ReplayOK
  <2>2. CASE Stop("refused")
    BY <1>3, <2>1, <2>2
  <2>3. CASE /\ log # <<>> /\ FirstError(LastChecks(replay)) = "ok" /\ outcome' = "resolved"
             /\ UNCHANGED replay
    <3>1. hist # <<>>
      <4>1. Len(log) \in Nat /\ Len(log) # 0 /\ Len(log) \in 0..Len(log)
        BY <2>3, IsSeqFacts DEF IInv, LogOK
      <4> QED BY <2>1, <4>1, PrefixFacts DEF IInv, LogOK, Prefix
    <3>2. ~ History!Deactivated(hist)
      <4>1. ~ replay.deactivated
        BY <2>3, LastLine
      <4> QED BY <4>1, Zenon DEF IInv, ReplayOK, Prefix
    <3>3. hist' = hist /\ written' = written
      BY <2>1, <2>3, SameHistory DEF world
    <3>4. out = "open" /\ out' = "resolved"
      BY <2>1, <2>3 DEF world
    <3> QED BY <3>1, <3>2, <3>3, <3>4, Zenon DEF History!Next, History!Resolve
  <2> QED BY <1>14, <2>2, <2>3 DEF ReplayEnds, Parses
<1>15. CASE WebDocument
  <2>1. UNCHANGED world /\ UNCHANGED replay /\ asked.method # "webvh"
    BY <1>15 DEF WebDocument, Stop
  <2>2. hist' = hist
    BY <2>1, SameHistory DEF world
  <2> QED BY <1>1, <2>1, <2>2 DEF world
<1>16. CASE UNCHANGED vars
  BY <1>4, <1>16 DEF vars, world
<1> QED BY <1>6, <1>7, <1>8, <1>9, <1>10, <1>11, <1>12, <1>13, <1>14, <1>15, <1>16 DEF Next

(***************************************************************************)
(* The replay implements DidHistory, for every set of keys and versions    *)
(* and for logs of every length: whatever the host makes of the lines,     *)
(* what _replay has accepted was written, version by version, each after   *)
(* exactly those before it, no earlier than they, and by a key then in     *)
(* control.                                                                *)
(***************************************************************************)
THEOREM ReplayImplementsHistory == Spec => ReplaysAHistory
<1>1. Spec => History!Spec
  BY InitRefines, NextRefines, SpecIInv, PTL DEF Spec, History!Spec
<1> QED BY <1>1 DEF ReplaysAHistory

----------------------------------------------------------------------------
(***************************************************************************)
(* The other direction: a log its controller left in good order is not     *)
(* refused.  As long as the host has altered nothing every line is sealed, *)
(* and the controller's keep the rules; the replay also knows whether      *)
(* witnesses are in force; and the fetch is over before anything is        *)
(* refused.                                                                *)
(***************************************************************************)
LawfulAt(lines, n) ==
  LET v == lines[n].version
  IN  /\ lines[n].key \in History!InControl(SubSeq(Contents(lines), 1, n - 1), v)
      /\ n > 1 => v.time >= lines[n - 1].version.time
      /\ n = 1 => v.scid # None /\ Inception(v) = v.scid /\ v.time \in Nat

RulesAreKept ==
  changed = 0 =>
    \A n \in DOMAIN log : log[n].sealed = TRUE /\ (log[n].by = "controller" => LawfulAt(log, n))

Witnessed(h) == LastOf([k \in DOMAIN h |-> h[k].witness], FALSE)

ReplayKnows == replay.witness = Witnessed(Prefix(replay.n))

FetchIsOver ==
  /\ log # <<>> => asked.method = "webvh"
  /\ replay.n > 0 => fetch.pc = "done"
  /\ outcome # "open" => fetch.pc \in FetchEnds \cup {"idle"}
  /\ outcome = "refused" /\ fetch.pc = "done" => ~ InGoodOrder

JInv == RulesAreKept /\ ReplayKnows /\ FetchIsOver

\* A version with another SCID that is about something else.
LEMMA Reissued ==
  ASSUME NEW v, v = [method |-> v.method, scid |-> v.scid, about |-> v.about, moved |-> v.moved,
                     parameters |-> v.parameters, keys |-> v.keys, next |-> v.next, time |-> v.time,
                     witness |-> v.witness, deactivated |-> v.deactivated, state |-> v.state],
         NEW x, NEW y, NEW e, e = [v EXCEPT !.scid = x, !.about = y]
  PROVE  e = [method |-> v.method, scid |-> x, about |-> y, moved |-> v.moved,
              parameters |-> v.parameters, keys |-> v.keys, next |-> v.next, time |-> v.time,
              witness |-> v.witness, deactivated |-> v.deactivated, state |-> v.state]
<1>1. DOMAIN v = {"method", "scid", "about", "moved", "parameters", "keys", "next", "time", "witness",
                  "deactivated", "state"}
  OBVIOUS
<1>2. DOMAIN e = DOMAIN v /\ e = [f \in DOMAIN v |-> e[f]]
  BY Zenon
<1>3. e.scid = x /\ e.about = y
  BY <1>1, Zenon
<1>4. /\ e.method = v.method /\ e.moved = v.moved /\ e.parameters = v.parameters /\ e.keys = v.keys
      /\ e.next = v.next /\ e.time = v.time /\ e.witness = v.witness
      /\ e.deactivated = v.deactivated /\ e.state = v.state
  BY <1>1, Zenon
<1>5. e = [method |-> e.method, scid |-> e.scid, about |-> e.about, moved |-> e.moved,
           parameters |-> e.parameters, keys |-> e.keys, next |-> e.next, time |-> e.time,
           witness |-> e.witness, deactivated |-> e.deactivated, state |-> e.state]
  BY <1>1, <1>2
<1> QED BY <1>3, <1>4, <1>5, Zenon

\* An identifier with another SCID.
LEMMA Renamed ==
  ASSUME NEW a, a = [method |-> a.method, scid |-> a.scid, host |-> a.host, ascii |-> a.ascii],
         NEW x, NEW e, e = [a EXCEPT !.scid = x]
  PROVE  e = [method |-> a.method, scid |-> x, host |-> a.host, ascii |-> a.ascii]
<1>1. DOMAIN a = {"method", "scid", "host", "ascii"}
  OBVIOUS
<1>2. DOMAIN e = DOMAIN a /\ e = [f \in DOMAIN a |-> e[f]]
  BY Zenon
<1>3. e.scid = x /\ e.method = a.method /\ e.host = a.host /\ e.ascii = a.ascii
  BY <1>1, Zenon
<1>4. e = [method |-> e.method, scid |-> e.scid, host |-> e.host, ascii |-> e.ascii]
  BY <1>1, <1>2
<1> QED BY <1>3, <1>4, Zenon

\* A genesis with its own hash for a SCID is found to have it.
LEMMA InceptedHashes ==
  ASSUME NEW g \in Geneses
  PROVE  /\ Incepted(g).scid = g /\ Incepted(g).time \in Nat
         /\ Inception(Incepted(g)) = g
<1> DEFINE v == Incepted(g)
           a == [method |-> g.about.method, scid |-> g, host |-> g.about.host, ascii |-> g.about.ascii]
<1>1. g = [method |-> g.method, scid |-> g.scid, about |-> g.about, moved |-> g.moved,
           parameters |-> g.parameters, keys |-> g.keys, next |-> g.next, time |-> g.time,
           witness |-> g.witness, deactivated |-> g.deactivated, state |-> g.state]
  BY VersionAssumption, Zenon
<1>2. /\ g.about = [method |-> g.about.method, scid |-> Placeholder, host |-> g.about.host,
                    ascii |-> g.about.ascii]
      /\ g.scid = Placeholder /\ g.time \in Nat
  BY VersionAssumption, Zenon
<1>3. g.about.scid = Placeholder
  BY <1>2
<1>4. v = [method |-> g.method, scid |-> g, about |-> a, moved |-> g.moved,
           parameters |-> g.parameters, keys |-> g.keys, next |-> g.next, time |-> g.time,
           witness |-> g.witness, deactivated |-> g.deactivated, state |-> g.state]
  <2>1. v = [g EXCEPT !.scid = g, !.about = [g.about EXCEPT !.scid = g]]
    BY Zenon DEF Incepted
  <2>2. [g.about EXCEPT !.scid = g] = a
    BY <1>2, <1>3, Renamed, Zenon
  <2> HIDE DEF a, v
  <2>3. v = [g EXCEPT !.scid = g, !.about = a]
    BY <2>1, <2>2, Zenon
  <2> QED BY <1>1, <2>3, Reissued, Zenon
<1>5. /\ v.scid = g /\ v.about = a /\ v.time = g.time /\ v.method = g.method /\ v.moved = g.moved
      /\ v.parameters = g.parameters /\ v.keys = g.keys /\ v.next = g.next /\ v.witness = g.witness
      /\ v.deactivated = g.deactivated /\ v.state = g.state
  <2> HIDE DEF a, v
  <2> QED BY <1>4
<1>6. Inception(v) = [method |-> g.method, scid |-> Placeholder, about |-> g.about, moved |-> g.moved,
                      parameters |-> g.parameters, keys |-> g.keys, next |-> g.next, time |-> g.time,
                      witness |-> g.witness, deactivated |-> g.deactivated, state |-> g.state]
  <2>1. v.about.scid = v.scid
    BY <1>5
  <2>2. Inception(v) = [v EXCEPT !.scid = Placeholder, !.about = [v.about EXCEPT !.scid = Placeholder]]
    BY <2>1, Zenon DEF Inception
  <2>3. /\ a = [method |-> a.method, scid |-> a.scid, host |-> a.host, ascii |-> a.ascii]
        /\ a.method = g.about.method /\ a.host = g.about.host /\ a.ascii = g.about.ascii
    OBVIOUS
  <2> HIDE DEF a, v
  <2>4. [a EXCEPT !.scid = Placeholder] = g.about
    <3>1. [a EXCEPT !.scid = Placeholder]
            = [method |-> a.method, scid |-> Placeholder, host |-> a.host, ascii |-> a.ascii]
      BY <2>3, Renamed, Zenon
    <3> QED BY <1>2, <2>3, <3>1, Zenon
  <2>5. Inception(v) = [v EXCEPT !.scid = Placeholder, !.about = g.about]
    BY <1>5, <2>2, <2>4, Zenon
  <2>6. v = [method |-> v.method, scid |-> v.scid, about |-> v.about, moved |-> v.moved,
            parameters |-> v.parameters, keys |-> v.keys, next |-> v.next, time |-> v.time,
            witness |-> v.witness, deactivated |-> v.deactivated, state |-> v.state]
    BY <1>4, <1>5, Zenon
  <2>7. Inception(v) = [method |-> v.method, scid |-> Placeholder, about |-> g.about, moved |-> v.moved,
                        parameters |-> v.parameters, keys |-> v.keys, next |-> v.next, time |-> v.time,
                        witness |-> v.witness, deactivated |-> v.deactivated, state |-> v.state]
    BY <2>5, <2>6, Reissued, Zenon
  <2> QED BY <1>5, <2>7, Zenon
<1> HIDE DEF v, a
<1>7. Inception(v) = g
  BY <1>1, <1>2, <1>6, Zenon
<1> QED BY <1>2, <1>5, <1>7, Zenon DEF v

\* No later version has a SCID.
LEMMA LaterHasNone ==
  ASSUME NEW b \in Versions
  PROVE  Later(b).scid = None
<1>1. /\ b = [method |-> b.method, scid |-> b.scid, about |-> b.about, moved |-> b.moved,
              parameters |-> b.parameters, keys |-> b.keys, next |-> b.next, time |-> b.time,
              witness |-> b.witness, deactivated |-> b.deactivated, state |-> b.state]
      /\ b.scid = None
  BY VersionAssumption
<1>2. PICK y : Later(b) = [b EXCEPT !.about = y]
  BY Zenon DEF Later
<1>3. "scid" \in DOMAIN b
  BY <1>1
<1> QED BY <1>1, <1>2, <1>3, Zenon

\* One version more, for the witnesses.
LEMMA WitnessedOneMore ==
  ASSUME NEW n \in Nat, NEW h, NEW g, DOMAIN h = 1..n, DOMAIN g = 1..(n + 1),
         \A k \in 1..n : g[k] = h[k]
  PROVE  Witnessed(g) = Declared(g[n + 1].witness, Witnessed(h))
<1> DEFINE f == [k \in DOMAIN h |-> h[k].witness]
           e == [k \in DOMAIN g |-> g[k].witness]
<1>1. DOMAIN f = 1..n /\ DOMAIN e = 1..(n + 1) /\ e[n + 1] = g[n + 1].witness
      /\ \A k \in 1..n : e[k] = f[k]
  OBVIOUS
<1>2. Witnessed(g) = LastOf(e, FALSE) /\ Witnessed(h) = LastOf(f, FALSE)
  BY Zenon DEF Witnessed
<1> HIDE DEF e, f
<1>3. \A default : LastOf(e, default) = Declared(e[n + 1], LastOf(f, default))
  BY <1>1, LastOfOneMore
<1> QED BY <1>1, <1>2, <1>3, Zenon

\* Whether witnesses are in force, as DidHistory says it.
LEMMA WitnessedIsInForce ==
  ASSUME NEW n \in Nat, NEW h, DOMAIN h = 1..n
  PROVE  WitnessInForce(h) = Witnessed(h)
<1> DEFINE f == [k \in DOMAIN h |-> h[k].witness]
           at == {k \in DOMAIN h : h[k].witness # None}
<1>1. \A S : History!Max(S) = Max(S)
  BY Zenon DEF History!Max, Max
<1>2. {k \in DOMAIN f : f[k] # None} = at
  OBVIOUS
<1>3. at # {} => f[Max(at)] = h[Max(at)].witness
  <2>1. at \subseteq 0..n /\ at \subseteq DOMAIN h
    OBVIOUS
  <2> HIDE DEF at
  <2>2. at # {} => Max(at) \in at
    BY <2>1, MaxOfBounded
  <2> QED BY <2>1, <2>2
<1>4. Witnessed(h) = LastOf(f, FALSE)
  BY Zenon DEF Witnessed
<1>5. LastOf(f, FALSE) = IF at = {} THEN FALSE ELSE f[Max(at)]
  <2> HIDE DEF f, at
  <2> QED BY <1>2, Zenon DEF LastOf
<1>6. Witnessed(h) = IF at = {} THEN FALSE ELSE h[Max(at)].witness
  <2> HIDE DEF f, at
  <2> QED BY <1>3, <1>4, <1>5, Zenon
<1> QED BY <1>1, <1>6, Zenon DEF WitnessInForce, History!InForce

\* The keys in force are a declaration, or none are.
LEMMA KeysAreDeclared ==
  ASSUME NEW n \in Nat, NEW h, DOMAIN h = 1..n
  PROVE  History!KeysInForce(h) = {} \/ History!KeysInForce(h) # None
<1> DEFINE f == [k \in 1..n |-> h[k].keys]
           at == {k \in DOMAIN f : f[k] # None}
<1>1. History!KeysInForce(h) = LastOf(f, {})
  BY InForceIsLast
<1>2. at \subseteq 0..n
  OBVIOUS
<1>3. at # {} => Max(at) \in at
  BY <1>2, MaxOfBounded
<1>4. at # {} => f[Max(at)] # None
  BY <1>3
<1> HIDE DEF f
<1> QED BY <1>1, <1>4 DEF LastOf

\* All the versions of a log are its versions.
LEMMA WholeLog ==
  ASSUME NEW lines, IsSeq(lines)
  PROVE  SubSeq(Contents(lines), 1, Len(lines)) = Contents(lines)
<1> DEFINE n == Len(lines)
           g == SubSeq(Contents(lines), 1, n)
           h == Contents(lines)
<1>1. n \in Nat /\ n \in 0..n
  BY IsSeqFacts
<1>2. /\ IsSeq(g) /\ Len(g) = n /\ \A k \in 1..n : g[k] = lines[k].version
      /\ IsSeq(h) /\ Len(h) = n /\ \A k \in 1..n : h[k] = lines[k].version
  BY <1>1, FirstVersions, ContentsFacts
<1> HIDE DEF g, h
<1>3. g = [k \in 1..n |-> g[k]] /\ h = [k \in 1..n |-> h[k]]
  BY <1>2, IsSeqFacts
<1>4. g = h
  BY <1>2, <1>3
<1> QED BY <1>4 DEF g, h

\* A line that is put keeps the rules if its writer does.
LEMMA PutKeepsRules ==
  ASSUME LogOK, IsSeq(log'), RulesAreKept, changed = 0, NEW v, NEW key, NEW who, Put(v, key, who),
         changed' = changed,
         who = "controller" =>
           /\ key \in History!InControl(Contents(log), v)
           /\ log # <<>> => v.time >= log[Len(log)].version.time
           /\ log = <<>> => v.scid # None /\ Inception(v) = v.scid /\ v.time \in Nat
  PROVE  RulesAreKept'
<1> DEFINE n == Len(log)
<1>1. n \in Nat /\ DOMAIN log = 1..n /\ IsSeq(log) /\ (log = <<>> <=> n = 0)
  BY IsSeqFacts DEF LogOK
<1>2. PICK line : /\ log' = Append(log, line) /\ line.version = v /\ line.key = key
                  /\ line.by = who /\ line.sealed = TRUE
  <2>1. PICK q : log' = Append(log, Line(n + 1, v, q, key, who))
    BY DEF Put
  <2> QED BY <2>1 DEF Line
<1>3. /\ Len(log') = n + 1 /\ log'[n + 1] = line /\ DOMAIN log' = 1..(n + 1)
      /\ \A k \in 1..n : log'[k] = log[k]
  BY <1>1, <1>2, AppendFacts, IsSeqFacts
<1>4. ASSUME NEW k \in 0..n PROVE SubSeq(Contents(log'), 1, k) = SubSeq(Contents(log), 1, k)
  <2>1. k \in Nat /\ k <= n /\ k <= n + 1 /\ \A i \in 1..k : i \in 1..n
    BY <1>1
  <2>2. \A i \in 1..k : log'[i].version = log[i].version
    BY <1>3, <2>1
  <2> QED BY <1>1, <1>3, <2>1, <2>2, SameVersions
<1>5. SubSeq(Contents(log), 1, n) = Contents(log)
  BY <1>1, WholeLog
<1>6. ASSUME NEW k \in 1..n
      PROVE  log'[k].sealed = TRUE /\ (log'[k].by = "controller" => LawfulAt(log', k))
  <2>1. log[k].sealed = TRUE /\ (log[k].by = "controller" => LawfulAt(log, k))
    BY <1>1, <1>6 DEF RulesAreKept
  <2>2. log'[k] = log[k] /\ k - 1 \in 0..n /\ (k > 1 => k - 1 \in 1..n)
    BY <1>1, <1>3
  <2>3. /\ SubSeq(Contents(log'), 1, k - 1) = SubSeq(Contents(log), 1, k - 1)
        /\ k > 1 => log'[k - 1] = log[k - 1]
    BY <1>3, <1>4, <2>2
  <2> QED BY <2>1, <2>2, <2>3 DEF LawfulAt
<1>7. who = "controller" => LawfulAt(log', n + 1)
  <2> SUFFICES ASSUME who = "controller" PROVE LawfulAt(log', n + 1)
    OBVIOUS
  <2>1. log'[n + 1].version = v /\ log'[n + 1].key = key /\ (n + 1) - 1 = n /\ n \in 0..n
    BY <1>1, <1>2, <1>3
  <2>2. key \in History!InControl(SubSeq(Contents(log'), 1, n), v)
    BY <1>4, <1>5, <2>1
  <2>3. n + 1 > 1 => v.time >= log'[n].version.time
    <3>1. n + 1 > 1 => n \in 1..n /\ log # <<>>
      BY <1>1
    <3> QED BY <1>3, <3>1
  <2>4. n + 1 = 1 => v.scid # None /\ Inception(v) = v.scid /\ v.time \in Nat
    BY <1>1
  <2> QED BY <2>1, <2>2, <2>3, <2>4 DEF LawfulAt
<1>8. \A k \in 1..(n + 1) : k \in 1..n \/ k = n + 1
  BY <1>1
<1> QED BY <1>2, <1>3, <1>6, <1>7, <1>8, Zenon DEF RulesAreKept

\* The controller keeps them.
LEMMA ControllerKeepsRules ==
  ASSUME LogOK, IsSeq(log'), RulesAreKept, ControllerWrites
  PROVE  RulesAreKept'
<1>1. PICK v \in {Incepted(g) : g \in Geneses} \cup {Later(b) : b \in Versions}, k \in Own :
        /\ (log = <<>>) = (v.scid # None)
        /\ Lawful(v, k) /\ Put(v, k, "controller")
  BY DEF ControllerWrites
<1>2. ASSUME log = <<>> PROVE v.scid # None /\ Inception(v) = v.scid /\ v.time \in Nat
  <2>1. v.scid # None
    BY <1>1, <1>2
  <2>2. PICK g \in Geneses : v = Incepted(g)
    BY <1>1, <2>1, LaterHasNone
  <2> QED BY <2>1, <2>2, InceptedHashes
<1>3. k \in History!InControl(Contents(log), v)
  BY <1>1 DEF Lawful
<1>4. log # <<>> => v.time >= log[Len(log)].version.time
  <2> SUFFICES ASSUME log # <<>> PROVE v.time >= log[Len(log)].version.time
    OBVIOUS
  <2>1. Len(log) \in Nat /\ Len(log) # 0 /\ IsSeq(log)
    BY IsSeqFacts DEF LogOK
  <2>2. Len(log) \in 1..Len(log)
    BY <2>1
  <2>3. /\ Len(Contents(log)) = Len(log) /\ IsSeq(Contents(log))
        /\ Contents(log)[Len(log)] = log[Len(log)].version
    BY <2>1, <2>2, ContentsFacts
  <2>4. Contents(log) # <<>>
    BY <2>1, <2>3, IsSeqFacts
  <2> QED BY <1>1, <2>3, <2>4 DEF Lawful
<1> QED BY <1>1, <1>2, <1>3, <1>4, PutKeepsRules DEF ControllerWrites

\* A line of a log in good order passes every check.
LEMMA GoodLineIsAccepted ==
  ASSUME IInv, JInv, InGoodOrder, replay.n < Len(log),
         NEW line, line = log[replay.n + 1]
  PROVE  /\ FirstError(LineChecks(line, replay)) = "ok"
         /\ FirstError(AfterChecks(line.version, Carried(line, replay))) = "ok"
<1> DEFINE n == replay.n
           v == line.version
           a == Authorized(v, replay)
           p == IF n = 0 THEN v.scid ELSE replay.predecessor
           genesis == (n = 0 => FirstError(GenesisChecks(v)) = "ok")
           proof == (a # None => ProofOK(line, a))
           h == Prefix(n)
<1>1. n \in Nat /\ Len(log) \in Nat /\ n \in 0..Len(log) /\ n + 1 \in 1..Len(log)
      /\ n + 1 \in 0..Len(log) /\ (n + 1) - 1 = n /\ DOMAIN log = 1..Len(log) /\ IsSeq(log)
      /\ (n # 0 => n \in 1..Len(log))
  BY IsSeqFacts DEF IInv, LogOK, ReplayOK
<1>2. /\ line.by = "controller" /\ v.method /\ v.parameters /\ v.state # "absent"
      /\ changed = 0
      /\ ~ WitnessInForce(SubSeq(Contents(log), 1, n + 1))
  BY <1>1, Zenon DEF InGoodOrder
<1>3. line.sealed = TRUE /\ LawfulAt(log, n + 1)
  BY <1>1, <1>2, Zenon DEF JInv, RulesAreKept
<1>4. /\ line.key \in History!InControl(h, v)
      /\ n # 0 => v.time >= log[n].version.time
      /\ n = 0 => v.scid # None /\ Inception(v) = v.scid /\ v.time \in Nat
  BY <1>1, <1>3 DEF LawfulAt, Prefix
<1>5. a # None /\ line.key \in a
  <2>1. /\ h = <<>> <=> n = 0
        /\ DOMAIN h = 1..n
    BY <1>1, PrefixFacts
  <2>2. replay.keys = History!KeysInForce(h) /\ replay.next = History!Commitment(h)
    BY DEF IInv, ReplayOK
  <2>3. History!KeysInForce(h) = {} \/ History!KeysInForce(h) # None
    BY <1>1, <2>1, KeysAreDeclared
  <2> HIDE DEF h, v
  <2>4. CASE n = 0 \/ replay.next # {}
    <3> DEFINE own == IF v.keys = None THEN {} ELSE v.keys
    <3>1. line.key \in own /\ (n > 0 => own \subseteq replay.next)
      <4>1. History!InControl(h, v)
              = IF h = <<>> THEN own
                ELSE IF History!Commitment(h) = {} THEN History!KeysInForce(h)
                ELSE IF own \subseteq History!Commitment(h) THEN own ELSE {}
        BY Zenon DEF History!InControl
      <4> HIDE DEF own
      <4>2. CASE n = 0
        BY <1>4, <2>1, <4>1, <4>2
      <4>3. CASE n # 0
        <5>1. h # <<>> /\ History!Commitment(h) # {}
          BY <2>1, <2>2, <2>4, <4>3
        <5>2. line.key \in IF own \subseteq History!Commitment(h) THEN own ELSE {}
          BY <1>4, <4>1, <5>1, Zenon
        <5> QED BY <2>2, <5>2
      <4> QED BY <4>2, <4>3
    <3>2. v.keys \notin {None, {}} /\ line.key \in v.keys /\ (n > 0 => v.keys \subseteq replay.next)
      BY <3>1
    <3> HIDE DEF own
    <3> QED BY <2>4, <3>2 DEF Authorized
  <2>5. CASE ~ (n = 0 \/ replay.next # {})
    <3>1. line.key \in replay.keys
      BY <1>1, <1>4, <2>1, <2>2, <2>5 DEF History!InControl
    <3> QED BY <2>2, <2>3, <2>5, <3>1 DEF Authorized
  <2> QED BY <2>4, <2>5
<1>6. genesis
  <2> SUFFICES ASSUME n = 0 PROVE FirstError(GenesisChecks(v)) = "ok"
    OBVIOUS
  <2> DEFINE checks == GenesisChecks(v)
  <2>1. /\ DOMAIN checks = 1..3 /\ checks[1].ok = v.method /\ checks[2].ok = (v.scid # None)
        /\ checks[3].ok = (Inception(v) = v.scid)
    <3> HIDE DEF v
    <3> QED BY DEF GenesisChecks, Check
  <2>2. checks[1].ok /\ checks[2].ok /\ checks[3].ok
    BY <1>2, <1>4, <2>1, Zenon
  <2>3. \A i \in 1..3 : i = 1 \/ i = 2 \/ i = 3
    OBVIOUS
  <2>4. \A i \in 1..3 : checks[i].ok
    BY <2>2, <2>3, Zenon
  <2> HIDE DEF checks
  <2> QED BY <2>1, <2>4, AllChecksOK DEF checks
<1>7. line.id.number = n + 1 /\ line.id.hash = <<v, p>>
  <2>1. Chained(Len(log), Contents(log), Ids(log))
    BY <1>2 DEF IInv, LogOK
  <2>2. /\ Ids(log)[n + 1] = line.id /\ Contents(log)[n + 1] = v /\ (n = 0 => Contents(log)[1] = v)
        /\ n # 0 => Ids(log)[n] = log[n].id
    <3>1. \A k \in 1..Len(log) : Ids(log)[k] = log[k].id /\ Contents(log)[k] = log[k].version
      BY <1>1, ContentsFacts DEF Ids
    <3>2. n = 0 => 1 = n + 1
      OBVIOUS
    <3> QED BY <1>1, <3>1, <3>2
  <2>3. Before(n + 1, Contents(log), Ids(log)) = p
    <3>1. n # 0 => replay.predecessor = log[n].id
      BY <1>1 DEF IInv, ReplayOK
    <3>2. n + 1 = 1 <=> n = 0
      BY <1>1
    <3> QED BY <1>1, <2>2, <3>1, <3>2 DEF Before
  <2>4. line.id = VersionId(n + 1, v, p)
    BY <1>1, <2>1, <2>2, <2>3 DEF Chained
  <2> QED BY <2>4 DEF VersionId
<1>8. InOrder(replay.time, v.time)
  <2>1. CASE n = 0
    <3>1. replay.time = 0
      BY <2>1 DEF IInv, ReplayOK, Fresh
    <3>2. v.time \in Nat
      BY <1>4, <2>1
    <3> QED BY <3>1, <3>2 DEF InOrder
  <2>2. CASE n # 0
    <3>1. n > 0
      BY <1>1, <2>2
    <3>2. replay.time = log[n].version.time
      BY <3>1 DEF IInv, ReplayOK
    <3> QED BY <1>4, <2>2, <3>2 DEF InOrder
  <2> QED BY <2>1, <2>2
<1>9. proof
  BY <1>3, <1>5, Zenon DEF ProofOK
<1>10. FirstError(LineChecks(line, replay)) = "ok"
  <2> DEFINE checks == LineChecks(line, replay)
             order == InOrder(replay.time, v.time)
  <2>1. checks = << Check(v.parameters, "parameters"), Check(a # None, "keys"),
                    Check(genesis, "genesis"), Check(line.id.number = n + 1, "number"),
                    Check(line.id.hash = <<v, p>>, "hash"),
                    Check(order, "time"), Check(proof, "proof") >>
    BY Zenon DEF LineChecks
  <2>2. /\ DOMAIN checks = 1..7 /\ checks[1].ok = v.parameters /\ checks[2].ok = (a # None)
        /\ checks[3].ok = genesis /\ checks[4].ok = (line.id.number = n + 1)
        /\ checks[5].ok = (line.id.hash = <<v, p>>) /\ checks[6].ok = order /\ checks[7].ok = proof
    <3> HIDE DEF a, p, genesis, proof, order, checks, v
    <3> QED BY <2>1 DEF Check
  <2>3. /\ checks[1].ok /\ checks[2].ok /\ checks[3].ok /\ checks[4].ok /\ checks[5].ok
        /\ checks[6].ok /\ checks[7].ok
    <3> HIDE DEF a, p, genesis, proof, checks, v
    <3> QED BY <1>2, <1>5, <1>6, <1>7, <1>8, <1>9, <2>2, Zenon
  <2>4. \A i \in 1..7 : i = 1 \/ i = 2 \/ i = 3 \/ i = 4 \/ i = 5 \/ i = 6 \/ i = 7
    OBVIOUS
  <2> HIDE DEF checks
  <2>5. \A i \in 1..7 : checks[i].ok
    BY <2>3, <2>4, Zenon
  <2> QED BY <2>2, <2>5, AllChecksOK DEF checks
<1>11. FirstError(AfterChecks(v, Carried(line, replay))) = "ok"
  <2> DEFINE r == Carried(line, replay)
             checks == AfterChecks(v, r)
             g == Prefix(n + 1)
  <2>1. /\ DOMAIN h = 1..n /\ \A k \in 1..n : h[k] = log[k].version
        /\ DOMAIN g = 1..(n + 1) /\ \A k \in 1..(n + 1) : g[k] = log[k].version
    BY <1>1, PrefixFacts
  <2>2. g[n + 1] = v /\ \A k \in 1..n : g[k] = h[k]
    BY <1>1, <2>1
  <2>3. Witnessed(g) = Declared(v.witness, Witnessed(h))
    <3> HIDE DEF g, h, v
    <3>1. Witnessed(g) = Declared(g[n + 1].witness, Witnessed(h))
      BY <1>1, <2>1, <2>2, WitnessedOneMore
    <3> QED BY <2>2, <3>1, Zenon
  <2>4. r.witness = Declared(v.witness, replay.witness)
    BY DEF Carried
  <2>5. replay.witness = Witnessed(h)
    BY Zenon DEF JInv, ReplayKnows
  <2>6. WitnessInForce(g) = Witnessed(g)
    <3> HIDE DEF g
    <3> QED BY <1>1, <2>1, WitnessedIsInForce
  <2>7. ~ r.witness
    <3>1. ~ Witnessed(g)
      BY <1>2, <2>6, Zenon DEF Prefix
    <3> QED BY <2>3, <2>4, <2>5, <3>1, Zenon
  <2>8. DOMAIN checks = 1..2 /\ checks[1].ok = ~ r.witness /\ checks[2].ok = (v.state # "absent")
    <3> HIDE DEF r, v
    <3> QED BY DEF AfterChecks, Check
  <2>9. checks[1].ok /\ checks[2].ok
    <3> HIDE DEF r, checks
    <3> QED BY <1>2, <2>7, <2>8, Zenon
  <2>10. \A i \in 1..2 : checks[i].ok
    <3>1. \A i \in 1..2 : i = 1 \/ i = 2
      OBVIOUS
    <3> QED BY <2>9, <3>1, Zenon
  <2> HIDE DEF checks
  <2> QED BY <2>8, <2>10, AllChecksOK DEF checks
<1> QED BY <1>10, <1>11

\* And so does the end of it.
LEMMA GoodLogIsResolved ==
  ASSUME IInv, InGoodOrder, replay.n = Len(log)
  PROVE  Parses(log) /\ FirstError(LastChecks(replay)) = "ok"
<1> DEFINE v == log[replay.n].version
           checks == LastChecks(replay)
<1>0. Parses(log)
  BY Zenon DEF InGoodOrder, Parses
<1>1. /\ v.about = asked /\ v.state = "plain"
      /\ ~ History!Deactivated(Contents(log))
  BY Zenon DEF InGoodOrder
<1>2. ~ replay.deactivated
  <2>1. replay.deactivated = History!Deactivated(Prefix(Len(log)))
    BY Zenon DEF IInv, ReplayOK
  <2>2. Prefix(Len(log)) = Contents(log)
    BY WholeLog DEF IInv, LogOK, Prefix
  <2> QED BY <1>1, <2>1, <2>2, Zenon
<1>3. IsAskedFor(State(v))
  <2> HIDE DEF v
  <2>1. State(v) = [id |-> asked, body |-> v, inner |-> None]
    BY <1>1 DEF State
  <2> QED BY <2>1 DEF IsAskedFor, Parsed, Document
<1>4. checks = << Check(v.about = asked, "id"), Check(v.state # "wrapped", "wrapper"),
                  Check(~ replay.deactivated, "deactivated"), Check(IsAskedFor(State(v)), "id") >>
  BY Zenon DEF LastChecks
<1>5. /\ DOMAIN checks = 1..4 /\ checks[1].ok = (v.about = asked)
      /\ checks[2].ok = (v.state # "wrapped") /\ checks[3].ok = ~ replay.deactivated
      /\ checks[4].ok = IsAskedFor(State(v))
  <2> HIDE DEF checks, v
  <2> QED BY <1>4 DEF Check
<1>6. v.state # "wrapped"
  BY <1>1
<1>7. checks[1].ok /\ checks[2].ok /\ checks[3].ok /\ checks[4].ok
  <2> HIDE DEF checks, v
  <2> QED BY <1>1, <1>2, <1>3, <1>5, <1>6, Zenon
<1>8. \A i \in 1..4 : checks[i].ok
  <2>1. \A i \in 1..4 : i = 1 \/ i = 2 \/ i = 3 \/ i = 4
    OBVIOUS
  <2> QED BY <1>7, <2>1, Zenon
<1> HIDE DEF checks
<1> QED BY <1>0, <1>5, <1>8, AllChecksOK DEF checks

\* Before the first line nothing is known of the log.
LEMMA FreshKnows ==
  ASSUME IsSeq(log'), replay' = Fresh
  PROVE  ReplayKnows'
<1>1. Prefix(0)' = <<>>
  BY NoPrefix DEF Prefix
<1>2. replay'.n = 0 /\ ~ (0 > 0)
  BY DEF Fresh
<1>3. replay'.witness = FALSE
  BY DEF Fresh
<1>4. Witnessed(<<>>) = FALSE
  <2>1. {k \in DOMAIN [j \in DOMAIN <<>> |-> <<>>[j].witness] :
           [j \in DOMAIN <<>> |-> <<>>[j].witness][k] # None} = {}
    OBVIOUS
  <2> QED BY <2>1, Zenon DEF Witnessed, LastOf
<1> QED BY <1>1, <1>2, <1>3, <1>4, Zenon DEF ReplayKnows, Prefix

\* Initially.
LEMMA InitJInv == Init => JInv
<1> SUFFICES ASSUME Init PROVE JInv
  OBVIOUS
<1>1. IsSeq(log) /\ DOMAIN log = {}
  BY DEF Init, IsSeq
<1>2. RulesAreKept
  BY <1>1 DEF RulesAreKept
<1>3. ReplayKnows
  <2>1. Prefix(0) = <<>>
    BY <1>1, NoPrefix DEF Prefix
  <2>2. replay.n = 0 /\ ~ (0 > 0)
    BY DEF Init, Fresh
  <2>3. replay.witness = FALSE
    BY DEF Init, Fresh
  <2>4. Witnessed(<<>>) = FALSE
    <3>1. {k \in DOMAIN [j \in DOMAIN <<>> |-> <<>>[j].witness] :
             [j \in DOMAIN <<>> |-> <<>>[j].witness][k] # None} = {}
      OBVIOUS
    <3> QED BY <3>1, Zenon DEF Witnessed, LastOf
  <2> QED BY <2>1, <2>2, <2>3, <2>4, Zenon DEF ReplayKnows, Prefix
<1>4. FetchIsOver
  BY DEF Init, FetchIsOver, Fresh
<1> QED BY <1>2, <1>3, <1>4 DEF JInv

\* Every step keeps it.
LEMMA NextJInv == IInv /\ IInv' /\ JInv /\ [Next]_vars => JInv'
<1> SUFFICES ASSUME IInv, IInv', JInv, [Next]_vars PROVE JInv'
  OBVIOUS
<1>0. RulesAreKept /\ ReplayKnows /\ FetchIsOver /\ LogOK /\ ReplayOK /\ IsSeq(log) /\ IsSeq(log')
  BY DEF JInv, IInv, LogOK
<1>1. ASSUME UNCHANGED world PROVE RulesAreKept'
  BY <1>0, <1>1, Zenon DEF RulesAreKept, world
<1>2. ASSUME UNCHANGED world, UNCHANGED replay PROVE ReplayKnows'
  BY <1>0, <1>2, Zenon DEF ReplayKnows, Prefix, world
<1>3. ASSUME UNCHANGED world, UNCHANGED replay, FetchIsOver' PROVE JInv'
  BY <1>1, <1>2, <1>3 DEF JInv
<1>4. ASSUME UNCHANGED world PROVE InGoodOrder' <=> InGoodOrder
  BY <1>4, Zenon DEF InGoodOrder, world
<1>5. CASE Ask
  <2>1. CASE UNCHANGED outcome
    BY <1>0, <1>3, <1>5, <2>1 DEF Ask, FetchIsOver, Stop, world
  <2>2. CASE Stop("refused") /\ UNCHANGED <<fetch, contacted>>
    BY <1>0, <1>3, <1>5, <2>2 DEF Ask, FetchIsOver, Stop, world
  <2> QED BY <1>5, <2>1, <2>2 DEF Ask
<1>6. CASE FetchStep
  <2>1. fetch.pc \in {"lookup", "connect", "response", "body"}
    BY <1>6 DEF FetchStep, Lookup, Connect, Response, ReadUnit, EndFetch
  <2>2. outcome = "open"
    BY <1>0, <2>1 DEF FetchIsOver, FetchEnds
  <2> QED BY <1>0, <1>3, <1>6, <2>1, <2>2 DEF FetchStep, FetchIsOver, world
<1>7. CASE FetchRaises
  <2>1. fetch' = fetch /\ fetch.pc \in FetchEnds /\ fetch.pc # "done"
    BY <1>7 DEF FetchRaises, FetchEnds
  <2> QED BY <1>0, <1>3, <1>7, <2>1 DEF FetchRaises, FetchIsOver, Stop, world
<1>8. ASSUME Served, RulesAreKept', UNCHANGED <<fetch, asked, replay, outcome>> PROVE JInv'
  <2>1. replay' = Fresh
    BY <1>0, <1>8 DEF Served, ReplayOK
  <2>2. FetchIsOver'
    BY <1>8 DEF Served, FetchIsOver
  <2> QED BY <1>0, <1>8, <2>1, <2>2, FreshKnows DEF JInv
<1>9. CASE ControllerWrites
  <2>1. RulesAreKept'
    BY <1>0, <1>9, ControllerKeepsRules
  <2> QED BY <1>8, <1>9, <2>1 DEF ControllerWrites
<1>10. CASE KeyIsStolen
  <2>1. RulesAreKept'
    BY <1>0, <1>10, Zenon DEF KeyIsStolen, RulesAreKept
  <2> QED BY <1>8, <1>10, <2>1 DEF KeyIsStolen
<1>11. CASE OthersWrite
  <2>1. PICK v, k : Put(v, k, "others")
    BY <1>11 DEF OthersWrite
  <2>2. "others" # "controller"
    OBVIOUS
  <2>3. RulesAreKept'
    BY <1>0, <1>11, <2>1, <2>2, PutKeepsRules DEF OthersWrite
  <2> QED BY <1>8, <1>11, <2>3 DEF OthersWrite
<1>12. CASE HostAlters
  <2>1. changed' # 0
    BY <1>0, <1>12 DEF HostAlters, LogOK
  <2>2. RulesAreKept'
    BY <2>1 DEF RulesAreKept
  <2> QED BY <1>8, <1>12, <2>2 DEF HostAlters
<1>13. CASE ReplayLine
  <2>1. UNCHANGED world /\ UNCHANGED fetch /\ replay.n < Len(log) /\ outcome = "open"
    BY <1>13 DEF ReplayLine, Served
  <2>2. CASE Stop("refused") /\ ~ InGoodOrder
    <3>1. fetch.pc \in FetchEnds \cup {"idle"}
      BY <1>0, <1>13 DEF ReplayLine, Served, FetchEnds, FetchIsOver
    <3>2. FetchIsOver'
      BY <1>0, <1>4, <2>1, <2>2, <3>1 DEF FetchIsOver, Stop, world
    <3> QED BY <1>3, <2>1, <2>2, <3>2 DEF Stop
  <2>3. CASE Stop("refused") /\ InGoodOrder
    <3>1. /\ FirstError(LineChecks(log[replay.n + 1], replay)) = "ok"
          /\ FirstError(AfterChecks(log[replay.n + 1].version,
                                    Carried(log[replay.n + 1], replay))) = "ok"
      BY <2>1, <2>3, GoodLineIsAccepted
    <3>2. Parses(log)
      BY <2>3, Zenon DEF InGoodOrder, Parses
    <3>3. outcome' = outcome
      BY <1>13, <3>1, <3>2 DEF ReplayLine
    <3> QED BY <2>1, <2>3, <3>3 DEF Stop
  <2>4. CASE replay' = Carried(log[replay.n + 1], replay) /\ UNCHANGED <<outcome, document>>
    <3> DEFINE n == replay.n
               v == log[n + 1].version
               g == Prefix(n + 1)
               h == Prefix(n)
    <3>1. /\ n \in Nat /\ n \in 0..Len(log) /\ n + 1 \in 0..Len(log) /\ n + 1 \in 1..(n + 1)
      BY <1>0, <2>1, IsSeqFacts DEF ReplayOK
    <3>2. /\ DOMAIN h = 1..n /\ \A k \in 1..n : h[k] = log[k].version
          /\ DOMAIN g = 1..(n + 1) /\ \A k \in 1..(n + 1) : g[k] = log[k].version
      BY <1>0, <3>1, PrefixFacts
    <3>3. g[n + 1] = v /\ \A k \in 1..n : g[k] = h[k]
      BY <3>1, <3>2
    <3>4. Witnessed(g) = Declared(v.witness, Witnessed(h))
      <4> HIDE DEF g, h, v
      <4>1. Witnessed(g) = Declared(g[n + 1].witness, Witnessed(h))
        BY <3>1, <3>2, <3>3, WitnessedOneMore
      <4> QED BY <3>3, <4>1, Zenon
    <3>5. replay'.n = n + 1 /\ replay'.time = v.time
      BY <2>4 DEF Carried
    <3>6. replay'.witness = Declared(v.witness, replay.witness)
      BY <2>4 DEF Carried
    <3>7. replay.witness = Witnessed(h)
      BY <1>0, Zenon DEF ReplayKnows
    <3>8. replay'.witness = Witnessed(g)
      BY <3>4, <3>6, <3>7, Zenon
    <3>9. log' = log
      BY <2>1 DEF world
    <3>10. ReplayKnows'
      BY <3>5, <3>8, <3>9, Zenon DEF ReplayKnows, Prefix
    <3>11. FetchIsOver'
      BY <1>0, <1>13, <2>1, <2>4 DEF FetchIsOver, ReplayLine, Served, world
    <3> QED BY <1>1, <2>1, <3>10, <3>11 DEF JInv
  <2> QED BY <1>13, <2>2, <2>3, <2>4 DEF ReplayLine
<1>14. CASE ReplayEnds
  <2>1. UNCHANGED world /\ UNCHANGED fetch /\ replay.n = Len(log) /\ outcome = "open"
        /\ UNCHANGED replay
    BY <1>14 DEF ReplayEnds, Served, Stop
  <2>2. fetch.pc \in FetchEnds \cup {"idle"}
    BY <1>0, <1>14 DEF ReplayEnds, Served, FetchEnds, FetchIsOver
  <2>3. CASE ~ InGoodOrder
    BY <1>0, <1>3, <1>4, <2>1, <2>2, <2>3 DEF FetchIsOver, world
  <2>4. CASE InGoodOrder
    <3>1. outcome' = "resolved"
      BY <1>14, <2>1, <2>4, GoodLogIsResolved DEF ReplayEnds
    <3> QED BY <1>0, <1>3, <2>1, <2>2, <3>1 DEF FetchIsOver, world
  <2> QED BY <2>3, <2>4
<1>15. CASE WebDocument
  <2>1. UNCHANGED world /\ UNCHANGED fetch /\ fetch.pc = "done" /\ asked.method = "web"
        /\ UNCHANGED replay
    BY <1>15 DEF WebDocument, Stop
  <2>2. ~ InGoodOrder
    BY <1>0, <2>1 DEF InGoodOrder, FetchIsOver
  <2> QED BY <1>0, <1>3, <1>4, <2>1, <2>2 DEF FetchIsOver, FetchEnds, world
<1>16. CASE UNCHANGED vars
  <2>1. UNCHANGED world /\ UNCHANGED <<fetch, replay, outcome>>
    BY <1>16 DEF vars, world
  <2> QED BY <1>0, <1>3, <1>4, <2>1 DEF FetchIsOver, world
<1> QED BY <1>5, <1>6, <1>7, <1>9, <1>10, <1>11, <1>12, <1>13, <1>14, <1>15, <1>16 DEF Next

(***************************************************************************)
(* For every set of keys and versions and every MaxLogEntries: a log of so *)
(* many entries at most that its controller wrote by the rules is not      *)
(* refused; and what is resolved, of a log of any length, is the document  *)
(* its last line holds, of the identifier that was asked for.              *)
(***************************************************************************)
THEOREM LawfulLogsAreResolved == Spec => []LawfulLogsResolve
<1>1. IInv /\ JInv => LawfulLogsResolve
  BY Zenon DEF IInv, OutcomeOK, JInv, FetchIsOver, LawfulLogsResolve
<1> QED BY <1>1, SpecIInv, InitJInv, NextJInv, PTL DEF Spec
=============================================================================
