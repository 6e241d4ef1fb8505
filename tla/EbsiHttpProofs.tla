-------------------------- MODULE EbsiHttpProofs ----------------------------
(***************************************************************************)
(* TtlCache, for any threads, keys, TTL, size and resolve time.            *)
(*                                                                         *)
(* CacheIInv, which is inductive, says what the safety properties leave    *)
(* out: an entry expires at most Ttl from now, a value on its way from the *)
(* origin to the cache was current when its miss was found, and a cached   *)
(* value was current at most Ttl + MaxResolve before its entry expires.    *)
(*                                                                         *)
(* EbsiHttpClient, which keeps its answers in such a cache.                *)
(*                                                                         *)
(* For any number of threads, attempts and addresses, any deadline, pace   *)
(* and expiry: nothing is sent or served past the expiry of the node list, *)
(* no attempt or sleep outlasts deadline_s, and the attempts of a call go  *)
(* round all the addresses of a host.                                      *)
(***************************************************************************)
EXTENDS TtlCache, EbsiHttpClient, SequenceTheorems, ChecksProofs, FiniteSetTheorems

EntryOK(e) ==
  /\ e.expires <= clock + Ttl
  /\ Published(e.key, e.ver)
  /\ e.ver < Current(e.key) => e.expires <= Superseded(e.key, e.ver) + Ttl + MaxResolve

CallOK(t) ==
  /\ place[t] # "idle" => lookup[t] \in Call /\ lookup[t].at <= clock
  /\ place[t] \in {"fetch", "set"} => clock <= lookup[t].at + MaxResolve
  /\ place[t] = "set" => /\ Published(lookup[t].key, lookup[t].ver)
                         /\ lookup[t].ver < Current(lookup[t].key)
                              => lookup[t].at <= Superseded(lookup[t].key, lookup[t].ver)

ServedOK ==
  served # Nil =>
    /\ served.at <= clock
    /\ Published(served.key, served.ver)
    /\ served.ver < Current(served.key)
         => served.at <= Superseded(served.key, served.ver) + Ttl + MaxResolve

PairOK(d) ==
  \A i, j \in 1..Len(d) : i < j => d[i].key # d[j].key /\ d[i].expires <= d[j].expires

DataOK ==
  /\ Bounded
  /\ PairOK(data)
  /\ \A i \in 1..Len(data) : EntryOK(data[i])

CacheIInv ==
  /\ CacheTypeOK
  /\ \A k \in Names : Current(k) >= 1
  /\ DataOK
  /\ \A t \in Threads : CallOK(t)
  /\ ServedOK

(***************************************************************************)
(* Every locked section leaves what is left of the OrderedDict in order:   *)
(* d is s with some entries taken out.                                     *)
(***************************************************************************)
Thinned(d, s) ==
  /\ d \in Seq(Entry)
  /\ \A j \in 1..Len(d) : \E i \in 1..Len(s) : d[j] = s[i]
  /\ \A j, m \in 1..Len(d) : j < m =>
       \E i, n \in 1..Len(s) : i < n /\ d[j] = s[i] /\ d[m] = s[n]

\* Removing position i of a sequence shifts the later elements down by one.
LEMMA RemoveAtElements ==
  ASSUME NEW S, NEW s \in Seq(S), NEW i \in 1..Len(s)
  PROVE  /\ RemoveAt(s, i) \in Seq(S)
         /\ Len(RemoveAt(s, i)) = Len(s) - 1
         /\ \A j \in 1..(Len(s) - 1) :
              RemoveAt(s, i)[j] = IF j < i THEN s[j] ELSE s[j + 1]
<1> DEFINE a == SubSeq(s, 1, i-1)
           b == SubSeq(s, i+1, Len(s))
<1>1. /\ a \in Seq(S)
      /\ Len(a) = i - 1
      /\ \A j \in 1..(i-1) : a[j] = s[j]
  <2>1. \A j \in 1..(i-1) : s[j] \in S
    OBVIOUS
  <2> QED BY <2>1, SubSeqProperties
<1>2. /\ b \in Seq(S)
      /\ Len(b) = Len(s) - i
      /\ \A j \in 1..(Len(s) - i) : b[j] = s[i + j]
  <2>1. \A j \in (i+1)..Len(s) : s[j] \in S
    OBVIOUS
  <2> QED BY <2>1, SubSeqProperties
<1> HIDE DEF a, b
<1>3. /\ a \o b \in Seq(S)
      /\ Len(a \o b) = Len(a) + Len(b)
      /\ \A j \in 1..(Len(a) + Len(b)) :
           (a \o b)[j] = IF j <= Len(a) THEN a[j] ELSE b[j - Len(a)]
  BY <1>1, <1>2, ConcatProperties
<1>4. RemoveAt(s, i) = a \o b
  BY DEF RemoveAt, a, b
<1>5. ASSUME NEW j \in 1..(Len(s) - 1)
      PROVE  (a \o b)[j] = IF j < i THEN s[j] ELSE s[j + 1]
  <2>1. CASE j < i
    BY <2>1, <1>1, <1>2, <1>3
  <2>2. CASE ~ (j < i)
    <3>1. (a \o b)[j] = b[j - (i - 1)]
      BY <2>2, <1>1, <1>2, <1>3
    <3>2. j - (i - 1) \in 1..(Len(s) - i) /\ i + (j - (i - 1)) = j + 1
      BY <2>2
    <3> QED BY <2>2, <3>1, <3>2, <1>2
  <2> QED BY <2>1, <2>2
<1>6. Len(a \o b) = Len(s) - 1
  BY <1>1, <1>2, <1>3
<1> QED BY <1>3, <1>4, <1>5, <1>6

\* Taking one entry out thins the cache, and takes out that entry's key.
LEMMA RemoveAtThins ==
  ASSUME data \in Seq(Entry), NEW p \in 1..Len(data)
  PROVE  /\ Thinned(RemoveAt(data, p), data)
         /\ Len(RemoveAt(data, p)) = Len(data) - 1
         /\ PairOK(data) =>
              \A j \in 1..Len(RemoveAt(data, p)) : RemoveAt(data, p)[j].key # data[p].key
<1> DEFINE d == RemoveAt(data, p)
<1>1. /\ d \in Seq(Entry)
      /\ Len(d) = Len(data) - 1
      /\ \A j \in 1..Len(d) : d[j] = IF j < p THEN data[j] ELSE data[j + 1]
  BY RemoveAtElements
<1> HIDE DEF d
<1>2. \A j \in 1..Len(d) : \E i \in 1..Len(data) : d[j] = data[i]
  BY <1>1
<1>3. ASSUME NEW j \in 1..Len(d), NEW m \in 1..Len(d), j < m
      PROVE  \E i, n \in 1..Len(data) : i < n /\ d[j] = data[i] /\ d[m] = data[n]
  <2> DEFINE i == IF j < p THEN j ELSE j + 1
             n == IF m < p THEN m ELSE m + 1
  <2>1. i \in 1..Len(data) /\ n \in 1..Len(data) /\ i < n
    BY <1>1, <1>3
  <2>2. d[j] = data[i] /\ d[m] = data[n]
    BY <1>1
  <2> QED BY <2>1, <2>2
<1>4. ASSUME PairOK(data), NEW j \in 1..Len(d)
      PROVE  d[j].key # data[p].key
  BY <1>1, <1>4 DEF PairOK
<1> QED BY <1>1, <1>2, <1>3, <1>4 DEF Thinned, d

\* So does dropping the oldest entry.
LEMMA TailThins ==
  ASSUME data \in Seq(Entry), data # <<>>
  PROVE  /\ Thinned(Tail(data), data)
         /\ Len(Tail(data)) = Len(data) - 1
         /\ \A j \in 1..Len(Tail(data)) : Tail(data)[j] = data[j + 1]
<1>1. /\ Tail(data) \in Seq(Entry)
      /\ Len(Tail(data)) = Len(data) - 1
      /\ \A j \in 1..Len(Tail(data)) : Tail(data)[j] = data[j + 1]
  BY HeadTailProperties
<1>2. ASSUME NEW j \in 1..Len(Tail(data)), NEW m \in 1..Len(Tail(data)), j < m
      PROVE  \E i, n \in 1..Len(data) :
               i < n /\ Tail(data)[j] = data[i] /\ Tail(data)[m] = data[n]
  <2>1. j + 1 \in 1..Len(data) /\ m + 1 \in 1..Len(data) /\ j + 1 < m + 1
    BY <1>1, <1>2
  <2> QED BY <1>1, <2>1
<1>3. \A j \in 1..Len(Tail(data)) : \E i \in 1..Len(data) : Tail(data)[j] = data[i]
  BY <1>1
<1> QED BY <1>1, <1>2, <1>3 DEF Thinned

\* Thinning keeps the order of any two entries that stay.
LEMMA ThinnedPairOK ==
  ASSUME NEW s, NEW d, Thinned(d, s), PairOK(s)
  PROVE  PairOK(d)
BY DEF Thinned, PairOK

\* A write with the latest expiry goes last, after entries of other keys.
LEMMA AppendPairOK ==
  ASSUME NEW d \in Seq(Entry), NEW e \in Entry, PairOK(d),
         \A j \in 1..Len(d) : d[j].key # e.key /\ d[j].expires <= e.expires
  PROVE  PairOK(Append(d, e))
<1>1. /\ Len(Append(d, e)) = Len(d) + 1
      /\ \A i \in 1..Len(d) : Append(d, e)[i] = d[i]
      /\ Append(d, e)[Len(d) + 1] = e
  BY AppendProperties
<1>2. SUFFICES ASSUME NEW i \in 1..(Len(d) + 1), NEW j \in 1..(Len(d) + 1), i < j
               PROVE  /\ Append(d, e)[i].key # Append(d, e)[j].key
                      /\ Append(d, e)[i].expires <= Append(d, e)[j].expires
  BY <1>1 DEF PairOK
<1>3. i \in 1..Len(d)
  BY <1>2
<1>4. CASE j = Len(d) + 1
  BY <1>1, <1>3, <1>4
<1>5. CASE j \in 1..Len(d)
  BY <1>1, <1>2, <1>3, <1>5 DEF PairOK
<1> QED BY <1>4, <1>5

\* set makes room: what it keeps is in order, is below the bound and has
\* no entry for the key about to be written.
LEMMA KeptProperties ==
  ASSUME CacheTypeOK, Bounded, PairOK(data), NEW k \in Names
  PROVE  /\ Thinned(Kept(k), data)
         /\ Len(Kept(k)) < MaxEntries
         /\ \A j \in 1..Len(Kept(k)) : Kept(k)[j].key # k
<1> USE CacheAssumption
<1>0. data \in Seq(Entry) /\ DOMAIN data = 1..Len(data) /\ Len(data) \in Nat
  BY DEF CacheTypeOK
<1>1. CASE Holds(k)
  <2>1. At(k) \in 1..Len(data) /\ data[At(k)].key = k
    BY <1>0, <1>1 DEF Holds, At
  <2>2. Kept(k) = RemoveAt(data, At(k))
    BY <1>1 DEF Kept
  <2>3. /\ Thinned(RemoveAt(data, At(k)), data)
        /\ Len(RemoveAt(data, At(k))) = Len(data) - 1
        /\ \A j \in 1..Len(RemoveAt(data, At(k))) : RemoveAt(data, At(k))[j].key # k
    BY <1>0, <2>1, RemoveAtThins
  <2> QED BY <1>0, <2>2, <2>3 DEF Bounded
<1>2. CASE ~ Holds(k) /\ Len(data) >= MaxEntries
  <2>1. Kept(k) = Tail(data) /\ data # <<>>
    BY <1>0, <1>2 DEF Kept
  <2>2. \A i \in 1..Len(data) : data[i].key # k
    BY <1>0, <1>2 DEF Holds
  <2> HIDE DEF Kept
  <2>3. /\ Thinned(Tail(data), data)
        /\ Len(Tail(data)) = Len(data) - 1
        /\ \A j \in 1..Len(Tail(data)) : Tail(data)[j] = data[j + 1]
    BY <1>0, <2>1, TailThins
  <2>4. \A j \in 1..Len(Tail(data)) : Tail(data)[j].key # k
    BY <1>0, <2>2, <2>3
  <2>5. Len(Tail(data)) < MaxEntries
    BY <1>0, <2>3 DEF Bounded
  <2> QED BY <2>1, <2>3, <2>4, <2>5
<1>3. CASE ~ Holds(k) /\ Len(data) < MaxEntries
  <2>0. ~ (Len(data) >= MaxEntries)
    BY <1>0, <1>3
  <2>1. Kept(k) = data
    BY <2>0, <1>3, Zenon DEF Kept
  <2>2. Thinned(data, data)
    BY <1>0 DEF Thinned
  <2>3. \A i \in 1..Len(data) : data[i].key # k
    BY <1>0, <1>3 DEF Holds
  <2> QED BY <1>3, <2>1, <2>2, <2>3
<1> QED BY <1>0, <1>1, <1>2, <1>3

\* A thinned cache keeps the data part of the invariant while time and the
\* origin stand still.
LEMMA ThinnedDataOK ==
  ASSUME DataOK, data \in Seq(Entry), Thinned(data', data), Len(data') <= Len(data),
         UNCHANGED <<clock, origin>>
  PROVE  DataOK'
<1>1. PairOK(data)'
  BY ThinnedPairOK DEF DataOK
<1>2. Bounded'
  BY CacheAssumption DEF DataOK, Bounded, Thinned
<1>3. ASSUME NEW j \in 1..Len(data')
      PROVE  EntryOK(data[j])'
  <2>1. PICK i \in 1..Len(data) : data'[j] = data[i]
    BY DEF Thinned
  <2>2. EntryOK(data[i])
    BY DEF DataOK
  <2> QED BY <2>1, <2>2 DEF EntryOK, Published, Superseded, Current
<1> QED BY <1>1, <1>2, <1>3 DEF DataOK

\* The cache is empty at first.
LEMMA CacheInitIInv == CacheInit => CacheIInv
BY CacheAssumption
   DEF CacheInit, CacheIInv, CacheTypeOK, DataOK, Bounded, PairOK, CallOK, ServedOK, Current

\* The locked set: what is replaced, what is evicted, what is added.
LEMMA StoreIInv ==
  ASSUME CacheIInv, NEW t \in Threads, Store(t)
  PROVE  CacheIInv'
<1> USE CacheAssumption
<1> DEFINE k == lookup[t].key
           e == [key |-> k, expires |-> clock + Ttl, ver |-> lookup[t].ver]
<1>1. /\ CacheTypeOK /\ DataOK /\ CallOK(t) /\ ServedOK
      /\ place[t] = "set" /\ UNCHANGED <<clock, origin, served>>
      /\ place' = [place EXCEPT ![t] = "idle"] /\ lookup' = [lookup EXCEPT ![t] = Nil]
      /\ data' = Append(Kept(k), e)
  BY DEF CacheIInv, Store, Goto, Done, SetEntry
<1>2. lookup[t] \in Call /\ k \in Names /\ e \in Entry
  BY <1>1 DEF CallOK, Call, Entry, CacheTypeOK
<1>3. EntryOK(e)
  BY <1>1, <1>2 DEF EntryOK, CallOK, Published, Superseded, Current, CacheTypeOK, Call
<1>4. /\ Thinned(Kept(k), data)
      /\ Len(Kept(k)) < MaxEntries
      /\ \A j \in 1..Len(Kept(k)) : Kept(k)[j].key # k
  BY <1>1, <1>2, KeptProperties DEF DataOK
<1>5. Kept(k) \in Seq(Entry) /\ PairOK(Kept(k))
  BY <1>1, <1>4, ThinnedPairOK DEF Thinned, DataOK
<1>6. \A j \in 1..Len(Kept(k)) : EntryOK(Kept(k)[j])
  BY <1>1, <1>4 DEF Thinned, DataOK
<1> HIDE DEF e
<1>7. /\ data' \in Seq(Entry)
      /\ Len(data') = Len(Kept(k)) + 1
      /\ \A i \in 1..Len(Kept(k)) : data'[i] = Kept(k)[i]
      /\ data'[Len(Kept(k)) + 1] = e
  BY <1>1, <1>2, <1>5, AppendProperties
<1>8. PairOK(data)'
  <2>1. \A j \in 1..Len(Kept(k)) : Kept(k)[j].key # e.key /\ Kept(k)[j].expires <= e.expires
    BY <1>4, <1>6 DEF EntryOK, e
  <2> QED BY <1>1, <1>2, <1>5, <2>1, AppendPairOK
<1>9. \A i \in 1..Len(data') : EntryOK(data'[i])
  <2>1. ASSUME NEW i \in 1..Len(data')
        PROVE  EntryOK(data'[i])
    <3>1. CASE i \in 1..Len(Kept(k))
      BY <1>6, <1>7, <3>1
    <3>2. CASE i = Len(Kept(k)) + 1
      BY <1>3, <1>7, <3>2
    <3> QED BY <1>5, <1>7, <3>1, <3>2
  <2> QED BY <2>1
<1>10. DataOK'
  <2>1. Bounded'
    BY <1>4, <1>5, <1>7 DEF Bounded
  <2> QED BY <1>1, <1>8, <1>9, <2>1 DEF DataOK, EntryOK, Published, Superseded, Current
<1>11. CacheTypeOK'
  BY <1>1, <1>7 DEF CacheTypeOK
<1>12. \A u \in Threads : CallOK(u)'
  BY <1>1 DEF CacheIInv, CallOK, Published, Superseded, Current, CacheTypeOK
<1>13. ServedOK'
  BY <1>1 DEF ServedOK, Published, Superseded, Current
<1>14. \A l \in Names : (Current(l) >= 1)'
  BY <1>1 DEF CacheIInv, Current
<1> QED BY <1>10, <1>11, <1>12, <1>13, <1>14 DEF CacheIInv

\* A lookup that finds nothing, or drops an expired entry.
LEMMA GetMissIInv ==
  ASSUME CacheIInv, NEW t \in Threads, GetMiss(t)
  PROVE  CacheIInv'
<1> USE CacheAssumption
<1> DEFINE k == lookup[t].key
<1>1. /\ CacheTypeOK /\ DataOK /\ CallOK(t) /\ ServedOK
      /\ place[t] = "get" /\ UNCHANGED <<clock, origin, served>>
      /\ place' = [place EXCEPT ![t] = "fetch"] /\ lookup' = [lookup EXCEPT ![t].at = clock]
      /\ data' = IF Holds(k) THEN RemoveAt(data, At(k)) ELSE data
  BY DEF CacheIInv, GetMiss, Goto
<1>2. lookup[t] \in Call /\ data \in Seq(Entry) /\ Len(data) \in Nat
  BY <1>1 DEF CallOK, CacheTypeOK
<1>3. Thinned(data', data) /\ Len(data') <= Len(data)
  <2>1. CASE Holds(k)
    <3>1. At(k) \in 1..Len(data)
      BY <1>2, <2>1 DEF Holds, At
    <3> QED BY <1>1, <1>2, <2>1, <3>1, RemoveAtThins
  <2>2. CASE ~ Holds(k)
    BY <1>1, <1>2, <2>2 DEF Thinned
  <2> QED BY <2>1, <2>2
<1>4. DataOK'
  BY <1>1, <1>2, <1>3, ThinnedDataOK
<1>5. CacheTypeOK'
  <2>1. lookup'[t] \in Call
    BY <1>1, <1>2 DEF CacheTypeOK, Call
  <2> QED BY <1>1, <1>3, <2>1 DEF CacheTypeOK, Thinned
<1>6. \A u \in Threads : CallOK(u)'
  <2>1. CallOK(t)'
    <3>1. place'[t] = "fetch" /\ lookup'[t] \in Call /\ lookup'[t].at = clock
      BY <1>1, <1>2 DEF CacheTypeOK, Call
    <3> QED BY <1>1, <3>1 DEF CallOK, CacheTypeOK
  <2>2. ASSUME NEW u \in Threads, u # t PROVE CallOK(u)'
    BY <1>1, <2>2 DEF CacheIInv, CallOK, Published, Superseded, Current, CacheTypeOK
  <2> QED BY <2>1, <2>2
<1>7. ServedOK'
  BY <1>1 DEF ServedOK, Published, Superseded, Current
<1>8. \A l \in Names : (Current(l) >= 1)'
  BY <1>1 DEF CacheIInv, Current
<1> QED BY <1>4, <1>5, <1>6, <1>7, <1>8 DEF CacheIInv

\* Every action preserves the invariant.
LEMMA CacheNextIInv == CacheIInv /\ [CacheNext]_cacheVars => CacheIInv'
<1> SUFFICES ASSUME CacheIInv, [CacheNext]_cacheVars
             PROVE  CacheIInv'
  OBVIOUS
<1> USE CacheAssumption
<1>0. CacheTypeOK /\ DataOK /\ ServedOK /\ \A u \in Threads : CallOK(u)
  BY DEF CacheIInv
<1>1. ASSUME NEW t \in Threads, NEW k \in Names, Begin(t, k)
      PROVE  CacheIInv'
  <2>1. /\ UNCHANGED <<clock, origin, data, served>>
        /\ place' = [place EXCEPT ![t] = "get"]
        /\ lookup' = [lookup EXCEPT ![t] = [key |-> k, at |-> clock, ver |-> 0]]
    BY <1>1 DEF Begin, Goto
  <2>2. CacheTypeOK'
    BY <1>0, <2>1 DEF CacheTypeOK, Call
  <2>3. \A u \in Threads : CallOK(u)'
    <3>1. CallOK(t)'
      BY <1>0, <2>1 DEF CallOK, CacheTypeOK, Call
    <3>2. ASSUME NEW u \in Threads, u # t PROVE CallOK(u)'
      BY <1>0, <2>1, <3>2 DEF CallOK, Published, Superseded, Current, CacheTypeOK
    <3> QED BY <3>1, <3>2
  <2> QED BY <1>0, <2>1, <2>2, <2>3 DEF CacheIInv, DataOK, Bounded, PairOK, EntryOK, ServedOK,
            Published, Superseded, Current
<1>2. ASSUME NEW t \in Threads, GetHit(t)
      PROVE  CacheIInv'
  <2> DEFINE k == lookup[t].key
             e == data[At(k)]
  <2>1. /\ UNCHANGED <<clock, origin, data>>
        /\ place[t] = "get" /\ place' = [place EXCEPT ![t] = "idle"]
        /\ lookup' = [lookup EXCEPT ![t] = Nil]
        /\ Holds(k) /\ ~ (e.expires < lookup[t].at)
        /\ served' = [key |-> k, at |-> lookup[t].at, ver |-> e.ver]
    BY <1>2 DEF GetHit, Goto, Done, EntryExpired
  <2>2. lookup[t] \in Call /\ lookup[t].at <= clock
    BY <1>0, <2>1 DEF CallOK
  <2>3. At(k) \in 1..Len(data) /\ e.key = k
    BY <1>0, <2>1 DEF CacheTypeOK, Holds, At
  <2>4. e \in Entry /\ EntryOK(e)
    BY <1>0, <2>3 DEF DataOK, CacheTypeOK
  <2> HIDE DEF e
  <2>5. served' \in Hit
    BY <2>1, <2>2, <2>4 DEF Hit, Call, Entry
  <2>6. CacheTypeOK'
    BY <1>0, <2>1, <2>5 DEF CacheTypeOK
  <2>7. \A u \in Threads : CallOK(u)'
    BY <1>0, <2>1 DEF CallOK, Published, Superseded, Current, CacheTypeOK
  <2>8. /\ served'.key = e.key /\ served'.ver = e.ver /\ served'.at = lookup[t].at
        /\ served'.at <= e.expires /\ served'.at \in Nat /\ e.expires \in Nat
    BY <2>1, <2>2, <2>3, <2>4 DEF Call, Entry
  <2>9. ServedOK'
    <3>1. served'.ver < Current(served'.key) =>
            Superseded(served'.key, served'.ver) \in Nat
      BY <1>0, <2>4, <2>8 DEF CacheTypeOK, Entry, Superseded, Current, EntryOK, Published
    <3>2. served'.ver < Current(served'.key) =>
            served'.at <= Superseded(served'.key, served'.ver) + Ttl + MaxResolve
      <4>1. SUFFICES ASSUME served'.ver < Current(served'.key)
                     PROVE  served'.at <= Superseded(served'.key, served'.ver) + Ttl + MaxResolve
        OBVIOUS
      <4>2. e.expires <= Superseded(served'.key, served'.ver) + Ttl + MaxResolve
        BY <2>4, <2>8, <4>1 DEF EntryOK
      <4> QED BY <2>8, <3>1, <4>1, <4>2
    <3>3. served'.at <= clock /\ Published(served'.key, served'.ver)
      BY <2>2, <2>4, <2>8 DEF EntryOK
    <3> QED BY <2>1, <3>2, <3>3 DEF ServedOK, Published, Superseded, Current
  <2> QED BY <1>0, <2>1, <2>6, <2>7, <2>9 DEF CacheIInv, DataOK, Bounded, PairOK, EntryOK,
            Published, Superseded, Current
<1>3. ASSUME NEW t \in Threads, GetMiss(t)
      PROVE  CacheIInv'
  BY <1>3, GetMissIInv
<1>4. ASSUME NEW t \in Threads, Sample(t)
      PROVE  CacheIInv'
  <2>1. /\ UNCHANGED <<clock, origin, data, served>>
        /\ place[t] = "fetch" /\ place' = [place EXCEPT ![t] = "set"]
        /\ lookup' = [lookup EXCEPT ![t].ver = Current(lookup[t].key)]
    BY <1>4 DEF Sample, Goto
  <2>2. /\ lookup[t] \in Call /\ lookup[t].at <= clock /\ clock <= lookup[t].at + MaxResolve
        /\ Current(lookup[t].key) \in Nat /\ Current(lookup[t].key) >= 1
    BY <1>0, <2>1 DEF CallOK, Call, CacheTypeOK, Current, CacheIInv
  <2>3. /\ lookup'[t] \in Call /\ lookup'[t].at = lookup[t].at /\ lookup'[t].key = lookup[t].key
        /\ lookup'[t].ver = Current(lookup[t].key)
    BY <1>0, <2>1, <2>2 DEF CacheTypeOK, Call
  <2>4. CacheTypeOK'
    BY <1>0, <2>1, <2>3 DEF CacheTypeOK
  <2>5. \A u \in Threads : CallOK(u)'
    <3>1. CallOK(t)'
      BY <1>0, <2>1, <2>2, <2>3 DEF CallOK, Published, Current, CacheTypeOK
    <3>2. ASSUME NEW u \in Threads, u # t PROVE CallOK(u)'
      BY <1>0, <2>1, <3>2 DEF CallOK, Published, Superseded, Current, CacheTypeOK
    <3> QED BY <3>1, <3>2
  <2> QED BY <1>0, <2>1, <2>4, <2>5 DEF CacheIInv, DataOK, Bounded, PairOK, EntryOK, ServedOK,
            Published, Superseded, Current
<1>5. ASSUME NEW t \in Threads, ResolveFails(t)
      PROVE  CacheIInv'
  <2>1. /\ UNCHANGED <<clock, origin, data, served>>
        /\ place' = [place EXCEPT ![t] = "idle"]
        /\ lookup' = [lookup EXCEPT ![t] = Nil]
    BY <1>5 DEF ResolveFails, Goto, Done
  <2>2. CacheTypeOK' /\ \A u \in Threads : CallOK(u)'
    BY <1>0, <2>1 DEF CacheTypeOK, CallOK, Published, Superseded, Current
  <2> QED BY <1>0, <2>1, <2>2 DEF CacheIInv, DataOK, Bounded, PairOK, EntryOK, ServedOK,
            Published, Superseded, Current
<1>6. ASSUME NEW t \in Threads, Store(t)
      PROVE  CacheIInv'
  BY <1>6, StoreIInv
<1>7. ASSUME Clear
      PROVE  CacheIInv'
  <2>1. data' = <<>> /\ UNCHANGED <<clock, origin, place, lookup, served>>
    BY <1>7 DEF Clear
  <2>2. CacheTypeOK' /\ DataOK'
    BY <1>0, <2>1 DEF CacheTypeOK, DataOK, Bounded, PairOK
  <2> QED BY <1>0, <2>1, <2>2 DEF CacheIInv, CallOK, ServedOK, Published, Superseded, Current
<1>8. ASSUME ClockTick
      PROVE  CacheIInv'
  <2>1. /\ clock' = clock + 1 /\ UNCHANGED <<origin, data, place, lookup, served>>
        /\ \A u \in Threads : place[u] \in {"fetch", "set"} => clock < lookup[u].at + MaxResolve
    BY <1>8 DEF ClockTick
  <2>2. CacheTypeOK'
    BY <1>0, <2>1 DEF CacheTypeOK
  <2>3. DataOK'
    <3>1. ASSUME NEW i \in 1..Len(data) PROVE EntryOK(data[i])'
      <4>1. data[i] \in Entry /\ EntryOK(data[i])
        BY <1>0 DEF DataOK, CacheTypeOK
      <4> QED BY <1>0, <2>1, <4>1 DEF EntryOK, Entry, CacheTypeOK, Published, Superseded, Current
    <3> QED BY <1>0, <2>1, <3>1 DEF DataOK, Bounded, PairOK
  <2>4. ASSUME NEW u \in Threads PROVE CallOK(u)'
    BY <1>0, <2>1 DEF CallOK, CacheTypeOK, Call, Published, Superseded, Current
  <2>5. ServedOK'
    BY <1>0, <2>1 DEF ServedOK, CacheTypeOK, Hit, Published, Superseded, Current
  <2> QED BY <2>1, <2>2, <2>3, <2>4, <2>5 DEF CacheIInv, Current
<1>9. ASSUME NEW k \in Names, Publish(k)
      PROVE  CacheIInv'
  <2>1. /\ origin' = [origin EXCEPT ![k] = Append(origin[k], clock)]
        /\ UNCHANGED <<clock, data, place, lookup, served>>
    BY <1>9 DEF Publish
  <2>2. /\ origin[k] \in Seq(Nat) /\ clock \in Nat
        /\ \A l \in Names : l # k => origin'[l] = origin[l]
        /\ origin'[k] = Append(origin[k], clock)
    BY <1>0, <2>1 DEF CacheTypeOK
  <2>3. /\ origin'[k] \in Seq(Nat)
        /\ Len(origin'[k]) = Len(origin[k]) + 1
        /\ \A v \in 1..Len(origin[k]) : origin'[k][v] = origin[k][v]
        /\ origin'[k][Len(origin[k]) + 1] = clock
    BY <2>2, AppendProperties
  <2>4. CacheTypeOK'
    BY <1>0, <2>1, <2>3 DEF CacheTypeOK
  <2>5. ASSUME NEW l \in Names, NEW v \in Nat, Published(l, v)
        PROVE  /\ Published(l, v)'
               /\ v < Current(l) => v < Current(l)' /\ Superseded(l, v)' = Superseded(l, v)
               /\ ~ (v < Current(l)) /\ v < Current(l)' => Superseded(l, v)' = clock
    <3>1. Len(origin[l]) \in Nat
      BY <1>0 DEF CacheTypeOK
    <3>2. CASE l = k
      <4>1. v \in 1..Len(origin[k]) /\ Len(origin'[k]) = Len(origin[k]) + 1
        BY <2>3, <2>5, <3>2 DEF Published, Current
      <4>2. v < Len(origin[k]) => origin'[k][v + 1] = origin[k][v + 1]
        BY <2>3, <3>1, <3>2, <4>1
      <4>3. ~ (v < Len(origin[k])) => origin'[k][v + 1] = clock
        BY <2>3, <3>1, <3>2, <4>1
      <4> QED BY <3>1, <3>2, <4>1, <4>2, <4>3 DEF Published, Current, Superseded
    <3>3. CASE l # k
      BY <2>2, <2>5, <3>1, <3>3 DEF Published, Current, Superseded
    <3> QED BY <3>2, <3>3
  <2>6. DataOK'
    <3>1. ASSUME NEW i \in 1..Len(data) PROVE EntryOK(data[i])'
      <4>1. data[i] \in Entry /\ EntryOK(data[i])
        BY <1>0 DEF DataOK, CacheTypeOK
      <4>2. /\ data[i].key \in Names /\ data[i].ver \in Nat /\ data[i].expires \in Nat
            /\ Published(data[i].key, data[i].ver) /\ data[i].expires <= clock + Ttl
        BY <4>1 DEF Entry, EntryOK
      <4>3. CASE data[i].ver < Current(data[i].key)
        <5>1. data[i].expires <= Superseded(data[i].key, data[i].ver) + Ttl + MaxResolve
          BY <4>1, <4>3 DEF EntryOK
        <5> QED BY <2>1, <2>5, <4>2, <4>3, <5>1 DEF EntryOK
      <4>4. CASE ~ (data[i].ver < Current(data[i].key))
        <5>1. data[i].expires <= clock + Ttl + MaxResolve
          BY <2>2, <4>2
        <5> QED BY <2>1, <2>5, <4>2, <4>4, <5>1 DEF EntryOK
      <4> QED BY <4>3, <4>4
    <3> QED BY <1>0, <2>1, <3>1 DEF DataOK, Bounded, PairOK
  <2>7. ASSUME NEW u \in Threads PROVE CallOK(u)'
    BY <1>0, <2>1, <2>5 DEF CallOK, Call, CacheTypeOK
  <2>8. ServedOK'
    BY <1>0, <2>1, <2>5 DEF ServedOK, Hit, CacheTypeOK
  <2>9. \A l \in Names : (Current(l) >= 1)'
    <3>1. ASSUME NEW l \in Names PROVE Len(origin'[l]) >= 1
      <4>1. Len(origin[l]) >= 1 /\ Len(origin[l]) \in Nat
        BY <1>0 DEF CacheIInv, Current, CacheTypeOK
      <4> QED BY <2>2, <2>3, <4>1
    <3> QED BY <3>1 DEF Current
  <2> QED BY <2>4, <2>6, <2>7, <2>8, <2>9 DEF CacheIInv
<1>10. CASE UNCHANGED cacheVars
  BY <1>0, <1>10 DEF cacheVars, CacheIInv, CacheTypeOK, DataOK, Bounded, PairOK, EntryOK, CallOK,
       ServedOK, Published, Superseded, Current
<1> QED BY <1>1, <1>2, <1>3, <1>4, <1>5, <1>6, <1>7, <1>8, <1>9, <1>10 DEF CacheNext, ThreadStep

\* IInv holds in every state of every behaviour of the shared cache.
THEOREM CacheIInvHolds == CacheSpec => []CacheIInv
BY CacheInitIInv, CacheNextIInv, PTL DEF CacheSpec

\* The variables of the cache and of its callers keep their types.
THEOREM CacheTypeCorrect == CacheSpec => []CacheTypeOK
<1>1. CacheIInv => CacheTypeOK
  BY DEF CacheIInv
<1> QED BY <1>1, CacheIInvHolds, PTL

\* However threads race their misses, set leaves one entry per key.
THEOREM NoDuplicateKeys == CacheSpec => []OneEntryPerKey
<1>1. CacheIInv => OneEntryPerKey
  <2> SUFFICES ASSUME CacheIInv, NEW i \in DOMAIN data, NEW j \in DOMAIN data,
                      data[i].key = data[j].key
               PROVE  i = j
    BY DEF OneEntryPerKey
  <2>1. DOMAIN data = 1..Len(data) /\ PairOK(data)
    BY DEF CacheIInv, CacheTypeOK, DataOK
  <2> QED BY <2>1 DEF PairOK
<1> QED BY <1>1, CacheIInvHolds, PTL

\* The cache never outgrows max_entries.
THEOREM NeverOutgrows == CacheSpec => []Bounded
<1>1. CacheIInv => Bounded
  BY DEF CacheIInv, DataOK
<1> QED BY <1>1, CacheIInvHolds, PTL

\* Write order is expiry order, which makes the O(1) eviction the right one.
THEOREM WriteOrderIsExpiryOrder == CacheSpec => []OldestExpiresFirst
<1>1. CacheIInv => OldestExpiresFirst
  BY DEF CacheIInv, CacheTypeOK, DataOK, PairOK, OldestExpiresFirst
<1> QED BY <1>1, CacheIInvHolds, PTL

\* What the cache holds and serves was published by the origin of its key.
THEOREM OnlySuccessesServed == CacheSpec => []ServesPublished
<1>1. CacheIInv => ServesPublished
  <2> SUFFICES ASSUME CacheIInv PROVE ServesPublished
    OBVIOUS
  <2>1. DOMAIN data = 1..Len(data) /\ DataOK /\ ServedOK
    BY DEF CacheIInv, CacheTypeOK
  <2>2. \A i \in DOMAIN data : Published(data[i].key, data[i].ver)
    BY <2>1 DEF DataOK, EntryOK
  <2>3. served # Nil => Published(served.key, served.ver)
    BY <2>1 DEF ServedOK
  <2> QED BY <2>2, <2>3 DEF ServesPublished
<1> QED BY <1>1, CacheIInvHolds, PTL

\* The freshness bound: TTL plus one resolve, for every TTL and every bound
\* on how long a resolve takes.
THEOREM StalenessBound == CacheSpec => []StaleAtMostTtlPlusResolve
<1>1. CacheIInv => StaleAtMostTtlPlusResolve
  BY DEF CacheIInv, ServedOK, StaleAtMostTtlPlusResolve
<1> QED BY <1>1, CacheIInvHolds, PTL

(***************************************************************************)
(* An entry that is neither expired nor cleared away is lost only from a   *)
(* full cache, and only when no other entry expires sooner.                *)
(***************************************************************************)
THEOREM EvictionIsFair == CacheSpec => LosesOnlyTheOldest
<1> DEFINE Fine(e) ==
      \/ data' = <<>>
      \/ e.expires < clock
      \/ /\ Len(data) = MaxEntries
         /\ \A j \in DOMAIN data : e.expires <= data[j].expires
<1>1. ASSUME CacheIInv, CacheNext, NEW p \in DOMAIN data, Lost(data[p])
      PROVE  Fine(data[p])
  <2>0. /\ CacheTypeOK /\ DataOK /\ DOMAIN data = 1..Len(data) /\ Len(data) \in Nat
        /\ data \in Seq(Entry)
    BY <1>1 DEF CacheIInv, CacheTypeOK, DataOK
  <2>1. data' # data
    BY <1>1 DEF Lost
  <2>2. CASE Clear
    BY <2>2 DEF Clear
  <2>3. ASSUME NEW t \in Threads, GetMiss(t)
        PROVE  Fine(data[p])
    <3> DEFINE k == lookup[t].key
    <3>1. /\ Holds(k) => EntryExpired(data[At(k)], lookup[t].at)
          /\ data' = IF Holds(k) THEN RemoveAt(data, At(k)) ELSE data
          /\ place[t] = "get"
      BY <2>3 DEF GetMiss, Goto
    <3>2. Holds(k) /\ lookup[t] \in Call /\ lookup[t].at <= clock
      BY <1>1, <2>1, <3>1 DEF CacheIInv, CallOK
    <3>3. At(k) \in 1..Len(data) /\ data' = RemoveAt(data, At(k))
      BY <2>0, <3>1, <3>2 DEF Holds, At
    <3>4. p = At(k)
      <4>1. ASSUME p # At(k) PROVE FALSE
        <5>1. /\ Len(data') = Len(data) - 1 /\ data' \in Seq(Entry)
              /\ \A j \in 1..(Len(data) - 1) :
                   data'[j] = IF j < At(k) THEN data[j] ELSE data[j + 1]
          BY <2>0, <3>3, RemoveAtElements
        <5>2. CASE p < At(k)
          BY <1>1, <2>0, <3>3, <5>1, <5>2 DEF Lost
        <5>3. CASE p > At(k)
          <6>1. p - 1 \in 1..(Len(data) - 1) /\ ~ (p - 1 < At(k)) /\ (p - 1) + 1 = p
            BY <2>0, <3>3, <5>3
          <6>2. data'[p - 1] = data[p] /\ p - 1 \in DOMAIN data'
            BY <5>1, <6>1
          <6> QED BY <1>1, <6>2 DEF Lost
        <5> QED BY <2>0, <3>3, <4>1, <5>2, <5>3
      <4> QED BY <4>1
    <3>5. data[p] \in Entry
      BY <2>0
    <3> QED BY <2>0, <3>1, <3>2, <3>4, <3>5 DEF EntryExpired, Entry, Call, CacheTypeOK
  <2>4. ASSUME NEW t \in Threads, Store(t)
        PROVE  Fine(data[p])
    <3> DEFINE k == lookup[t].key
               e == [key |-> k, expires |-> clock + Ttl, ver |-> lookup[t].ver]
    <3>1. data' = Append(Kept(k), e) /\ place[t] = "set"
      BY <2>4 DEF Store, SetEntry, Goto
    <3>2. k \in Names /\ e \in Entry
      BY <1>1, <2>0, <3>1, CacheAssumption DEF CacheIInv, CallOK, Call, Entry, CacheTypeOK
    <3>3. Thinned(Kept(k), data)
      BY <2>0, <3>2, KeptProperties DEF DataOK
    <3> HIDE DEF e
    <3>4. /\ Kept(k) \in Seq(Entry)
          /\ \A j \in 1..Len(Kept(k)) : data'[j] = Kept(k)[j] /\ j \in DOMAIN data'
          /\ data'[Len(Kept(k)) + 1] = e /\ Len(Kept(k)) + 1 \in DOMAIN data'
      BY <3>1, <3>2, <3>3, AppendProperties DEF Thinned
    <3>5. data[p].key # k /\ \A j \in 1..Len(Kept(k)) : Kept(k)[j] # data[p]
      BY <1>1, <3>4 DEF Lost, e
    <3>6. CASE Holds(k)
      <4>1. At(k) \in 1..Len(data) /\ data[At(k)].key = k /\ Kept(k) = RemoveAt(data, At(k))
        BY <2>0, <3>6 DEF Holds, At, Kept
      <4>2. /\ Len(Kept(k)) = Len(data) - 1
            /\ \A j \in 1..(Len(data) - 1) :
                 Kept(k)[j] = IF j < At(k) THEN data[j] ELSE data[j + 1]
        BY <2>0, <4>1, RemoveAtElements
      <4>3. CASE p < At(k)
        BY <2>0, <3>5, <4>1, <4>2, <4>3
      <4>4. CASE p > At(k)
        <5>1. p - 1 \in 1..(Len(data) - 1) /\ ~ (p - 1 < At(k)) /\ (p - 1) + 1 = p
          BY <2>0, <4>1, <4>4
        <5>2. Kept(k)[p - 1] = data[p]
          BY <4>2, <5>1
        <5> QED BY <3>5, <4>2, <5>1, <5>2
      <4> QED BY <2>0, <3>5, <4>1, <4>3, <4>4
    <3>7. CASE ~ Holds(k) /\ Len(data) >= MaxEntries
      <4>0. data # <<>> /\ Len(data) = MaxEntries
        <5>1. Len(data) <= MaxEntries
          BY <2>0 DEF DataOK, Bounded
        <5>2. Len(data) >= MaxEntries
          BY <3>7, Zenon
        <5>3. Len(data) \in Nat /\ MaxEntries \in Nat /\ MaxEntries # 0
          BY <2>0, CacheAssumption
        <5>4. Len(data) = MaxEntries
          BY <5>1, <5>2, <5>3
        <5>5. data = <<>> => Len(data) = 0
          OBVIOUS
        <5> QED BY <5>3, <5>4, <5>5
      <4>1. Kept(k) = Tail(data) /\ data # <<>> /\ Len(data) = MaxEntries
        BY <3>7, <4>0, Zenon DEF Kept
      <4>2. /\ Len(Tail(data)) = Len(data) - 1
            /\ \A j \in 1..(Len(data) - 1) : Tail(data)[j] = data[j + 1]
        BY <2>0, <4>1, TailThins
      <4>3. p = 1
        <5>1. ASSUME p # 1 PROVE FALSE
          <6>1. p - 1 \in 1..(Len(data) - 1) /\ (p - 1) + 1 = p
            BY <2>0, <5>1
          <6>2. Tail(data)[p - 1] = data[p]
            BY <4>2, <6>1
          <6> QED BY <3>5, <4>1, <4>2, <6>1, <6>2
        <5> QED BY <5>1
      <4>4. \A j \in DOMAIN data : data[1].expires <= data[j].expires
        <5>1. ASSUME NEW j \in 1..Len(data) PROVE data[1].expires <= data[j].expires
          <6>1. CASE j = 1
            <7>1. data[j] \in Entry
              BY <2>0
            <7> QED BY <6>1, <7>1 DEF Entry
          <6>2. CASE j # 1
            BY <2>0, <6>2 DEF DataOK, PairOK
          <6> QED BY <6>1, <6>2
        <5> QED BY <2>0, <5>1
      <4> QED BY <4>1, <4>3, <4>4
    <3>8. CASE ~ Holds(k) /\ ~ (Len(data) >= MaxEntries)
      <4>1. Kept(k) = data
        BY <3>8, Zenon DEF Kept
      <4> QED BY <2>0, <3>5, <4>1
    <3> QED BY <3>6, <3>7, <3>8
  <2> QED BY <1>1, <2>1, <2>2, <2>3, <2>4
        DEF CacheNext, ThreadStep, Begin, GetHit, Sample, ResolveFails, ClockTick, Publish
<1>2. CacheIInv /\ [CacheNext]_cacheVars =>
        [\A i \in DOMAIN data : Lost(data[i]) => Fine(data[i])]_cacheVars
  BY <1>1
<1> QED BY <1>2, CacheIInvHolds, PTL DEF CacheSpec, LosesOnlyTheOldest

----------------------------------------------------------------------------
USE HttpAssumption, HorizonAssumption, AbsenceAssumption

Places == {"idle", "gate", "open", "wire", "sleep"}

(***************************************************************************)
(* The inductive invariant, of the place p of a call and its locals k at   *)
(* the instant t.  A call past its gate read the clock before the expiry   *)
(* and after its last sleep; one that starts an attempt has slept its      *)
(* sleep out, unless the gate will refuse it.                              *)
(***************************************************************************)
Paced(p, k, t) ==
  /\ p \in {"gate", "open", "wire"} => k.wake <= t \/ ValidUntil <= t
  /\ p \in {"open", "wire"} => k.gate < ValidUntil /\ k.wake <= k.gate /\ k.gate <= t
  /\ p \in {"open", "wire", "sleep"} => k.attempt < Attempts

InTime(p, k, t) ==
  k.until # None =>
    /\ p \in {"open", "wire"} => k.gate < k.until
    /\ p = "sleep" => k.wake <= k.until \/ k.wake <= t

\* Up to the first round every request went to an address of its own, which
\* is what `tried` holds; from then on every address has had its turn.
Rounds(k) ==
  \/ k.tried = k.log /\ Cardinality(Range(k.log)) = Len(k.log)
  \/ Range(k.log) = AddressSet /\ Len(k.log) >= Cardinality(AddressSet)

LocalsOK(p, k, t) ==
  p # "idle" => k \in Calls /\ Paced(p, k, t) /\ InTime(p, k, t) /\ Rounds(k)

CallersOK ==
  /\ pc \in [Callers -> Places]
  /\ call \in [Callers -> Calls \cup {None}]
  /\ out \in [Callers -> Results \cup {None}]
  /\ \A c \in Callers : LocalsOK(pc[c], call[c], now)

StoreOK ==
  /\ now \in 0..MaxTime
  /\ cache \in [Urls -> [expires : Nat, body : Bodies] \cup {None}]

IInv == CallersOK /\ StoreOK

----------------------------------------------------------------------------
\* The addresses of a host are finitely many.
LEMMA AddressesAreFinite ==
  ASSUME ResolverAssumption
  PROVE  IsFiniteSet(AddressSet) /\ Cardinality(AddressSet) \in Nat
<1>1. PICK ans : ans \in Answers
  OBVIOUS
<1>2. ans \in Seq(AddressSet) /\ Range(ans) = AddressSet
  BY <1>1, ResolverAssumption
<1>3. ans \in [1..Len(ans) -> AddressSet]
  BY <1>2
<1>4. ans \in Surjection(1..Len(ans), AddressSet)
  <2>1. \A a \in AddressSet : \E i \in 1..Len(ans) : ans[i] = a
    BY <1>2 DEF Range
  <2> QED BY <1>3, <2>1 DEF Surjection
<1>5. IsFiniteSet(1..Len(ans))
  BY <1>2, FS_Interval
<1> QED BY <1>4, <1>5, FS_Surjection, FS_CardinalityType

\* What Append leaves of the set of addresses used.
LEMMA RangeOfAppend ==
  ASSUME NEW s \in Seq(AddressSet), NEW a \in AddressSet
  PROVE  Range(Append(s, a)) = Range(s) \cup {a}
<1>1. Range(Append(s, a)) \subseteq Range(s) \cup {a}
  BY DEF Range
<1>2. Range(s) \subseteq Range(Append(s, a))
  <2> SUFFICES ASSUME NEW i \in 1..Len(s) PROVE s[i] \in Range(Append(s, a))
    BY DEF Range
  <2>1. i \in 1..Len(Append(s, a)) /\ Append(s, a)[i] = s[i]
    OBVIOUS
  <2> QED BY <2>1 DEF Range
<1>3. a \in Range(Append(s, a))
  <2>1. Len(s) + 1 \in 1..Len(Append(s, a)) /\ Append(s, a)[Len(s) + 1] = a
    OBVIOUS
  <2> QED BY <2>1 DEF Range
<1> QED BY <1>1, <1>2, <1>3

\* The pick is an address of the answer.
LEMMA PickIsAnAnswer ==
  ASSUME NEW c, NEW ans \in Answers, call[c] \in Calls
  PROVE  /\ Pick(c, ans).addr \in AddressSet
         /\ Pick(c, ans).tried \in Seq(AddressSet)
<1> DEFINE fresh == Untried(c, ans)
<1>1. ans \in Seq(AddressSet) /\ ans # <<>>
  OBVIOUS
<1>2. CASE fresh = {}
  <2>1. Head(ans) \in AddressSet
    BY <1>1
  <2>2. Pick(c, ans) = [addr |-> Head(ans), tried |-> <<Head(ans)>>]
    BY <1>2 DEF Pick
  <2> QED BY <2>1, <2>2
<1>3. CASE fresh # {}
  <2>1. fresh \subseteq 1..Len(ans)
    BY <1>1 DEF Untried
  <2>2. Min(fresh) \in fresh
    BY <1>3, <2>1, MinOfNats
  <2>3. ans[Min(fresh)] \in AddressSet
    BY <1>1, <2>1, <2>2
  <2>4. Pick(c, ans) = [addr |-> ans[Min(fresh)],
                        tried |-> Append(call[c].tried, ans[Min(fresh)])]
    BY <1>3, Zenon DEF Pick
  <2>5. call[c].tried \in Seq(AddressSet)
    BY DEF Calls
  <2> QED BY <2>3, <2>4, <2>5
<1> QED BY <1>2, <1>3

\* A request goes to an address of its own until the first round is over.
LEMMA TheRoundGoesOn ==
  ASSUME ResolverAssumption,
         NEW c, NEW ans \in Answers, call[c] \in Calls, Rounds(call[c]),
         NEW k \in Calls, k.tried = Pick(c, ans).tried,
         k.log = Append(call[c].log, Pick(c, ans).addr)
  PROVE  Rounds(k)
<1> DEFINE p == Pick(c, ans)
           old == call[c].log
           fresh == Untried(c, ans)
<1>1. /\ old \in Seq(AddressSet) /\ p.addr \in AddressSet
      /\ call[c].tried \in Seq(AddressSet)
      /\ ans \in Seq(AddressSet) /\ ans # <<>>
  BY PickIsAnAnswer DEF Calls
<1>2. Range(k.log) = Range(old) \cup {p.addr} /\ Len(k.log) = Len(old) + 1 /\ Len(old) \in Nat
  BY <1>1, RangeOfAppend
<1>3. IsFiniteSet(AddressSet) /\ Cardinality(AddressSet) \in Nat
  BY AddressesAreFinite, ResolverAssumption
<1>4. Range(old) \subseteq AddressSet
  BY <1>1 DEF Range
<1>5. CASE Range(old) = AddressSet /\ Len(old) >= Cardinality(AddressSet)
  <2>1. Range(k.log) = AddressSet
    BY <1>1, <1>2, <1>5
  <2>2. Len(k.log) >= Cardinality(AddressSet)
    BY <1>2, <1>3, <1>5
  <2> QED BY <2>1, <2>2 DEF Rounds
<1>6. CASE call[c].tried = old /\ Cardinality(Range(old)) = Len(old)
  <2>1. CASE fresh # {}
    <3>1. fresh \subseteq 1..Len(ans)
      BY <1>1 DEF Untried
    <3>2. Min(fresh) \in fresh
      BY <2>1, <3>1, MinOfNats
    <3>3. p = [addr |-> ans[Min(fresh)], tried |-> Append(call[c].tried, ans[Min(fresh)])]
      BY <2>1, Zenon DEF Pick
    <3>4. p.addr \notin Range(old) /\ p.tried = Append(old, p.addr)
      BY <1>6, <3>2, <3>3 DEF Untried
    <3>5. Cardinality(Range(k.log)) = Len(old) + 1
      <4>1. IsFiniteSet(Range(old))
        BY <1>3, <1>4, FS_Subset
      <4>2. Cardinality(Range(old) \cup {p.addr}) = Cardinality(Range(old)) + 1
        BY <3>4, <4>1, FS_AddElement
      <4> QED BY <1>2, <1>6, <4>2
    <3> QED BY <1>2, <3>4, <3>5 DEF Rounds
  <2>2. CASE fresh = {}
    <3>1. Range(ans) \subseteq Range(old)
      BY <1>6, <2>2 DEF Untried, Range
    <3>2. Range(old) = AddressSet
      BY <1>4, <3>1, ResolverAssumption
    <3>3. Range(k.log) = AddressSet
      BY <1>1, <1>2, <3>2
    <3>4. Len(k.log) >= Cardinality(AddressSet)
      BY <1>2, <1>3, <1>6, <3>2
    <3> QED BY <3>3, <3>4 DEF Rounds
  <2> QED BY <2>1, <2>2
<1> QED BY <1>5, <1>6 DEF Rounds

----------------------------------------------------------------------------
\* A step of caller c: the others' locals stay what they are.
LEMMA CallerStep ==
  ASSUME CallersOK, NEW c \in Callers, NEW p \in Places, NEW k \in Calls \cup {None},
         NEW o \in Results \cup {None}, LocalsOK(p, k, now), now' = now,
         pc' = [pc EXCEPT ![c] = p], call' = [call EXCEPT ![c] = k],
         out' = [out EXCEPT ![c] = o]
  PROVE  CallersOK'
<1>1. ASSUME NEW d \in Callers PROVE LocalsOK(pc'[d], call'[d], now')
  <2>1. CASE d = c
    <3>1. pc'[d] = p /\ call'[d] = k
      BY <2>1 DEF CallersOK
    <3> QED BY <3>1
  <2>2. CASE d # c
    <3>1. pc'[d] = pc[d] /\ call'[d] = call[d]
      BY <2>2 DEF CallersOK
    <3> QED BY <3>1 DEF CallersOK
  <2> QED BY <2>1, <2>2
<1>2. /\ pc' \in [Callers -> Places]
      /\ call' \in [Callers -> Calls \cup {None}]
      /\ out' \in [Callers -> Results \cup {None}]
  BY DEF CallersOK
<1> QED BY <1>1, <1>2 DEF CallersOK

\* The end of a call.
LEMMA FinishOK ==
  ASSUME CallersOK, NEW c \in Callers, NEW r \in Results, Finish(c, r)
  PROVE  CallersOK'
<1>1. LocalsOK("idle", None, now)
  BY DEF LocalsOK
<1> QED BY <1>1, CallerStep DEF Finish, Places

\* A reader that refuses, or answers from the cache, leaves the locals alone.
LEMMA RefuseOK ==
  ASSUME CallersOK, NEW c \in Callers, NEW r \in Results, Refuse(c, r)
  PROVE  CallersOK'
BY DEF CallersOK, Refuse

\* A reader that enters the loop: no sleep behind it, no address used.
LEMMA EnterOK ==
  ASSUME IInv, NEW c \in Callers, NEW kind \in Kinds, NEW u \in Urls,
         NEW until \in Nat \cup {None}, Enter(c, kind, u, until)
  PROVE  CallersOK'
<1> DEFINE k == [kind |-> kind, url |-> u, attempt |-> First(kind), until |-> until, gate |-> 0,
                 wake |-> 0, tried |-> <<>>, last |-> None, log |-> <<>>]
<1>1. First(kind) \in 0..Attempts
  BY DEF First
<1>2. k \in Calls
  BY <1>1 DEF Calls
<1>3. Paced("gate", k, now) /\ InTime("gate", k, now)
  BY DEF IInv, StoreOK, Paced, InTime
<1>4. Rounds(k)
  <2>1. Range(<<>>) = {}
    BY DEF Range
  <2> QED BY <2>1, FS_EmptySet DEF Rounds
<1>5. k \in Calls \cup {None}
  BY <1>2
<1>6. LocalsOK("gate", k, now)
  BY <1>2, <1>3, <1>4 DEF LocalsOK
<1>7. call' = [call EXCEPT ![c] = k]
  BY DEF Enter
<1> HIDE DEF k
<1> QED BY <1>5, <1>6, <1>7, CallerStep DEF IInv, Enter, Places

\* An attempt that failed: the last one ends the loop, any other is followed
\* by a sleep within the deadline.
LEMMA FailedOK ==
  ASSUME IInv, NEW c \in Callers, pc[c] \in {"open", "wire"},
         NEW why \in {"busy", "transport", "unresolved"}, Failed(c, why)
  PROVE  CallersOK'
<1>1. /\ call[c] \in Calls /\ Rounds(call[c])
      /\ Paced(pc[c], call[c], now) /\ InTime(pc[c], call[c], now)
  BY DEF IInv, CallersOK, LocalsOK
<1>2. now \in Nat /\ out' = [out EXCEPT ![c] = out[c]] /\ out[c] \in Results \cup {None}
  <2>1. now \in Nat /\ out \in [Callers -> Results \cup {None}]
    BY DEF IInv, StoreOK, CallersOK
  <2>2. out' = out
    BY DEF Failed
  <2> QED BY <2>1, <2>2
<1>3. CASE /\ call[c].attempt >= Attempts - 1
           /\ pc' = [pc EXCEPT ![c] = "gate"]
           /\ call' = [call EXCEPT ![c] = [call[c] EXCEPT !.last = why, !.attempt = @ + 1]]
  <2> DEFINE k == [call[c] EXCEPT !.last = why, !.attempt = @ + 1]
  <2>1. k \in Calls /\ k.tried = call[c].tried /\ k.log = call[c].log
    <3>1. call[c].attempt + 1 \in 0..Attempts
      BY <1>1, <1>3 DEF Calls, Paced
    <3> QED BY <1>1, <3>1 DEF Calls
  <2>2. Rounds(k)
    BY <1>1, <2>1 DEF Rounds
  <2>3. k.wake = call[c].wake /\ k.until = call[c].until
    BY <1>1 DEF Calls
  <2>4. Paced("gate", k, now) /\ InTime("gate", k, now)
    BY <1>1, <1>2, <2>3 DEF Paced, InTime, Calls
  <2>5. call' = [call EXCEPT ![c] = k]
    BY <1>3, Zenon
  <2> HIDE DEF k
  <2>6. LocalsOK("gate", k, now)
    BY <2>1, <2>2, <2>4 DEF LocalsOK
  <2> QED BY <1>2, <1>3, <2>1, <2>5, <2>6, CallerStep DEF IInv, Failed, Places
<1>4. CASE /\ call[c].attempt < Attempts - 1
           /\ pc' = [pc EXCEPT ![c] = "sleep"]
           /\ \E d \in 0..MaxSleep :
                call' = [call EXCEPT ![c] =
                           [call[c] EXCEPT !.last = why, !.wake = now + Clamp(c, d)]]
  <2>1. PICK d \in 0..MaxSleep :
          call' = [call EXCEPT ![c] = [call[c] EXCEPT !.last = why, !.wake = now + Clamp(c, d)]]
    BY <1>4
  <2> DEFINE k == [call[c] EXCEPT !.last = why, !.wake = now + Clamp(c, d)]
  <2>2. /\ Clamp(c, d) \in Nat
        /\ call[c].until # None =>
             now + Clamp(c, d) <= call[c].until \/ now + Clamp(c, d) <= now
    <3>1. call[c].until # None => call[c].until \in Nat
      BY <1>1 DEF Calls
    <3>2. CASE call[c].until = None
      BY <1>2, <3>2 DEF Clamp
    <3>3. CASE call[c].until # None
      BY <1>2, <3>1, <3>3 DEF Clamp
    <3> QED BY <3>2, <3>3
  <2>3. k \in Calls /\ k.tried = call[c].tried /\ k.log = call[c].log
    <3>1. now + Clamp(c, d) \in Nat
      BY <1>2, <2>2
    <3> QED BY <1>1, <3>1 DEF Calls
  <2>4. Rounds(k)
    BY <1>1, <2>3 DEF Rounds
  <2>5. k.wake = now + Clamp(c, d) /\ k.until = call[c].until /\ k.attempt = call[c].attempt
    BY <1>1 DEF Calls
  <2>6. Paced("sleep", k, now) /\ InTime("sleep", k, now)
    BY <1>1, <1>2, <2>2, <2>5 DEF Paced, InTime
  <2>7. call' = [call EXCEPT ![c] = k]
    BY <2>1, Zenon
  <2> HIDE DEF k
  <2>8. LocalsOK("sleep", k, now)
    BY <2>3, <2>4, <2>6 DEF LocalsOK
  <2> QED BY <1>2, <1>4, <2>3, <2>7, <2>8, CallerStep DEF IInv, Failed, Places
<1> QED BY <1>3, <1>4 DEF Failed

\* The three readers.
LEMMA ReadersOK ==
  ASSUME IInv, NEW c \in Callers, NEW u \in Urls,
         GetJson(c, u) \/ GetBytes(c, u) \/ Probe(c, u)
  PROVE  CallersOK'
<1>1. ASSUME NEW r \in {"expired", "forbiddenHost", "cached"}, Refuse(c, r) PROVE CallersOK'
  BY <1>1, RefuseOK DEF IInv, Results
<1>2. ASSUME NEW k \in Kinds, NEW until \in {None, now + Budget}, Enter(c, k, u, until)
      PROVE  CallersOK'
  <2>1. until \in Nat \cup {None}
    BY DEF IInv, StoreOK
  <2> QED BY <1>2, <2>1, EnterOK
<1>3. CASE GetJson(c, u)
  BY <1>1, <1>2, <1>3 DEF GetJson, Kinds
<1>4. CASE GetBytes(c, u)
  BY <1>1, <1>2, <1>4 DEF GetBytes, Kinds
<1>5. CASE Probe(c, u)
  BY <1>1, <1>2, <1>5 DEF Probe, Kinds
<1> QED BY <1>3, <1>4, <1>5

\* The gate: past it the clock was read before the expiry and the deadline.
LEMMA GateOK ==
  ASSUME IInv, NEW c \in Callers, Gate(c)
  PROVE  CallersOK'
<1>1. /\ call[c] \in Calls /\ Rounds(call[c])
      /\ Paced("gate", call[c], now) /\ InTime("gate", call[c], now)
  BY DEF IInv, CallersOK, LocalsOK, Gate
<1>2. now \in Nat
  BY DEF IInv, StoreOK
<1>3. ASSUME NEW r \in {"expired", "limits"}, Finish(c, r) PROVE CallersOK'
  BY <1>3, FinishOK DEF IInv, Results
<1>4. CASE /\ ~ Expired /\ TimeLeft(c)
           /\ pc' = [pc EXCEPT ![c] = "open"]
           /\ call' = [call EXCEPT ![c] = [call[c] EXCEPT !.gate = now]]
           /\ UNCHANGED <<now, cache, out>>
  <2> DEFINE k == [call[c] EXCEPT !.gate = now]
  <2>1. k \in Calls /\ k.tried = call[c].tried /\ k.log = call[c].log
    BY <1>1, <1>2 DEF Calls
  <2>2. Rounds(k)
    BY <1>1, <2>1 DEF Rounds
  <2>3. /\ k.gate = now /\ k.wake = call[c].wake /\ k.until = call[c].until
        /\ k.attempt = call[c].attempt
    BY <1>1 DEF Calls
  <2>4. call[c].attempt < Attempts
    BY DEF Gate
  <2>5. now < ValidUntil /\ (call[c].until # None => now < call[c].until)
    BY <1>1, <1>2, <1>4 DEF Expired, TimeLeft, Calls
  <2>6. Paced("open", k, now) /\ InTime("open", k, now)
    BY <1>1, <1>2, <2>3, <2>4, <2>5 DEF Paced, InTime
  <2>7. call' = [call EXCEPT ![c] = k] /\ out' = [out EXCEPT ![c] = out[c]]
        /\ out[c] \in Results \cup {None}
    BY <1>4 DEF IInv, CallersOK
  <2> HIDE DEF k
  <2>8. LocalsOK("open", k, now)
    BY <2>1, <2>2, <2>6 DEF LocalsOK
  <2> QED BY <1>4, <2>1, <2>7, <2>8, CallerStep DEF IInv, Places
<1> QED BY <1>3, <1>4 DEF Gate

\* The name resolution and the connect.
LEMMA OpenOK ==
  ASSUME ResolverAssumption, IInv, NEW c \in Callers, Open(c)
  PROVE  CallersOK'
<1>1. /\ call[c] \in Calls /\ Rounds(call[c])
      /\ Paced("open", call[c], now) /\ InTime("open", call[c], now)
  BY DEF IInv, CallersOK, LocalsOK, Open
<1>2. ASSUME NEW r \in {"forbiddenAddress", "forbiddenHost"}, Finish(c, r) PROVE CallersOK'
  BY <1>2, FinishOK DEF IInv, Results
<1>3. CASE Failed(c, "unresolved")
  BY <1>3, FailedOK DEF Open
<1>4. ASSUME NEW ans \in Answers,
             pc' = [pc EXCEPT ![c] = "wire"],
             call' = [call EXCEPT ![c] = [call[c] EXCEPT !.tried = Pick(c, ans).tried,
                                                         !.log = Append(@, Pick(c, ans).addr)]],
             UNCHANGED <<now, cache, out>>
      PROVE  CallersOK'
  <2> DEFINE k == [call[c] EXCEPT !.tried = Pick(c, ans).tried,
                                  !.log = Append(@, Pick(c, ans).addr)]
  <2>1. Pick(c, ans).addr \in AddressSet /\ Pick(c, ans).tried \in Seq(AddressSet)
    BY <1>1, PickIsAnAnswer
  <2>2. k \in Calls /\ k.tried = Pick(c, ans).tried
        /\ k.log = Append(call[c].log, Pick(c, ans).addr)
    <3>1. call[c].log \in Seq(AddressSet)
      BY <1>1 DEF Calls
    <3>2. Append(call[c].log, Pick(c, ans).addr) \in Seq(AddressSet)
      BY <2>1, <3>1
    <3> QED BY <1>1, <2>1, <3>2 DEF Calls
  <2>3. /\ k.gate = call[c].gate /\ k.wake = call[c].wake /\ k.until = call[c].until
        /\ k.attempt = call[c].attempt
    BY <1>1 DEF Calls
  <2>4. Paced("wire", k, now) /\ InTime("wire", k, now)
    BY <1>1, <2>3 DEF Paced, InTime
  <2>5. call' = [call EXCEPT ![c] = k]
    BY <1>4, Zenon
  <2>8. out' = [out EXCEPT ![c] = out[c]] /\ out[c] \in Results \cup {None}
    BY <1>4 DEF IInv, CallersOK
  <2> HIDE DEF k
  <2>6. Rounds(k)
    BY <1>1, <2>2, TheRoundGoesOn, ResolverAssumption
  <2>7. LocalsOK("wire", k, now)
    BY <2>2, <2>4, <2>6 DEF LocalsOK
  <2> QED BY <1>4, <2>2, <2>5, <2>7, <2>8, CallerStep DEF IInv, Places
<1> QED BY <1>2, <1>3, <1>4 DEF Open

\* What a server may answer.
LEMMA RepliesOK ==
  ASSUME IInv, NEW c \in Callers, Transport(c) \/ Body(c) \/ Status(c)
  PROVE  CallersOK'
<1>1. ASSUME NEW r \in Results, Finish(c, r) PROVE CallersOK'
  BY <1>1, FinishOK DEF IInv
<1>2. ASSUME NEW why \in {"busy", "transport"}, Failed(c, why), pc[c] = "wire" PROVE CallersOK'
  BY <1>2, FailedOK
<1>3. CASE Transport(c)
  BY <1>2, <1>3 DEF Transport
<1>4. CASE Body(c)
  BY <1>1, <1>4 DEF Body, Results, ReadErrors
<1>5. CASE Status(c)
  <2>1. PICK k : k = call[c].kind
    OBVIOUS
  <2> QED BY <1>1, <1>2, <1>5 DEF Status, Results
<1> QED BY <1>3, <1>4, <1>5

\* The end of a sleep: it was slept out, or the clock's bound cut it short
\* and the gate will refuse the call.
LEMMA WakeOK ==
  ASSUME IInv, NEW c \in Callers, Wake(c)
  PROVE  CallersOK'
<1>1. /\ call[c] \in Calls /\ Rounds(call[c])
      /\ Paced("sleep", call[c], now) /\ InTime("sleep", call[c], now)
  BY DEF IInv, CallersOK, LocalsOK, Wake
<1>2. now \in Nat /\ (call[c].wake <= now \/ ValidUntil <= now)
  BY <1>1 DEF IInv, StoreOK, Wake, Calls
<1> DEFINE k == [call[c] EXCEPT !.attempt = @ + 1]
<1>3. k \in Calls /\ k.tried = call[c].tried /\ k.log = call[c].log
  <2>1. call[c].attempt + 1 \in 0..Attempts
    BY <1>1 DEF Calls, Paced
  <2> QED BY <1>1, <2>1 DEF Calls
<1>4. Rounds(k)
  BY <1>1, <1>3 DEF Rounds
<1>5. k.wake = call[c].wake /\ k.until = call[c].until
  BY <1>1 DEF Calls
<1>6. Paced("gate", k, now) /\ InTime("gate", k, now)
  BY <1>2, <1>5 DEF Paced, InTime
<1>7. call' = [call EXCEPT ![c] = k]
  BY Zenon DEF Wake
<1>9. out' = [out EXCEPT ![c] = out[c]] /\ out[c] \in Results \cup {None}
  <2>1. out' = out /\ out \in [Callers -> Results \cup {None}]
    BY DEF IInv, CallersOK, Wake
  <2> QED BY <2>1
<1> HIDE DEF k
<1>8. LocalsOK("gate", k, now)
  BY <1>3, <1>4, <1>6 DEF LocalsOK
<1> QED BY <1>3, <1>7, <1>8, <1>9, CallerStep DEF IInv, Wake, Places

\* Time passes: what was in time stays in time.
LEMMA TickOK ==
  ASSUME IInv, Tick
  PROVE  IInv'
<1>1. now \in Nat /\ now' \in 0..MaxTime /\ now' = now + 1
  BY DEF IInv, StoreOK, Tick
<1>2. ASSUME NEW c \in Callers PROVE LocalsOK(pc[c], call[c], now')
  <2>1. LocalsOK(pc[c], call[c], now)
    BY DEF IInv, CallersOK
  <2> QED BY <1>1, <2>1 DEF LocalsOK, Paced, InTime, Calls
<1>3. \A c \in Callers : LocalsOK(pc'[c], call'[c], now')
  BY <1>2 DEF Tick
<1>4. CallersOK'
  BY <1>3 DEF IInv, CallersOK, Tick
<1>5. StoreOK'
  BY <1>1 DEF IInv, StoreOK, Tick
<1> QED BY <1>4, <1>5 DEF IInv

----------------------------------------------------------------------------
\* No call is under way and nothing is cached at first.
LEMMA InitOK == Init => IInv
<1> SUFFICES ASSUME Init PROVE IInv
  OBVIOUS
<1>1. CallersOK
  BY DEF Init, CallersOK, Places, LocalsOK
<1>2. StoreOK
  BY DEF Init, StoreOK
<1> QED BY <1>1, <1>2 DEF IInv

\* The clock moves only in Tick; the response cache only takes JSON objects.
LEMMA StoreKept ==
  ASSUME IInv, NEW c \in Callers,
         (\E u \in Urls : GetJson(c, u) \/ GetBytes(c, u) \/ Probe(c, u)) \/ Loop(c)
  PROVE  StoreOK'
<1>1. CASE Body(c)
  <2>1. call[c].url \in Urls /\ now + CacheTtl \in Nat
    BY <1>1 DEF IInv, CallersOK, LocalsOK, StoreOK, Body, Calls
  <2> QED BY <1>1, <2>1 DEF IInv, StoreOK, Body, Finish, Bodies
<1>2. CASE ~ Body(c)
  <2>1. UNCHANGED <<now, cache>>
    BY <1>2 DEF GetJson, GetBytes, Probe, Refuse, Enter, Loop, GiveUp, Gate, Open, Transport,
                Status, Wake, Finish, Failed
  <2> QED BY <2>1 DEF IInv, StoreOK
<1> QED BY <1>1, <1>2

\* Every step preserves the invariant, reader by reader and place by place.
LEMMA NextOK == ResolverAssumption /\ IInv /\ [Next]_vars => IInv'
<1> SUFFICES ASSUME ResolverAssumption, IInv, [Next]_vars PROVE IInv'
  OBVIOUS
<1>1. ASSUME NEW c \in Callers, NEW u \in Urls, GetJson(c, u) \/ GetBytes(c, u) \/ Probe(c, u)
      PROVE  IInv'
  BY <1>1, ReadersOK, StoreKept DEF IInv
<1>2. ASSUME NEW c \in Callers, Loop(c) PROVE IInv'
  <2>2. CallersOK'
    <3>0. CASE GiveUp(c)
      <4>1. PICK r \in Results : Finish(c, r)
        BY <3>0 DEF GiveUp, Results
      <4> QED BY <4>1, FinishOK DEF IInv
    <3>1. CASE Gate(c)
      BY <3>1, GateOK
    <3>2. CASE Open(c)
      BY <3>2, OpenOK, ResolverAssumption
    <3>3. CASE Transport(c) \/ Body(c) \/ Status(c)
      BY <3>3, RepliesOK
    <3>4. CASE Wake(c)
      BY <3>4, WakeOK
    <3> QED BY <1>2, <3>0, <3>1, <3>2, <3>3, <3>4 DEF Loop
  <2> QED BY <1>2, <2>2, StoreKept DEF IInv
<1>3. CASE Tick
  BY <1>3, TickOK
<1>4. CASE UNCHANGED vars
  BY <1>4 DEF vars, IInv, CallersOK, StoreOK
<1> QED BY <1>1, <1>2, <1>3, <1>4 DEF Next

\* So it holds in every state of every behaviour.
LEMMA Invariance == Spec => []IInv
<1>1. Init => IInv
  BY InitOK
<1>2. IInv /\ [Next]_vars => IInv'
  BY NextOK, ResolverAssumption
<1> QED BY <1>1, <1>2, PTL DEF Spec

\* A call's locals, the clock and the response cache keep their types: the
\* attempts never outnumber RetryPolicy.attempts.
THEOREM TypeCorrect == Spec => []TypeOK
<1>1. IInv => TypeOK
  BY DEF IInv, CallersOK, StoreOK, LocalsOK, TypeOK, Places
<1> QED BY <1>1, Invariance, PTL

\* deadline_s of a get_bytes call: no attempt begins once it is spent, and no
\* Retry-After is slept past it, for every deadline and every pace of retries.
THEOREM NothingOutlastsTheDeadline == Spec => []DeadlineHolds
<1>1. IInv => DeadlineHolds
  BY DEF IInv, CallersOK, LocalsOK, InTime, DeadlineHolds
<1> QED BY <1>1, Invariance, PTL

\* _open_stream's choice of an address: k attempts of a call reach k different
\* addresses of the host until each has had its turn, however the resolver
\* orders its answers.
THEOREM AttemptsGoRound == Spec => []ReachesEveryAddress
<1>1. IInv => ReachesEveryAddress
  <2> SUFFICES ASSUME IInv, NEW c \in Callers, pc[c] # "idle"
               PROVE  Cardinality(Range(call[c].log)) =
                        IF Len(call[c].log) <= Cardinality(AddressSet)
                        THEN Len(call[c].log) ELSE Cardinality(AddressSet)
    BY DEF ReachesEveryAddress
  <2>1. call[c].log \in Seq(AddressSet) /\ Rounds(call[c])
    BY DEF IInv, CallersOK, LocalsOK, Calls
  <2>2. Len(call[c].log) \in Nat /\ Range(call[c].log) \subseteq AddressSet
    BY <2>1 DEF Range
  <2>3. IsFiniteSet(AddressSet) /\ Cardinality(AddressSet) \in Nat
    BY AddressesAreFinite, ResolverAssumption
  <2>4. CASE Cardinality(Range(call[c].log)) = Len(call[c].log)
    <3>1. Len(call[c].log) <= Cardinality(AddressSet)
      BY <2>2, <2>3, <2>4, FS_Subset
    <3> QED BY <2>4, <3>1
  <2>5. CASE Range(call[c].log) = AddressSet /\ Len(call[c].log) >= Cardinality(AddressSet)
    BY <2>2, <2>3, <2>5
  <2> QED BY <2>1, <2>4, <2>5 DEF Rounds
<1> QED BY <1>1, Invariance, PTL

\* What a step does for a caller: another caller's step and the clock's leave
\* it alone.
LEMMA OthersStay ==
  ASSUME IInv, [Next]_vars, NEW c \in Callers
  PROVE  \/ out'[c] = out[c] /\ pc'[c] = pc[c]
         \/ \E u \in Urls : GetJson(c, u) \/ GetBytes(c, u) \/ Probe(c, u)
         \/ Loop(c)
<1>1. ASSUME NEW d \in Callers, d # c, NEW u \in Urls,
             GetJson(d, u) \/ GetBytes(d, u) \/ Probe(d, u)
      PROVE  out'[c] = out[c] /\ pc'[c] = pc[c]
  BY <1>1 DEF IInv, CallersOK, GetJson, GetBytes, Probe, Refuse, Enter
<1>2. ASSUME NEW d \in Callers, d # c, Loop(d)
      PROVE  out'[c] = out[c] /\ pc'[c] = pc[c]
  <2>1. ASSUME NEW r, Finish(d, r) PROVE out'[c] = out[c] /\ pc'[c] = pc[c]
    BY <1>2, <2>1 DEF IInv, CallersOK, Finish
  <2>2. ASSUME NEW why, Failed(d, why) PROVE out'[c] = out[c] /\ pc'[c] = pc[c]
    BY <1>2, <2>2 DEF IInv, CallersOK, Failed
  <2>3. CASE GiveUp(d) \/ Body(d) \/ Status(d) \/ Transport(d)
    BY <2>1, <2>2, <2>3 DEF GiveUp, Body, Status, Transport
  <2>4. CASE Gate(d)
    BY <1>2, <2>1, <2>4 DEF IInv, CallersOK, Gate
  <2>5. CASE Open(d)
    BY <1>2, <2>1, <2>2, <2>5 DEF IInv, CallersOK, Open
  <2>6. CASE Wake(d)
    BY <1>2, <2>6 DEF IInv, CallersOK, Wake
  <2> QED BY <1>2, <2>3, <2>4, <2>5, <2>6 DEF Loop
<1>3. CASE Tick \/ UNCHANGED vars
  BY <1>3 DEF Tick, vars
<1> QED BY <1>1, <1>2, <1>3 DEF Next

\* The expiry of the node list: no cached answer is served at or after it,
\* and a request is sent only on a reading of the clock before it that was
\* taken after the last sleep, whatever another thread does meanwhile.
THEOREM NothingIsSentPastExpiry == Spec => NothingPastExpiry
<1> DEFINE Step(c) ==
      /\ pc[c] = "idle" /\ out'[c] = "cached" /\ out[c] # "cached" => now < ValidUntil
      /\ pc[c] = "open" /\ pc'[c] = "wire"
           => call[c].gate < ValidUntil /\ call[c].gate >= call[c].wake
<1>1. ASSUME IInv, [Next]_vars, NEW c \in Callers PROVE Step(c)
  <2>1. pc[c] = "open" => call[c].gate < ValidUntil /\ call[c].gate >= call[c].wake
    BY <1>1 DEF IInv, CallersOK, LocalsOK, Paced, Calls
  <2>2. ASSUME pc[c] = "idle", out'[c] = "cached", out[c] # "cached" PROVE now < ValidUntil
    <3>1. ~ Loop(c)
      BY <2>2 DEF Loop, GiveUp, Gate, Open, Transport, Body, Status, Wake
    <3>2. PICK u \in Urls : GetJson(c, u) \/ GetBytes(c, u) \/ Probe(c, u)
      BY <1>1, <2>2, <3>1, OthersStay
    <3>3. ASSUME NEW r, Refuse(c, r) PROVE out'[c] = r
      BY <1>1, <3>3 DEF IInv, CallersOK, Refuse
    <3>4. ASSUME NEW k, NEW until, Enter(c, k, u, until) PROVE out'[c] = None
      BY <1>1, <3>4 DEF IInv, CallersOK, Enter
    <3>5. ~ Expired
      <4>1. None # "cached"
        BY DEF Results
      <4> QED BY <2>2, <3>2, <3>3, <3>4, <4>1 DEF GetJson, GetBytes, Probe
    <3> QED BY <1>1, <3>5 DEF IInv, StoreOK, Expired
  <2> QED BY <2>1, <2>2
<1>2. IInv /\ [Next]_vars => [\A c \in Callers : Step(c)]_vars
  BY <1>1
<1> QED BY <1>2, Invariance, PTL DEF Spec, NothingPastExpiry
=============================================================================
