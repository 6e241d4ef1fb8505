---------------------------- MODULE ChecksProofs ----------------------------
(***************************************************************************)
(* What the proofs about the verifiers need of Checks: a verifier that     *)
(* ends without an error has passed every one of its checks.  The smallest *)
(* and the largest of a set of numbers come first, which FirstError and    *)
(* "the last version that declares it" are defined by.                     *)
(***************************************************************************)
EXTENDS Checks, Integers, SequenceTheorems, WellFoundedInduction, TLAPS

\* A set of natural numbers that is not empty has a smallest element.
LEMMA MinOfNats ==
  ASSUME NEW S, S \subseteq Nat, S # {}
  PROVE  Min(S) \in S /\ \A n \in S : Min(S) <= n
<1>1. PICK x \in S : \A y \in S : ~ (<<y, x>> \in OpToRel(<, Nat))
  BY NatLessThanWellFounded, WFMin
<1>2. \A y \in S : x <= y
  <2>1. SUFFICES ASSUME NEW y \in S PROVE x <= y
    OBVIOUS
  <2>2. ~ (y < x)
    BY <1>1, <2>1, Zenon DEF OpToRel
  <2> QED BY <2>1, <2>2
<1> QED BY <1>1, <1>2, Zenon DEF Min

\* One that is bounded has a largest.
LEMMA MaxOfBounded ==
  ASSUME NEW S, NEW top \in Nat, S \subseteq 0..top, S # {}
  PROVE  Max(S) \in S /\ \A n \in S : n <= Max(S)
<1> DEFINE T == {top - n : n \in S}
<1>1. T \subseteq Nat /\ T # {}
  <2>1. \A n \in S : top - n \in Nat
    OBVIOUS
  <2>2. PICK n : n \in S
    OBVIOUS
  <2>3. top - n \in T
    BY <2>2
  <2> QED BY <2>1, <2>3
<1>2. Min(T) \in T /\ \A m \in T : Min(T) <= m
  BY <1>1, MinOfNats
<1>3. PICK x \in S : Min(T) = top - x
  BY <1>2
<1>4. \A n \in S : n <= x
  <2> SUFFICES ASSUME NEW n \in S PROVE n <= x
    OBVIOUS
  <2>1. top - n \in T
    OBVIOUS
  <2>2. top - x <= top - n
    BY <1>2, <1>3, <2>1
  <2> QED BY <2>2
<1>5. \A n \in S : x >= n
  BY <1>4
<1>6. Max(S) \in S /\ \A n \in S : Max(S) >= n
  BY <1>5, Zenon DEF Max
<1> QED BY <1>6

\* A row of checks, none of which calls its error "ok", ends with "ok" only
\* if each of them holds.
LEMMA FirstErrorOK ==
  ASSUME NEW n \in Nat, NEW checks, DOMAIN checks = 1..n,
         \A i \in 1..n : checks[i].err # "ok",
         FirstError(checks) = "ok"
  PROVE  \A i \in 1..n : checks[i].ok
<1> DEFINE bad == {i \in DOMAIN checks : ~ checks[i].ok}
<1>1. CASE bad = {}
  BY <1>1
<1>2. CASE bad # {}
  <2>1. Min(bad) \in bad
    BY <1>2, MinOfNats
  <2>2. FirstError(checks) = checks[Min(bad)].err
    BY <1>2 DEF FirstError
  <2> QED BY <2>1, <2>2
<1> QED BY <1>1, <1>2

\* And if each of them holds it ends with "ok".
LEMMA AllChecksOK ==
  ASSUME NEW n \in Nat, NEW checks, DOMAIN checks = 1..n, \A i \in 1..n : checks[i].ok
  PROVE  FirstError(checks) = "ok"
BY DEF FirstError

\* What a row of checks ends with is "ok" or the error of one of them.
LEMMA FirstErrorIsOne ==
  ASSUME NEW n \in Nat, NEW checks, DOMAIN checks = 1..n
  PROVE  FirstError(checks) = "ok" \/ \E i \in 1..n : FirstError(checks) = checks[i].err
<1> DEFINE bad == {i \in DOMAIN checks : ~ checks[i].ok}
<1>1. CASE bad = {}
  BY <1>1 DEF FirstError
<1>2. CASE bad # {}
  <2>1. Min(bad) \in bad
    BY <1>2, MinOfNats
  <2>2. FirstError(checks) = checks[Min(bad)].err
    BY <1>2 DEF FirstError
  <2> QED BY <2>1, <2>2
<1> QED BY <1>1, <1>2

\* Two rows, one after the other, end with "ok" only if all of both hold.
LEMMA TwoRowsOK ==
  ASSUME NEW S, NEW s \in Seq(S), NEW t \in Seq(S), \A c \in S : c.err # "ok",
         FirstError(s \o t) = "ok"
  PROVE  (\A i \in 1..Len(s) : s[i].ok) /\ (\A i \in 1..Len(t) : t[i].ok)
<1> DEFINE both == s \o t
           n == Len(both)
<1>1. /\ both \in Seq(S) /\ n = Len(s) + Len(t)
      /\ \A i \in 1..Len(s) + Len(t) :
           both[i] = IF i <= Len(s) THEN s[i] ELSE t[i - Len(s)]
  BY ConcatProperties
<1> HIDE DEF both
<1>2. n \in Nat /\ DOMAIN both = 1..n /\ \A i \in 1..n : both[i].err # "ok"
  BY <1>1
<1>3. \A i \in 1..n : both[i].ok
  BY <1>2, FirstErrorOK DEF both
<1>4. \A i \in 1..Len(s) : both[i] = s[i]
  BY <1>1
<1>5. \A i \in 1..Len(t) : both[Len(s) + i] = t[i] /\ Len(s) + i \in 1..n
  BY <1>1
<1> QED BY <1>1, <1>3, <1>4, <1>5

\* And if all of both hold they end with "ok".
LEMMA TwoRowsAllOK ==
  ASSUME NEW S, NEW s \in Seq(S), NEW t \in Seq(S),
         \A i \in 1..Len(s) : s[i].ok, \A i \in 1..Len(t) : t[i].ok
  PROVE  FirstError(s \o t) = "ok"
<1> DEFINE both == s \o t
           n == Len(both)
<1>1. /\ both \in Seq(S) /\ n = Len(s) + Len(t)
      /\ \A i \in 1..Len(s) + Len(t) :
           both[i] = IF i <= Len(s) THEN s[i] ELSE t[i - Len(s)]
  BY ConcatProperties
<1> HIDE DEF both
<1>2. n \in Nat /\ DOMAIN both = 1..n
  BY <1>1
<1>3. ASSUME NEW i \in 1..n PROVE both[i].ok
  <2>1. CASE i <= Len(s)
    <3>1. both[i] = s[i] /\ i \in 1..Len(s)
      BY <1>1, <2>1
    <3> QED BY <3>1, Zenon
  <2>2. CASE ~ (i <= Len(s))
    <3>1. both[i] = t[i - Len(s)] /\ i - Len(s) \in 1..Len(t)
      BY <1>1, <2>2
    <3> QED BY <3>1, Zenon
  <2> QED BY <2>1, <2>2
<1>4. FirstError(both) = "ok"
  BY <1>2, <1>3, AllChecksOK
<1> QED BY <1>4 DEF both

\* A verifier that runs another for each of several things and reports the
\* first error ends with "ok" only if each of them does.
LEMMA EachEndsOK ==
  ASSUME NEW n \in Nat, NEW each, DOMAIN each = 1..n,
         FirstError([i \in DOMAIN each |-> Check(each[i] = "ok", each[i])]) = "ok"
  PROVE  \A i \in 1..n : each[i] = "ok"
<1> DEFINE row == [i \in DOMAIN each |-> Check(each[i] = "ok", each[i])]
           bad == {i \in DOMAIN row : ~ row[i].ok}
<1>1. DOMAIN row = 1..n /\ \A i \in 1..n : row[i].ok = (each[i] = "ok") /\ row[i].err = each[i]
  BY DEF Check
<1> HIDE DEF row
<1>2. CASE bad = {}
  BY <1>1, <1>2
<1>3. CASE bad # {}
  <2>1. Min(bad) \in bad
    BY <1>1, <1>3, MinOfNats
  <2>2. FirstError(row) = row[Min(bad)].err
    BY <1>3 DEF FirstError
  <2> QED BY <1>1, <2>1, <2>2 DEF row
<1> QED BY <1>2, <1>3
=============================================================================
