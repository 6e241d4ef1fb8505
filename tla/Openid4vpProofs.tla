-------------------------- MODULE Openid4vpProofs ---------------------------
(***************************************************************************)
(* For every set of wallets, of credentials, of requests and of ways to    *)
(* call verify_vp_token: what it accepts was presented by the holder it    *)
(* was issued to, for this request; it answers the query, and nothing in   *)
(* it was hidden by withholding a disclosure; and an SD-JWT that is        *)
(* refused for its dates was bound to its holder.                          *)
(***************************************************************************)
EXTENDS Openid4vp, ChecksProofs

----------------------------------------------------------------------------
(***************************************************************************)
(* A row of checks that is put together from others ends as the first of   *)
(* them that does not end well.                                            *)
(***************************************************************************)
IsRow(s) == s \in Seq(Range(s)) /\ \A i \in DOMAIN s : s[i].err # "ok"

LEMMA RowShape ==
  ASSUME NEW s, IsRow(s)
  PROVE  /\ Len(s) \in Nat /\ DOMAIN s = 1..Len(s)
         /\ \A i \in 1..Len(s) : s[i].err # "ok"
BY DEF IsRow

\* Rows that follow one another are a row.
LEMMA RowsFollow ==
  ASSUME NEW s, NEW t, IsRow(s), IsRow(t)
  PROVE  /\ IsRow(s \o t)
         /\ Len(s \o t) = Len(s) + Len(t)
         /\ \A i \in 1..Len(s) : (s \o t)[i] = s[i]
         /\ \A i \in 1..Len(t) : (s \o t)[Len(s) + i] = t[i]
<1> DEFINE S == Range(s) \cup Range(t)
           both == s \o t
           n == Len(both)
<1>1. s \in Seq(S) /\ t \in Seq(S)
  BY DEF IsRow
<1>2. \A c \in S : c.err # "ok"
  BY Zenon DEF IsRow, Range
<1> HIDE DEF S
<1>3. /\ both \in Seq(S) /\ n = Len(s) + Len(t)
      /\ \A i \in 1..Len(s) + Len(t) :
           both[i] = IF i <= Len(s) THEN s[i] ELSE t[i - Len(s)]
  BY <1>1, ConcatProperties
<1> HIDE DEF both
<1>4. n \in Nat /\ DOMAIN both = 1..n /\ \A i \in 1..n : both[i] \in S
  BY <1>3
<1>5. both = [i \in 1..n |-> both[i]] /\ \A i \in 1..n : both[i] \in Range(both)
  BY <1>3, <1>4 DEF Range
<1>6. both \in Seq(Range(both))
  BY <1>4, <1>5
<1>7. \A i \in DOMAIN both : both[i].err # "ok"
  BY <1>2, <1>4, Zenon
<1>8. Len(s) \in Nat /\ Len(t) \in Nat
  BY <1>1
<1>9. \A i \in 1..Len(s) : both[i] = s[i]
  BY <1>3, <1>8
<1>10. \A i \in 1..Len(t) : both[Len(s) + i] = t[i]
  BY <1>3, <1>8
<1> QED BY <1>3, <1>6, <1>7, <1>9, <1>10, Zenon DEF both, IsRow

\* A row ends well exactly if all its checks hold.
LEMMA RowEndsWell ==
  ASSUME NEW s, IsRow(s)
  PROVE  FirstError(s) = "ok" <=> \A i \in DOMAIN s : s[i].ok
<1>1. Len(s) \in Nat /\ DOMAIN s = 1..Len(s) /\ \A i \in 1..Len(s) : s[i].err # "ok"
  BY RowShape
<1>2. FirstError(s) = "ok" => \A i \in 1..Len(s) : s[i].ok
  BY <1>1, FirstErrorOK
<1>3. (\A i \in 1..Len(s) : s[i].ok) => FirstError(s) = "ok"
  BY <1>1, AllChecksOK
<1> QED BY <1>1, <1>2, <1>3, Zenon

\* The first row that does not end well decides.
LEMMA FirstRowDecides ==
  ASSUME NEW s, NEW t, IsRow(s), IsRow(t)
  PROVE  FirstError(s \o t) = IF FirstError(s) = "ok" THEN FirstError(t) ELSE FirstError(s)
<1> DEFINE both == s \o t
           n == Len(s)
           m == Len(t)
           badS == {i \in DOMAIN s : ~ s[i].ok}
           badT == {i \in DOMAIN t : ~ t[i].ok}
           bad == {i \in DOMAIN both : ~ both[i].ok}
<1>1. n \in Nat /\ m \in Nat /\ DOMAIN s = 1..n /\ DOMAIN t = 1..m
  BY RowShape
<1>2. /\ IsRow(both) /\ Len(both) = n + m
      /\ \A i \in 1..n : both[i] = s[i]
      /\ \A i \in 1..m : both[n + i] = t[i]
  BY RowsFollow
<1>3. DOMAIN both = 1..(n + m)
  BY <1>2, RowShape
<1> HIDE DEF both, n, m
<1>4. CASE badS # {}
  <2>0. badS \subseteq Nat
    BY <1>1
  <2>1. Min(badS) \in badS /\ \A i \in badS : Min(badS) <= i
    BY <1>4, <2>0, MinOfNats
  <2>2. badS \subseteq bad
    <3> SUFFICES ASSUME NEW i \in badS PROVE i \in bad
      OBVIOUS
    <3>1. i \in 1..n /\ ~ s[i].ok
      BY <1>1
    <3>2. i \in DOMAIN both /\ both[i] = s[i]
      BY <1>1, <1>2, <1>3, <3>1
    <3> QED BY <3>1, <3>2, Zenon
  <2>3. bad # {} /\ bad \subseteq Nat
    BY <1>1, <1>3, <1>4, <2>2
  <2>4. Min(bad) \in bad /\ \A i \in bad : Min(bad) <= i
    BY <2>3, MinOfNats
  <2>5. Min(bad) <= Min(badS) /\ Min(badS) \in 1..n /\ Min(bad) \in 1..(n + m)
    BY <1>1, <1>3, <2>1, <2>2, <2>4
  <2>6. Min(bad) \in 1..n
    BY <1>1, <2>5
  <2>7. both[Min(bad)] = s[Min(bad)] /\ ~ s[Min(bad)].ok
    BY <1>2, <2>4, <2>6, Zenon
  <2>8. Min(bad) \in badS
    BY <1>1, <2>6, <2>7, Zenon
  <2>9. Min(badS) <= Min(bad)
    BY <2>1, <2>8
  <2>10. Min(bad) = Min(badS)
    BY <1>1, <2>5, <2>6, <2>9
  <2>11. FirstError(both) = both[Min(bad)].err
    BY <2>3 DEF FirstError
  <2>12. FirstError(s) = s[Min(badS)].err
    BY <1>4 DEF FirstError
  <2>13. FirstError(both) = FirstError(s)
    BY <2>7, <2>10, <2>11, <2>12
  <2>14. FirstError(s) # "ok"
    BY <2>1, <2>12, Zenon DEF IsRow
  <2> QED BY <2>13, <2>14 DEF both
<1>5. CASE badS = {} /\ badT = {}
  <2>1. FirstError(s) = "ok" /\ FirstError(t) = "ok"
    BY <1>5 DEF FirstError
  <2>2. \A i \in 1..(n + m) : both[i].ok
    <3> SUFFICES ASSUME NEW i \in 1..(n + m) PROVE both[i].ok
      OBVIOUS
    <3>1. CASE i \in 1..n
      BY <1>1, <1>2, <1>5, <3>1, Zenon
    <3>2. CASE i \notin 1..n
      <4>1. i - n \in 1..m /\ n + (i - n) = i
        BY <1>1, <3>2
      <4>2. both[i] = t[i - n]
        BY <1>2, <4>1
      <4> QED BY <1>1, <1>5, <4>1, <4>2, Zenon
    <3> QED BY <3>1, <3>2
  <2>3. FirstError(both) = "ok"
    BY <1>2, <1>3, <2>2, RowEndsWell
  <2> QED BY <2>1, <2>3 DEF both
<1>6. CASE badS = {} /\ badT # {}
  <2>0. badT \subseteq Nat
    BY <1>1
  <2>1. Min(badT) \in badT /\ \A i \in badT : Min(badT) <= i
    BY <1>6, <2>0, MinOfNats
  <2>2. Min(badT) \in 1..m
    BY <1>1, <2>1
  <2>3. n + Min(badT) \in 1..(n + m) /\ both[n + Min(badT)] = t[Min(badT)]
    BY <1>1, <1>2, <2>2
  <2>4. n + Min(badT) \in bad
    BY <1>3, <2>1, <2>3, Zenon
  <2>5. bad # {} /\ bad \subseteq Nat
    BY <1>1, <1>3, <2>4
  <2>6. Min(bad) \in bad /\ \A i \in bad : Min(bad) <= i
    BY <2>5, MinOfNats
  <2>7. Min(bad) <= n + Min(badT) /\ Min(bad) \in 1..(n + m)
    BY <1>3, <2>4, <2>6
  <2>8. Min(bad) \notin 1..n
    <3> SUFFICES ASSUME Min(bad) \in 1..n PROVE FALSE
      OBVIOUS
    <3>1. both[Min(bad)] = s[Min(bad)]
      BY <1>2
    <3> QED BY <1>1, <1>6, <2>6, <3>1, Zenon
  <2>9. Min(bad) - n \in 1..m /\ n + (Min(bad) - n) = Min(bad)
    BY <1>1, <2>7, <2>8
  <2>10. both[Min(bad)] = t[Min(bad) - n]
    BY <1>2, <2>9
  <2>11. Min(bad) - n \in badT
    BY <1>1, <2>6, <2>9, <2>10, Zenon
  <2>12. Min(badT) <= Min(bad) - n
    BY <2>1, <2>11
  <2>13. Min(bad) - n = Min(badT)
    BY <1>1, <2>2, <2>7, <2>9, <2>12
  <2>14. FirstError(both) = both[Min(bad)].err
    BY <2>5 DEF FirstError
  <2>15. FirstError(t) = t[Min(badT)].err
    BY <1>6 DEF FirstError
  <2>16. FirstError(both) = FirstError(t)
    BY <2>10, <2>13, <2>14, <2>15
  <2>17. FirstError(s) = "ok"
    BY <1>6 DEF FirstError
  <2> QED BY <2>16, <2>17 DEF both
<1> QED BY <1>4, <1>5, <1>6

\* Rows that are written out: each check holds if the row ends well, and
\* else the row ends with the error of one of them.
LEMMA RowOfOne ==
  ASSUME NEW a,
         "ok" \notin {a.err}
  PROVE  /\ IsRow(<<a>>)
         /\ FirstError(<<a>>) = "ok" <=> a.ok
         /\ FirstError(<<a>>) \in {"ok", a.err}
<1> DEFINE row == <<a>>
<1>1. DOMAIN row = 1..1 /\ row[1] = a
  OBVIOUS
<1>2. row \in Seq({a}) /\ Range(row) = {a}
  BY DEF Range
<1> HIDE DEF row
<1>3. \A i \in 1..1 : i = 1
  OBVIOUS
<1>4. \A i \in DOMAIN row : row[i].err # "ok"
  BY <1>1, <1>3, Zenon
<1>5. IsRow(row)
  BY <1>2, <1>4, Zenon DEF IsRow
<1>6. FirstError(row) = "ok" <=> \A i \in DOMAIN row : row[i].ok
  BY <1>5, RowEndsWell
<1>7. 1 \in 1..1 /\ 1 \in Nat
  OBVIOUS
<1>8. (\A i \in DOMAIN row : row[i].ok) <=> a.ok
  BY <1>1, <1>3, <1>7, Zenon
<1>9. FirstError(row) = "ok" \/ \E i \in 1..1 : FirstError(row) = row[i].err
  BY <1>1, <1>7, FirstErrorIsOne
<1>10. FirstError(row) \in {"ok", a.err}
  BY <1>1, <1>3, <1>9, Zenon
<1> QED BY <1>5, <1>6, <1>8, <1>10, Zenon DEF row

LEMMA RowOfTwo ==
  ASSUME NEW a, NEW b,
         "ok" \notin {a.err, b.err}
  PROVE  /\ IsRow(<<a, b>>)
         /\ FirstError(<<a, b>>) = "ok" <=>
              a.ok /\ b.ok
         /\ FirstError(<<a, b>>) \in {"ok", a.err, b.err}
<1> DEFINE row == <<a, b>>
<1>1. DOMAIN row = 1..2 /\ row[1] = a /\ row[2] = b
  OBVIOUS
<1>2. row \in Seq({a, b}) /\ Range(row) = {a, b}
  BY DEF Range
<1> HIDE DEF row
<1>3. \A i \in 1..2 : i = 1 \/ i = 2
  OBVIOUS
<1>4. \A i \in DOMAIN row : row[i].err # "ok"
  BY <1>1, <1>3, Zenon
<1>5. IsRow(row)
  BY <1>2, <1>4, Zenon DEF IsRow
<1>6. FirstError(row) = "ok" <=> \A i \in DOMAIN row : row[i].ok
  BY <1>5, RowEndsWell
<1>7. 1 \in 1..2 /\ 2 \in 1..2 /\ 2 \in Nat
  OBVIOUS
<1>8. (\A i \in DOMAIN row : row[i].ok) <=> a.ok /\ b.ok
  BY <1>1, <1>3, <1>7, Zenon
<1>9. FirstError(row) = "ok" \/ \E i \in 1..2 : FirstError(row) = row[i].err
  BY <1>1, <1>7, FirstErrorIsOne
<1>10. FirstError(row) \in {"ok", a.err, b.err}
  BY <1>1, <1>3, <1>9, Zenon
<1> QED BY <1>5, <1>6, <1>8, <1>10, Zenon DEF row

LEMMA RowOfThree ==
  ASSUME NEW a, NEW b, NEW c,
         "ok" \notin {a.err, b.err, c.err}
  PROVE  /\ IsRow(<<a, b, c>>)
         /\ FirstError(<<a, b, c>>) = "ok" <=> a.ok /\ b.ok /\ c.ok
         /\ FirstError(<<a, b, c>>) \in {"ok", a.err, b.err, c.err}
<1> DEFINE row == <<a, b, c>>
<1>1. DOMAIN row = 1..3 /\ row[1] = a /\ row[2] = b /\ row[3] = c
  OBVIOUS
<1>2. row \in Seq({a, b, c}) /\ Range(row) = {a, b, c}
  BY DEF Range
<1> HIDE DEF row
<1>3. \A i \in 1..3 : i = 1 \/ i = 2 \/ i = 3
  OBVIOUS
<1>4. \A i \in DOMAIN row : row[i].err # "ok"
  BY <1>1, <1>3, Zenon
<1>5. IsRow(row)
  BY <1>2, <1>4, Zenon DEF IsRow
<1>6. FirstError(row) = "ok" <=> \A i \in DOMAIN row : row[i].ok
  BY <1>5, RowEndsWell
<1>7. 1 \in 1..3 /\ 2 \in 1..3 /\ 3 \in 1..3 /\ 3 \in Nat
  OBVIOUS
<1>8. (\A i \in DOMAIN row : row[i].ok) <=> a.ok /\ b.ok /\ c.ok
  BY <1>1, <1>3, <1>7, Zenon
<1>9. FirstError(row) = "ok" \/ \E i \in 1..3 : FirstError(row) = row[i].err
  BY <1>1, <1>7, FirstErrorIsOne
<1>10. FirstError(row) \in {"ok", a.err, b.err, c.err}
  BY <1>1, <1>3, <1>9, Zenon
<1> QED BY <1>5, <1>6, <1>8, <1>10, Zenon DEF row

LEMMA RowOfFour ==
  ASSUME NEW a, NEW b, NEW c, NEW d,
         "ok" \notin {a.err, b.err, c.err, d.err}
  PROVE  /\ IsRow(<<a, b, c, d>>)
         /\ FirstError(<<a, b, c, d>>) = "ok" <=> a.ok /\ b.ok /\ c.ok /\ d.ok
         /\ FirstError(<<a, b, c, d>>) \in {"ok", a.err, b.err, c.err, d.err}
<1> DEFINE row == <<a, b, c, d>>
<1>1. DOMAIN row = 1..4 /\ row[1] = a /\ row[2] = b /\ row[3] = c /\ row[4] = d
  OBVIOUS
<1>2. row \in Seq({a, b, c, d}) /\ Range(row) = {a, b, c, d}
  BY DEF Range
<1> HIDE DEF row
<1>3. \A i \in 1..4 : i = 1 \/ i = 2 \/ i = 3 \/ i = 4
  OBVIOUS
<1>4. \A i \in DOMAIN row : row[i].err # "ok"
  BY <1>1, <1>3, Zenon
<1>5. IsRow(row)
  BY <1>2, <1>4, Zenon DEF IsRow
<1>6. FirstError(row) = "ok" <=> \A i \in DOMAIN row : row[i].ok
  BY <1>5, RowEndsWell
<1>7. 1 \in 1..4 /\ 2 \in 1..4 /\ 3 \in 1..4 /\ 4 \in 1..4 /\ 4 \in Nat
  OBVIOUS
<1>8. (\A i \in DOMAIN row : row[i].ok) <=> a.ok /\ b.ok /\ c.ok /\ d.ok
  BY <1>1, <1>3, <1>7, Zenon
<1>9. FirstError(row) = "ok" \/ \E i \in 1..4 : FirstError(row) = row[i].err
  BY <1>1, <1>7, FirstErrorIsOne
<1>10. FirstError(row) \in {"ok", a.err, b.err, c.err, d.err}
  BY <1>1, <1>3, <1>9, Zenon
<1> QED BY <1>5, <1>6, <1>8, <1>10, Zenon DEF row

LEMMA RowOfFive ==
  ASSUME NEW a, NEW b, NEW c, NEW d, NEW e,
         "ok" \notin {a.err, b.err, c.err, d.err, e.err}
  PROVE  /\ IsRow(<<a, b, c, d, e>>)
         /\ FirstError(<<a, b, c, d, e>>) = "ok" <=> a.ok /\ b.ok /\ c.ok /\ d.ok /\ e.ok
         /\ FirstError(<<a, b, c, d, e>>) \in {"ok", a.err, b.err, c.err, d.err, e.err}
<1> DEFINE row == <<a, b, c, d, e>>
<1>1. DOMAIN row = 1..5 /\ row[1] = a /\ row[2] = b /\ row[3] = c /\ row[4] = d /\ row[5] = e
  OBVIOUS
<1>2. row \in Seq({a, b, c, d, e}) /\ Range(row) = {a, b, c, d, e}
  BY DEF Range
<1> HIDE DEF row
<1>3. \A i \in 1..5 : i = 1 \/ i = 2 \/ i = 3 \/ i = 4 \/ i = 5
  OBVIOUS
<1>4. \A i \in DOMAIN row : row[i].err # "ok"
  BY <1>1, <1>3, Zenon
<1>5. IsRow(row)
  BY <1>2, <1>4, Zenon DEF IsRow
<1>6. FirstError(row) = "ok" <=> \A i \in DOMAIN row : row[i].ok
  BY <1>5, RowEndsWell
<1>7. 1 \in 1..5 /\ 2 \in 1..5 /\ 3 \in 1..5 /\ 4 \in 1..5 /\ 5 \in 1..5 /\ 5 \in Nat
  OBVIOUS
<1>8. (\A i \in DOMAIN row : row[i].ok) <=> a.ok /\ b.ok /\ c.ok /\ d.ok /\ e.ok
  BY <1>1, <1>3, <1>7, Zenon
<1>9. FirstError(row) = "ok" \/ \E i \in 1..5 : FirstError(row) = row[i].err
  BY <1>1, <1>7, FirstErrorIsOne
<1>10. FirstError(row) \in {"ok", a.err, b.err, c.err, d.err, e.err}
  BY <1>1, <1>3, <1>9, Zenon
<1> QED BY <1>5, <1>6, <1>8, <1>10, Zenon DEF row

LEMMA RowOfSix ==
  ASSUME NEW a, NEW b, NEW c, NEW d, NEW e, NEW f,
         "ok" \notin {a.err, b.err, c.err, d.err, e.err, f.err}
  PROVE  /\ IsRow(<<a, b, c, d, e, f>>)
         /\ FirstError(<<a, b, c, d, e, f>>) = "ok" <=> a.ok /\ b.ok /\ c.ok /\ d.ok /\ e.ok /\ f.ok
         /\ FirstError(<<a, b, c, d, e, f>>) \in {"ok", a.err, b.err, c.err, d.err, e.err, f.err}
<1> DEFINE row == <<a, b, c, d, e, f>>
<1>1. DOMAIN row = 1..6 /\ row[1] = a /\ row[2] = b /\ row[3] = c /\ row[4] = d /\ row[5] = e /\ row[6] = f
  OBVIOUS
<1>2. row \in Seq({a, b, c, d, e, f}) /\ Range(row) = {a, b, c, d, e, f}
  BY DEF Range
<1> HIDE DEF row
<1>3. \A i \in 1..6 : i = 1 \/ i = 2 \/ i = 3 \/ i = 4 \/ i = 5 \/ i = 6
  OBVIOUS
<1>4. \A i \in DOMAIN row : row[i].err # "ok"
  BY <1>1, <1>3, Zenon
<1>5. IsRow(row)
  BY <1>2, <1>4, Zenon DEF IsRow
<1>6. FirstError(row) = "ok" <=> \A i \in DOMAIN row : row[i].ok
  BY <1>5, RowEndsWell
<1>7. 1 \in 1..6 /\ 2 \in 1..6 /\ 3 \in 1..6 /\ 4 \in 1..6 /\ 5 \in 1..6 /\ 6 \in 1..6 /\ 6 \in Nat
  OBVIOUS
<1>8. (\A i \in DOMAIN row : row[i].ok) <=> a.ok /\ b.ok /\ c.ok /\ d.ok /\ e.ok /\ f.ok
  BY <1>1, <1>3, <1>7, Zenon
<1>9. FirstError(row) = "ok" \/ \E i \in 1..6 : FirstError(row) = row[i].err
  BY <1>1, <1>7, FirstErrorIsOne
<1>10. FirstError(row) \in {"ok", a.err, b.err, c.err, d.err, e.err, f.err}
  BY <1>1, <1>3, <1>9, Zenon
<1> QED BY <1>5, <1>6, <1>8, <1>10, Zenon DEF row

LEMMA RowOfEight ==
  ASSUME NEW a, NEW b, NEW c, NEW d, NEW e, NEW f, NEW g, NEW h,
         "ok" \notin {a.err, b.err, c.err, d.err, e.err, f.err, g.err, h.err}
  PROVE  /\ IsRow(<<a, b, c, d, e, f, g, h>>)
         /\ FirstError(<<a, b, c, d, e, f, g, h>>) = "ok" <=>
              a.ok /\ b.ok /\ c.ok /\ d.ok /\ e.ok /\ f.ok /\ g.ok /\ h.ok
         /\ FirstError(<<a, b, c, d, e, f, g, h>>) \in {"ok", a.err, b.err, c.err, d.err, e.err, f.err, g.err, h.err}
<1> DEFINE row == <<a, b, c, d, e, f, g, h>>
<1>1. DOMAIN row = 1..8 /\ row[1] = a /\ row[2] = b /\ row[3] = c /\ row[4] = d /\ row[5] = e /\ row[6] = f /\ row[7] = g /\ row[8] = h
  OBVIOUS
<1>2. row \in Seq({a, b, c, d, e, f, g, h}) /\ Range(row) = {a, b, c, d, e, f, g, h}
  BY DEF Range
<1> HIDE DEF row
<1>3. \A i \in 1..8 : i = 1 \/ i = 2 \/ i = 3 \/ i = 4 \/ i = 5 \/ i = 6 \/ i = 7 \/ i = 8
  OBVIOUS
<1>4. \A i \in DOMAIN row : row[i].err # "ok"
  BY <1>1, <1>3, Zenon
<1>5. IsRow(row)
  BY <1>2, <1>4, Zenon DEF IsRow
<1>6. FirstError(row) = "ok" <=> \A i \in DOMAIN row : row[i].ok
  BY <1>5, RowEndsWell
<1>7. 1 \in 1..8 /\ 2 \in 1..8 /\ 3 \in 1..8 /\ 4 \in 1..8 /\ 5 \in 1..8 /\ 6 \in 1..8 /\ 7 \in 1..8 /\ 8 \in 1..8 /\ 8 \in Nat
  OBVIOUS
<1>8. (\A i \in DOMAIN row : row[i].ok) <=> a.ok /\ b.ok /\ c.ok /\ d.ok /\ e.ok /\ f.ok /\ g.ok /\ h.ok
  BY <1>1, <1>3, <1>7, Zenon
<1>9. FirstError(row) = "ok" \/ \E i \in 1..8 : FirstError(row) = row[i].err
  BY <1>1, <1>7, FirstErrorIsOne
<1>10. FirstError(row) \in {"ok", a.err, b.err, c.err, d.err, e.err, f.err, g.err, h.err}
  BY <1>1, <1>3, <1>9, Zenon
<1> QED BY <1>5, <1>6, <1>8, <1>10, Zenon DEF row

----------------------------------------------------------------------------
(***************************************************************************)
(* SdJwt: verify() is a row of rows, of which only the temporal ones end   *)
(* with an expiry or a date that is to come.                               *)
(***************************************************************************)
LEMMA HeaderRow ==
  ASSUME NEW s
  PROVE  IsRow(HeaderChecks(s)) /\ FirstError(HeaderChecks(s)) \notin Temporal
<1> DEFINE a == Check(s.alg, "algorithm")
           b == Check(s.typ = None \/ s.typ = IetfTyp \/ s.typ \in W3cTyps, "typ")
           c == Check(s.genuine, "signature")
<1>1. a.err = "algorithm" /\ b.err = "typ" /\ c.err = "signature"
  BY DEF Check
<1>2. HeaderChecks(s) = <<a, b, c>>
  BY Zenon DEF HeaderChecks
<1> HIDE DEF a, b, c
<1> QED BY <1>1, <1>2, RowOfThree DEF Temporal

LEMMA IssuerRow ==
  ASSUME NEW s
  PROVE  IsRow(IssuerChecks(s)) /\ FirstError(IssuerChecks(s)) \notin Temporal
<1> DEFINE a == Check(HasIssuer(s), "issuer")
<1>1. a.err = "issuer"
  BY DEF Check
<1>2. IssuerChecks(s) = <<a>>
  BY Zenon DEF IssuerChecks
<1> HIDE DEF a
<1> QED BY <1>1, <1>2, RowOfOne DEF Temporal

\* The dates of a credential, by the claims that are there.
InTime(s, claims, t) ==
  /\ "exp" \in claims => t - s.exp < Leeway
  /\ "nbf" \in claims => s.nbf - t <= Leeway

InWindow(s, claims, t) ==
  /\ s.ctx # "none" /\ "validFrom" \in claims => s.from - t <= Leeway
  /\ s.ctx # "none" /\ "validUntil" \in claims => t - s.until <= Leeway

LEMMA TemporalRow ==
  ASSUME NEW s, NEW claims, NEW t
  PROVE  /\ IsRow(TemporalChecks(s, claims, t))
         /\ FirstError(TemporalChecks(s, claims, t)) = "ok" => InTime(s, claims, t)
<1> DEFINE a == Check("exp" \in claims => t - s.exp < Leeway, "expired")
           b == Check("nbf" \in claims => s.nbf - t <= Leeway, "notYet")
           c == Check("iat" \in claims => s.iat - t <= Leeway, "notYet")
<1>1. a.err = "expired" /\ b.err = "notYet" /\ c.err = "notYet"
  BY DEF Check
<1>2. /\ a.ok = ("exp" \in claims => t - s.exp < Leeway)
      /\ b.ok = ("nbf" \in claims => s.nbf - t <= Leeway)
  BY DEF Check
<1>3. TemporalChecks(s, claims, t) = <<a, b, c>>
  BY Zenon DEF TemporalChecks
<1> HIDE DEF a, b, c
<1>4. IsRow(<<a, b, c>>) /\ (FirstError(<<a, b, c>>) = "ok" <=> a.ok /\ b.ok /\ c.ok)
  BY <1>1, RowOfThree
<1> QED BY <1>2, <1>3, <1>4, Zenon DEF InTime

LEMMA WindowRow ==
  ASSUME NEW s, NEW claims, NEW t
  PROVE  /\ IsRow(WindowChecks(s, claims, t))
         /\ FirstError(WindowChecks(s, claims, t)) = "ok" => InWindow(s, claims, t)
<1> DEFINE a == Check(s.ctx # "none" /\ "validFrom" \in claims => s.from - t <= Leeway, "notYet")
           b == Check(s.ctx # "none" /\ "validUntil" \in claims => t - s.until <= Leeway, "expired")
<1>1. a.err = "notYet" /\ b.err = "expired"
  BY DEF Check
<1>2. /\ a.ok = (s.ctx # "none" /\ "validFrom" \in claims => s.from - t <= Leeway)
      /\ b.ok = (s.ctx # "none" /\ "validUntil" \in claims => t - s.until <= Leeway)
  BY DEF Check
<1>3. WindowChecks(s, claims, t) = <<a, b>>
  BY Zenon DEF WindowChecks
<1> HIDE DEF a, b
<1>4. IsRow(<<a, b>>) /\ (FirstError(<<a, b>>) = "ok" <=> a.ok /\ b.ok)
  BY <1>1, RowOfTwo
<1> QED BY <1>2, <1>3, <1>4, Zenon DEF InWindow

\* A declared status was looked up, where that is asked for.
StatusSeen(s, claims) ==
  "status" \in claims /\ (call.statuses \/ call.requireStatus) => ~ s.revoked

LEMMA StatusRow ==
  ASSUME NEW s, NEW claims
  PROVE  /\ IsRow(StatusChecks(s, claims)) /\ FirstError(StatusChecks(s, claims)) \notin Temporal
         /\ FirstError(StatusChecks(s, claims)) = "ok" => StatusSeen(s, claims)
<1> DEFINE a == Check("status" \in claims /\ call.statuses => ~ s.revoked, "revoked")
           b == Check("status" \in claims /\ call.requireStatus => call.statuses, "status")
<1>1. a.err = "revoked" /\ b.err = "status"
  BY DEF Check
<1>2. /\ a.ok = ("status" \in claims /\ call.statuses => ~ s.revoked)
      /\ b.ok = ("status" \in claims /\ call.requireStatus => call.statuses)
  BY DEF Check
<1>3. StatusChecks(s, claims) = <<a, b>>
  BY Zenon DEF StatusChecks
<1> HIDE DEF a, b
<1>4. /\ IsRow(<<a, b>>) /\ (FirstError(<<a, b>>) = "ok" <=> a.ok /\ b.ok)
      /\ FirstError(<<a, b>>) \in {"ok", a.err, b.err}
  BY <1>1, RowOfTwo
<1>5. FirstError(<<a, b>>) \notin Temporal
  BY <1>1, <1>4 DEF Temporal
<1> QED BY <1>2, <1>3, <1>4, <1>5, Zenon DEF StatusSeen

LEMMA UnpackRow ==
  ASSUME NEW s, NEW shown
  PROVE  IsRow(UnpackChecks(s, shown))
<1> DEFINE a == Check(Cardinality(Range(shown)) = Len(shown), "duplicate")
           b == Check(\A x \in Used(s, shown) : s.disc[x].depth <= MaxDepth, "depth")
           c == Check(~ Overwrites(s, shown), "overwrite")
           d == Check(Range(shown) \subseteq Used(s, shown), "unreferenced")
           e == Check(\A n \in Placed(s, shown) : ~ Refused(n, s.ctx # "none"), "disclosed")
<1>1. /\ a.err = "duplicate" /\ b.err = "depth" /\ c.err = "overwrite"
      /\ d.err = "unreferenced" /\ e.err = "disclosed"
  BY DEF Check
<1>2. UnpackChecks(s, shown) = <<a, b, c, d, e>>
  BY Zenon DEF UnpackChecks
<1> HIDE DEF a, b, c, d, e
<1> QED BY <1>1, <1>2, RowOfFive

LEMMA TypRow ==
  ASSUME NEW s, NEW claims
  PROVE  IsRow(TypChecks(s, claims))
<1> DEFINE a == Check(s.typ = IetfTyp \/ s.ctx # "none", "notVcdm")
           b == Check(s.typ = None => claims \cap {"vc", "vp"} = {}, "vcClaim")
           c == Check(s.typ = IetfTyp \/ s.ctx = "first", "context")
           d == Check(s.typ = IetfTyp \/ ("type" \in claims /\ s.credential), "type")
           e == Check(s.typ = IetfTyp => "vct" \in claims, "vct")
<1>1. /\ a.err = "notVcdm" /\ b.err = "vcClaim" /\ c.err = "context"
      /\ d.err = "type" /\ e.err = "vct"
  BY DEF Check
<1>2. TypChecks(s, claims) = <<a, b, c, d, e>>
  BY Zenon DEF TypChecks
<1> HIDE DEF a, b, c, d, e
<1> QED BY <1>1, <1>2, RowOfFive

LEMMA PayloadRow ==
  ASSUME NEW s, NEW shown, NEW aud, NEW t
  PROVE  /\ IsRow(PayloadChecks(s, shown, aud, t))
         /\ FirstError(PayloadChecks(s, shown, aud, t)) = "ok" => InWindow(s, Claims(s, shown), t)
<1> DEFINE claims == Claims(s, shown)
           a == Check(AudienceOK(s, claims, aud), "audience")
           c == Check(s.ctx # "none" => s.consistent, "conflict")
           d == Check(s.aka # "bad", "aka")
           Y == TypChecks(s, claims)
           T == TemporalChecks(s, claims, t)
           A == <<a>>
           W == WindowChecks(s, claims, t)
           L == <<c, d>>
           first == (Y \o T) \o A
<1>1. a.err = "audience" /\ c.err = "conflict" /\ d.err = "aka"
  BY DEF Check
<1>2. PayloadChecks(s, shown, aud, t) = (first \o W) \o L
  BY Zenon DEF PayloadChecks
<1>3. IsRow(Y) /\ IsRow(T)
  BY TypRow, TemporalRow
<1>4. IsRow(W) /\ (FirstError(W) = "ok" => InWindow(s, claims, t))
  BY WindowRow, Zenon
<1> HIDE DEF a, c, d, claims
<1>5. IsRow(A) /\ IsRow(L)
  BY <1>1, RowOfOne, RowOfTwo
<1> HIDE DEF Y, T, A, W, L
<1>6. IsRow(first)
  BY <1>3, <1>5, RowsFollow
<1> HIDE DEF first
<1>7. /\ IsRow(first \o W)
      /\ FirstError(first \o W) = IF FirstError(first) = "ok" THEN FirstError(W) ELSE FirstError(first)
  BY <1>4, <1>6, RowsFollow, FirstRowDecides
<1>8. /\ IsRow((first \o W) \o L)
      /\ FirstError((first \o W) \o L) =
           IF FirstError(first \o W) = "ok" THEN FirstError(L) ELSE FirstError(first \o W)
  BY <1>5, <1>7, RowsFollow, FirstRowDecides
<1>9. FirstError((first \o W) \o L) = "ok" => FirstError(W) = "ok"
  BY <1>7, <1>8
<1> QED BY <1>2, <1>4, <1>8, <1>9, Zenon DEF claims

\* What a Key Binding JWT that was checked says of its presentation.
BoundTo(p, aud, nonce, t) ==
  /\ p.kb # None /\ aud # None /\ nonce # None
  /\ p.kb.key = p.sd.cnf
  /\ t - p.kb.iat <= KbMaxAge + Leeway
  /\ p.kb.aud = aud /\ p.kb.nonce = nonce
  /\ p.kb.over = <<p.sd, p.shown>>

LEMMA KbRow ==
  ASSUME NEW p, NEW aud, NEW nonce, NEW t
  PROVE  /\ IsRow(KbChecks(p, aud, nonce, t)) /\ FirstError(KbChecks(p, aud, nonce, t)) \notin Temporal
         /\ FirstError(KbChecks(p, aud, nonce, t)) = "ok" =>
              /\ p.kb.key = p.sd.cnf /\ Fresh(p.kb.iat, t)
              /\ aud # None => p.kb.aud = aud
              /\ nonce # None => p.kb.nonce = nonce
              /\ p.kb.over = <<p.sd, p.shown>>
<1> DEFINE a == Check(p.kb.typed, "kbHeader")
           b == Check("cnf" \in p.sd.plain, "cnf")
           c == Check(p.kb.key = p.sd.cnf, "kbSignature")
           d == Check(Fresh(p.kb.iat, t), "kbAge")
           e == Check(p.kb.exp # None => t - p.kb.exp < Leeway, "kbWindow")
           f == Check(aud # None => p.kb.aud = aud, "kbAudience")
           g == Check(nonce # None => p.kb.nonce = nonce, "kbNonce")
           h == Check(p.kb.over = <<p.sd, p.shown>>, "kbHash")
           row == <<a, b, c, d, e, f, g, h>>
<1>1. /\ a.err = "kbHeader" /\ b.err = "cnf" /\ c.err = "kbSignature" /\ d.err = "kbAge"
      /\ e.err = "kbWindow" /\ f.err = "kbAudience" /\ g.err = "kbNonce" /\ h.err = "kbHash"
  BY DEF Check
<1>2. /\ c.ok = (p.kb.key = p.sd.cnf) /\ d.ok = Fresh(p.kb.iat, t)
      /\ f.ok = (aud # None => p.kb.aud = aud) /\ g.ok = (nonce # None => p.kb.nonce = nonce)
      /\ h.ok = (p.kb.over = <<p.sd, p.shown>>)
  BY DEF Check
<1>3. KbChecks(p, aud, nonce, t) = row
  BY Zenon DEF KbChecks
<1> HIDE DEF a, b, c, d, e, f, g, h
<1>4. /\ IsRow(row)
      /\ FirstError(row) = "ok" <=> a.ok /\ b.ok /\ c.ok /\ d.ok /\ e.ok /\ f.ok /\ g.ok /\ h.ok
      /\ FirstError(row) \in {"ok", a.err, b.err, c.err, d.err, e.err, f.err, g.err, h.err}
  BY <1>1, RowOfEight
<1> HIDE DEF row
<1>5. FirstError(row) \notin Temporal
  BY <1>1, <1>4 DEF Temporal
<1> QED BY <1>2, <1>3, <1>4, <1>5, Zenon

LEMMA KeyBindingRow ==
  ASSUME NEW p, NEW aud, NEW nonce, NEW required, NEW t
  PROVE  /\ IsRow(KeyBindingChecks(p, aud, nonce, required, t))
         /\ FirstError(KeyBindingChecks(p, aud, nonce, required, t)) \notin Temporal
         /\ FirstError(KeyBindingChecks(p, aud, nonce, required, t)) = "ok" /\ required =>
              BoundTo(p, aud, nonce, t)
<1> DEFINE a == Check(required => aud # None /\ nonce # None, "unbound")
           b == Check(required => p.kb # None, "noKb")
           c == Check(p.kb # None => (aud = None) = (nonce = None), "halfBound")
           head == <<a, b, c>>
           tail == IF p.kb = None THEN <<>> ELSE KbChecks(p, aud, nonce, t)
<1>1. a.err = "unbound" /\ b.err = "noKb" /\ c.err = "halfBound"
  BY DEF Check
<1>2. a.ok = (required => aud # None /\ nonce # None) /\ b.ok = (required => p.kb # None)
  BY DEF Check
<1>3. KeyBindingChecks(p, aud, nonce, required, t) = head \o tail
  BY Zenon DEF KeyBindingChecks
<1> HIDE DEF a, b, c
<1>4. /\ IsRow(head) /\ (FirstError(head) = "ok" <=> a.ok /\ b.ok /\ c.ok)
      /\ FirstError(head) \in {"ok", a.err, b.err, c.err}
  BY <1>1, RowOfThree
<1>5. FirstError(head) \notin Temporal
  BY <1>1, <1>4 DEF Temporal
<1>6. IsRow(<<>>) /\ FirstError(<<>>) = "ok"
  <2>1. <<>> \in Seq(Range(<<>>))
    BY DEF Range
  <2>2. IsRow(<<>>)
    BY <2>1 DEF IsRow
  <2> QED BY <2>2, RowEndsWell
<1>7. IsRow(tail) /\ FirstError(tail) \notin Temporal
  <2>1. CASE p.kb = None
    BY <1>6, <2>1 DEF Temporal
  <2>2. CASE p.kb # None
    <3>1. tail = KbChecks(p, aud, nonce, t)
      BY <2>2
    <3>2. IsRow(KbChecks(p, aud, nonce, t)) /\ FirstError(KbChecks(p, aud, nonce, t)) \notin Temporal
      BY KbRow
    <3> HIDE DEF tail
    <3> QED BY <3>1, <3>2
  <2> QED BY <2>1, <2>2
<1>8. ASSUME FirstError(tail) = "ok", p.kb # None
      PROVE  FirstError(KbChecks(p, aud, nonce, t)) = "ok"
  BY <1>8
<1> HIDE DEF head, tail
<1>9. IsRow(head \o tail)
  BY <1>4, <1>7, RowsFollow
<1>10. FirstError(head \o tail) = IF FirstError(head) = "ok" THEN FirstError(tail) ELSE FirstError(head)
  BY <1>4, <1>7, FirstRowDecides
<1>11. FirstError(head \o tail) \notin Temporal
  BY <1>5, <1>7, <1>10
<1>12. ASSUME FirstError(head \o tail) = "ok", required
       PROVE  BoundTo(p, aud, nonce, t)
  <2>1. FirstError(head) = "ok" /\ FirstError(tail) = "ok"
    BY <1>10, <1>12
  <2>2. a.ok /\ b.ok
    BY <1>4, <2>1
  <2>3. aud # None /\ nonce # None /\ p.kb # None
    BY <1>2, <1>12, <2>2, Zenon
  <2>4. FirstError(KbChecks(p, aud, nonce, t)) = "ok"
    BY <1>8, <2>1, <2>3
  <2>5. /\ p.kb.key = p.sd.cnf /\ Fresh(p.kb.iat, t)
        /\ aud # None => p.kb.aud = aud
        /\ nonce # None => p.kb.nonce = nonce
        /\ p.kb.over = <<p.sd, p.shown>>
    BY <2>4, KbRow, Zenon
  <2> QED BY <2>3, <2>5, Zenon DEF BoundTo, Fresh
<1> QED BY <1>3, <1>9, <1>11, <1>12, Zenon

\* verify(): where binding is required, what ends well or with one of the
\* dates was bound; what ends well is within its dates, by the claims in the
\* clear and, of a VCDM payload, by all that were presented.
LEMMA VerifyRow ==
  ASSUME NEW p, NEW aud, NEW nonce, NEW required, NEW t
  PROVE  /\ IsRow(VerifyChecks(p, aud, nonce, required, t))
         /\ FirstError(VerifyChecks(p, aud, nonce, required, t)) \in {"ok"} \cup Temporal /\ required =>
              BoundTo(p, aud, nonce, t)
         /\ FirstError(VerifyChecks(p, aud, nonce, required, t)) = "ok" =>
              InTime(p.sd, p.sd.plain, t) /\ InWindow(p.sd, Claims(p.sd, p.shown), t)
<1> DEFINE H == HeaderChecks(p.sd)
           I == IssuerChecks(p.sd)
           K == KeyBindingChecks(p, aud, nonce, required, t)
           T == TemporalChecks(p.sd, p.sd.plain, t)
           U == UnpackChecks(p.sd, p.shown)
           P == PayloadChecks(p.sd, p.shown, aud, t)
           R == U \o P
           Bound == ((I \o K) \o T) \o R
           Hosted == ((T \o I) \o R) \o K
           D(s, u) == IF FirstError(s) = "ok" THEN FirstError(u) ELSE FirstError(s)
           Good == InTime(p.sd, p.sd.plain, t) /\ InWindow(p.sd, Claims(p.sd, p.shown), t)
           Fine == {"ok"} \cup Temporal
<1>1. /\ IsRow(H) /\ FirstError(H) \notin Temporal
      /\ IsRow(I) /\ FirstError(I) \notin Temporal
  BY HeaderRow, IssuerRow
<1>2. IsRow(K) /\ FirstError(K) \notin Temporal /\ (FirstError(K) = "ok" /\ required => BoundTo(p, aud, nonce, t))
  BY KeyBindingRow, Zenon
<1>3. IsRow(T) /\ (FirstError(T) = "ok" => InTime(p.sd, p.sd.plain, t))
  BY TemporalRow, Zenon
<1>4. IsRow(U) /\ IsRow(P) /\ (FirstError(P) = "ok" => InWindow(p.sd, Claims(p.sd, p.shown), t))
  BY UnpackRow, PayloadRow, Zenon
<1>5. VerifyChecks(p, aud, nonce, required, t) = H \o (IF required THEN Bound ELSE Hosted)
  BY Zenon DEF VerifyChecks
<1> HIDE DEF H, I, K, T, U, P
<1>6. IsRow(R) /\ (FirstError(R) = "ok" => FirstError(P) = "ok")
  BY <1>4, RowsFollow, FirstRowDecides
<1> HIDE DEF R
<1>7. /\ IsRow(I \o K) /\ FirstError(I \o K) = D(I, K)
      /\ IsRow(T \o I) /\ FirstError(T \o I) = D(T, I)
  BY <1>1, <1>2, <1>3, RowsFollow, FirstRowDecides
<1>8. /\ IsRow((I \o K) \o T) /\ FirstError((I \o K) \o T) = D(I \o K, T)
      /\ IsRow((T \o I) \o R) /\ FirstError((T \o I) \o R) = D(T \o I, R)
  BY <1>3, <1>1, <1>6, <1>7, RowsFollow, FirstRowDecides
<1>9. /\ IsRow(Bound) /\ FirstError(Bound) = D((I \o K) \o T, R)
      /\ IsRow(Hosted) /\ FirstError(Hosted) = D((T \o I) \o R, K)
  BY <1>2, <1>6, <1>8, RowsFollow, FirstRowDecides
<1>10. ASSUME FirstError(Bound) \in Fine PROVE FirstError(K) = "ok"
  BY <1>1, <1>2, <1>7, <1>8, <1>9, <1>10
<1>11. ASSUME FirstError(Bound) = "ok" PROVE FirstError(T) = "ok" /\ FirstError(R) = "ok"
  BY <1>7, <1>8, <1>9, <1>11
<1>12. ASSUME FirstError(Hosted) = "ok" PROVE FirstError(T) = "ok" /\ FirstError(R) = "ok"
  BY <1>7, <1>8, <1>9, <1>12
<1>13. FirstError(T) = "ok" /\ FirstError(R) = "ok" => Good
  BY <1>3, <1>4, <1>6, Zenon
<1> HIDE DEF Bound, Hosted, Good
<1>14. /\ IsRow(H \o Bound) /\ FirstError(H \o Bound) = D(H, Bound)
       /\ IsRow(H \o Hosted) /\ FirstError(H \o Hosted) = D(H, Hosted)
  BY <1>1, <1>9, RowsFollow, FirstRowDecides
<1>15. /\ IsRow(VerifyChecks(p, aud, nonce, required, t))
       /\ FirstError(VerifyChecks(p, aud, nonce, required, t)) \in Fine /\ required => BoundTo(p, aud, nonce, t)
       /\ FirstError(VerifyChecks(p, aud, nonce, required, t)) = "ok" => Good
  <2>1. CASE required
    <3>1. VerifyChecks(p, aud, nonce, required, t) = H \o Bound
      BY <1>5, <2>1, Zenon
    <3>2. FirstError(H \o Bound) \in Fine => FirstError(Bound) \in Fine
      BY <1>1, <1>14
    <3>3. FirstError(H \o Bound) = "ok" => FirstError(Bound) = "ok"
      BY <1>14
    <3> QED BY <1>2, <1>10, <1>11, <1>13, <1>14, <2>1, <3>1, <3>2, <3>3, Zenon
  <2>2. CASE ~ required
    <3>1. VerifyChecks(p, aud, nonce, required, t) = H \o Hosted
      BY <1>5, <2>2, Zenon
    <3>2. FirstError(H \o Hosted) = "ok" => FirstError(Hosted) = "ok"
      BY <1>14
    <3> QED BY <1>12, <1>13, <1>14, <2>2, <3>1, <3>2, Zenon
  <2> QED BY <2>1, <2>2, Zenon
<1> QED BY <1>15, Zenon DEF Good

\* The pipeline around it, which looks the status up last.
LEMMA SdPipelineEnds ==
  ASSUME NEW p, NEW aud, NEW nonce, NEW required, NEW t,
         NEW e, e = SdPipeline(p, aud, nonce, required, t)
  PROVE  /\ e \in {"ok"} \cup Temporal /\ required => BoundTo(p, aud, nonce, t)
         /\ e = "ok" => /\ InTime(p.sd, p.sd.plain, t) /\ InWindow(p.sd, p.sd.plain, t)
                        /\ StatusSeen(p.sd, p.sd.plain)
<1> DEFINE I == IssuerChecks(p.sd)
           V == VerifyChecks(p, aud, nonce, required, t)
           claims == Claims(p.sd, p.shown)
           S == StatusChecks(p.sd, claims)
           D(s, u) == IF FirstError(s) = "ok" THEN FirstError(u) ELSE FirstError(s)
           Fine == {"ok"} \cup Temporal
<1>1. IsRow(I) /\ FirstError(I) \notin Temporal
  BY IssuerRow
<1>2. /\ IsRow(V)
      /\ FirstError(V) \in Fine /\ required => BoundTo(p, aud, nonce, t)
      /\ FirstError(V) = "ok" => InTime(p.sd, p.sd.plain, t) /\ InWindow(p.sd, claims, t)
  BY VerifyRow, Zenon
<1>3. /\ IsRow(S) /\ FirstError(S) \notin Temporal
      /\ FirstError(S) = "ok" => StatusSeen(p.sd, claims)
  BY StatusRow, Zenon
<1>4. e = FirstError((I \o V) \o S)
  BY Zenon DEF SdPipeline
<1>5. /\ StatusSeen(p.sd, claims) => StatusSeen(p.sd, p.sd.plain)
      /\ InWindow(p.sd, claims, t) => InWindow(p.sd, p.sd.plain, t)
  BY Zenon DEF Claims, StatusSeen, InWindow
<1> HIDE DEF I, V, S, claims
<1>6. IsRow(I \o V) /\ FirstError(I \o V) = D(I, V)
  BY <1>1, <1>2, RowsFollow, FirstRowDecides
<1>7. e = D(I \o V, S)
  BY <1>3, <1>4, <1>6, FirstRowDecides
<1>8. e \in Fine => FirstError(V) \in Fine
  BY <1>1, <1>3, <1>6, <1>7
<1>9. e = "ok" => FirstError(V) = "ok" /\ FirstError(S) = "ok"
  BY <1>6, <1>7
<1> QED BY <1>2, <1>3, <1>5, <1>8, <1>9, Zenon

----------------------------------------------------------------------------
(***************************************************************************)
(* What each lane has seen to when it ends well.                           *)
(***************************************************************************)
LEMMA AudienceIsMine ==
  ASSUME NEW q, NEW p, EffectiveAudience(q, p) # None
  PROVE  EffectiveAudience(q, p) \in MyAudiences
<1> DEFINE origins == {OriginAud(o) : o \in call.origins}
           mine == PeekedAudience(q, p) \cap origins
<1>1. EffectiveAudience(q, p) = IF call.clientId # None THEN Client(call.clientId)
                                ELSE IF mine = {} THEN None ELSE CHOOSE a \in mine : TRUE
  BY Zenon DEF EffectiveAudience
<1>2. mine # {} => (CHOOSE a \in mine : TRUE) \in mine
  OBVIOUS
<1>3. MyAudiences = IF call.clientId # None THEN {Client(call.clientId)} ELSE origins
  BY Zenon DEF MyAudiences
<1>4. mine \subseteq origins
  OBVIOUS
<1> HIDE DEF mine, origins
<1> QED BY <1>1, <1>2, <1>3, <1>4

LEMMA EveryOneVerifies ==
  ASSUME NEW creds, NEW n \in Nat, DOMAIN creds = 1..n, NEW aud, NEW q, NEW t,
         AllVerify(creds, aud, q, t) = "ok"
  PROVE  \A i \in DOMAIN creds : Cascade(creds[i], aud, call.nonce, q.binding, t) = "ok"
<1> DEFINE each == [i \in DOMAIN creds |-> Cascade(creds[i], aud, call.nonce, q.binding, t)]
           errs == [i \in DOMAIN creds |-> Check(each[i] = "ok", each[i])]
<1>1. FirstError(errs) = "ok"
  BY Zenon DEF AllVerify
<1>2. DOMAIN each = 1..n /\ \A i \in DOMAIN creds : each[i] = Cascade(creds[i], aud, call.nonce, q.binding, t)
  OBVIOUS
<1>3. errs = [i \in DOMAIN each |-> Check(each[i] = "ok", each[i])]
  OBVIOUS
<1> HIDE DEF each, errs
<1>4. \A i \in 1..n : each[i] = "ok"
  BY <1>1, <1>2, <1>3, EachEndsOK
<1> QED BY <1>2, <1>4

LEMMA CarriedRow ==
  ASSUME NEW q, NEW creds, NEW holder, NEW aud, NEW t
  PROVE  /\ IsRow(CarriedChecks(q, creds, holder, aud, t))
         /\ FirstError(CarriedChecks(q, creds, holder, aud, t)) = "ok" =>
              /\ AllVerify(creds, aud, q, t) = "ok"
              /\ q.binding => \A i \in DOMAIN creds : HolderBound(creds[i], holder)
              /\ TypesMatch(q, creds)
<1> DEFINE a == Check(AllVerify(creds, aud, q, t) = "ok", "carried")
           b == Check(call.strict => \A i \in DOMAIN creds : Subject(creds[i]) = holder, "holder")
           c == Check(creds # <<>>, "malformed")
           d == Check(q.binding => \A i \in DOMAIN creds : HolderBound(creds[i], holder), "holder")
           e == Check(TypesMatch(q, creds), "type")
<1>1. /\ a.err = "carried" /\ b.err = "holder" /\ c.err = "malformed"
      /\ d.err = "holder" /\ e.err = "type"
  BY DEF Check
<1>2. /\ a.ok = (AllVerify(creds, aud, q, t) = "ok")
      /\ d.ok = (q.binding => \A i \in DOMAIN creds : HolderBound(creds[i], holder))
      /\ e.ok = TypesMatch(q, creds)
  BY DEF Check
<1>3. CarriedChecks(q, creds, holder, aud, t) = <<a, b, c, d, e>>
  BY Zenon DEF CarriedChecks
<1> HIDE DEF a, b, c, d, e
<1>4. /\ IsRow(<<a, b, c, d, e>>)
      /\ FirstError(<<a, b, c, d, e>>) = "ok" <=> a.ok /\ b.ok /\ c.ok /\ d.ok /\ e.ok
  BY <1>1, RowOfFive
<1> QED BY <1>2, <1>3, <1>4, Zenon

\* A signed presentation that was accepted: whose it is, for whom, and what
\* was made of the credentials in it.
SignedFor(q, p, aud, t) ==
  /\ p.form \in {"jwt", "json"} /\ "vp" \in p.says
  /\ aud \in p.aud /\ p.nonce = call.nonce
  /\ AllVerify(p.creds, aud, q, t) = "ok"
  /\ q.binding => \A i \in DOMAIN p.creds : HolderBound(p.creds[i], p.by)
  /\ TypesMatch(q, p.creds)

LEMMA JwtLaneEnds ==
  ASSUME NEW q, NEW p, NEW aud, NEW t, JwtLane(q, p, aud, t) = "ok"
  PROVE  SignedFor(q, p, aud, t)
<1> DEFINE a == Check(p.by = p.iss, "signature")
           b == Check(p.exp # None => t - p.exp < Leeway, "expired")
           c == Check(p.iat - t <= Leeway, "notYet")
           d == Check(aud \in p.aud, "audience")
           e == Check(p.nonce = call.nonce, "nonce")
           f == Check(p.holder \in {None, p.iss}, "holder")
           C == CarriedChecks(q, p.creds, p.iss, aud, t)
<1>1. /\ a.err = "signature" /\ b.err = "expired" /\ c.err = "notYet"
      /\ d.err = "audience" /\ e.err = "nonce" /\ f.err = "holder"
  BY DEF Check
<1>2. a.ok = (p.by = p.iss) /\ d.ok = (aud \in p.aud) /\ e.ok = (p.nonce = call.nonce)
  BY DEF Check
<1>3. p.form = "jwt" /\ "vp" \in p.says /\ FirstError(VpJwtChecks(p, aud, t) \o C) = "ok"
  BY DEF JwtLane
<1>4. VpJwtChecks(p, aud, t) = <<a, b, c, d, e, f>>
  BY Zenon DEF VpJwtChecks
<1>5. /\ IsRow(C)
      /\ FirstError(C) = "ok" =>
              /\ AllVerify(p.creds, aud, q, t) = "ok"
              /\ q.binding => \A i \in DOMAIN p.creds : HolderBound(p.creds[i], p.iss)
              /\ TypesMatch(q, p.creds)
  BY CarriedRow, Zenon
<1> HIDE DEF a, b, c, d, e, f, C
<1>6. /\ IsRow(<<a, b, c, d, e, f>>)
      /\ FirstError(<<a, b, c, d, e, f>>) = "ok" <=> a.ok /\ b.ok /\ c.ok /\ d.ok /\ e.ok /\ f.ok
  BY <1>1, RowOfSix
<1>7. FirstError(<<a, b, c, d, e, f>>) = "ok" /\ FirstError(C) = "ok"
  BY <1>3, <1>4, <1>5, <1>6, FirstRowDecides
<1>8. p.by = p.iss /\ aud \in p.aud /\ p.nonce = call.nonce
  BY <1>2, <1>6, <1>7, Zenon
<1> QED BY <1>3, <1>5, <1>7, <1>8, Zenon DEF SignedFor

LEMMA LdpLaneEnds ==
  ASSUME NEW q, NEW p, NEW aud, NEW t, LdpLane(q, p, aud, t) = "ok"
  PROVE  SignedFor(q, p, aud, t)
<1> DEFINE a == Check(p.wholeDocument, "unsupported")
           b == Check(p.nonce = call.nonce, "nonce")
           c == Check(aud \in p.aud, "audience")
           d == Check(p.exp # None => t - p.exp <= Leeway, "expired")
           e == Check(p.holder \in {None, p.by}, "holder")
           C == CarriedChecks(q, p.creds, p.by, aud, t)
<1>1. a.err = "unsupported" /\ b.err = "nonce" /\ c.err = "audience" /\ d.err = "expired" /\ e.err = "holder"
  BY DEF Check
<1>2. b.ok = (p.nonce = call.nonce) /\ c.ok = (aud \in p.aud)
  BY DEF Check
<1>3. p.form = "json" /\ "vp" \in p.says /\ FirstError(<<a, b, c, d, e>> \o C) = "ok"
  BY DEF LdpLane
<1>4. /\ IsRow(C)
      /\ FirstError(C) = "ok" =>
              /\ AllVerify(p.creds, aud, q, t) = "ok"
              /\ q.binding => \A i \in DOMAIN p.creds : HolderBound(p.creds[i], p.by)
              /\ TypesMatch(q, p.creds)
  BY CarriedRow, Zenon
<1> HIDE DEF a, b, c, d, e, C
<1>5. /\ IsRow(<<a, b, c, d, e>>)
      /\ FirstError(<<a, b, c, d, e>>) = "ok" <=> a.ok /\ b.ok /\ c.ok /\ d.ok /\ e.ok
  BY <1>1, RowOfFive
<1>6. FirstError(<<a, b, c, d, e>>) = "ok" /\ FirstError(C) = "ok"
  BY <1>3, <1>4, <1>5, FirstRowDecides
<1>7. aud \in p.aud /\ p.nonce = call.nonce
  BY <1>2, <1>5, <1>6, Zenon
<1> QED BY <1>3, <1>4, <1>6, <1>7, Zenon DEF SignedFor

LEMMA BareLaneEnds ==
  ASSUME NEW q, NEW p, NEW t, BareLane(q, p, t) = "ok"
  PROVE  TypesMatch(q, p.creds)
<1> DEFINE a == Check(~ call.strict, "holder")
           b == Check(Cascade(p.creds[1], None, None, FALSE, t) = "ok", "carried")
           c == Check(p.creds[1].cred.fmt = p.form, "malformed")
           d == Check(TypesMatch(q, p.creds), "type")
<1>1. a.err = "holder" /\ b.err = "carried" /\ c.err = "malformed" /\ d.err = "type"
  BY DEF Check
<1>2. d.ok = TypesMatch(q, p.creds)
  BY DEF Check
<1>3. FirstError(<<a, b, c, d>>) = "ok"
  BY Zenon DEF BareLane
<1> HIDE DEF a, b, c, d
<1>4. FirstError(<<a, b, c, d>>) = "ok" <=> a.ok /\ b.ok /\ c.ok /\ d.ok
  BY <1>1, RowOfFour
<1> QED BY <1>2, <1>3, <1>4, Zenon

LEMMA W3cLaneEnds ==
  ASSUME NEW q, NEW p, NEW t, W3cLane(q, p, t) = "ok"
  PROVE  /\ FirstError(ShapeChecks(p)) = "ok"
         /\ TypesMatch(q, p.creds)
         /\ \/ Bare(q, p) /\ ~ q.binding
            \/ \E aud \in MyAudiences : SignedFor(q, p, aud, t)
<1> DEFINE aud == EffectiveAudience(q, p)
<1>1. FirstError(ShapeChecks(p)) = "ok"
  BY DEF W3cLane
<1>2. CASE Bare(q, p)
  <2>1. ~ q.binding /\ BareLane(q, p, t) = "ok"
    BY <1>1, <1>2 DEF W3cLane
  <2> QED BY <1>1, <1>2, <2>1, BareLaneEnds
<1>3. CASE ~ Bare(q, p)
  <2>1. aud # None /\ (JwtLane(q, p, aud, t) = "ok" \/ LdpLane(q, p, aud, t) = "ok")
    BY <1>1, <1>3 DEF W3cLane
  <2>2. aud \in MyAudiences
    BY <2>1, AudienceIsMine
  <2>3. SignedFor(q, p, aud, t)
    BY <2>1, JwtLaneEnds, LdpLaneEnds
  <2>4. TypesMatch(q, p.creds)
    BY <2>3, Zenon DEF SignedFor
  <2> QED BY <1>1, <2>2, <2>3, <2>4
<1> QED BY <1>2, <1>3

LEMMA SdLaneEnds ==
  ASSUME NEW q, NEW p, NEW aud, NEW t, NEW e, e = SdLane(q, p, aud, t), e \in {"ok"} \cup Temporal
  PROVE  /\ p.form = "sd" /\ SdPipeline(p, aud, call.nonce, q.binding, t) = e
         /\ e = "ok" => q.want = None \/ p.sd.vct \in q.want
<1> DEFINE a == Check(p.sd.typ = IetfTyp, "malformed")
           b == Check(q.want = None \/ p.sd.vct \in q.want, "type")
           first == SdPipeline(p, aud, call.nonce, q.binding, t)
           row == <<a, b>>
<1>1. a.err = "malformed" /\ b.err = "type"
  BY DEF Check
<1>2. b.ok = (q.want = None \/ p.sd.vct \in q.want)
  BY DEF Check
<1>3. p.form = "sd" /\ e = IF first # "ok" THEN first ELSE FirstError(row)
  BY DEF SdLane, Temporal
<1> HIDE DEF a, b, first
<1>4. DOMAIN row = 1..2 /\ row[1] = a /\ row[2] = b /\ 2 \in Nat
  OBVIOUS
<1> HIDE DEF row
<1>5. FirstError(row) = "ok" => row[2].ok
  <2>1. \A i \in 1..2 : row[i].err # "ok"
    BY <1>1, <1>4
  <2>2. FirstError(row) = "ok" => \A i \in 1..2 : row[i].ok
    BY <1>4, <2>1, FirstErrorOK
  <2>3. 2 \in 1..2
    OBVIOUS
  <2> QED BY <2>2, <2>3, Zenon
<1>6. FirstError(row) \notin Temporal
  <2>1. FirstError(row) = "ok" \/ \E i \in 1..2 : FirstError(row) = row[i].err
    BY <1>4, FirstErrorIsOne
  <2> QED BY <1>1, <1>4, <2>1 DEF Temporal
<1>7. first = e /\ (e = "ok" => FirstError(row) = "ok")
  BY <1>3, <1>6 DEF Temporal
<1> QED BY <1>2, <1>3, <1>4, <1>5, <1>7, Zenon DEF first

LEMMA MdocLaneEnds ==
  ASSUME NEW q, NEW p, NEW n \in Nat, DOMAIN p.docs = 1..n, NEW t, MdocLane(q, p, t) = "ok"
  PROVE  /\ p.form = "mdoc"
         /\ \E o \in call.origins : \A i \in DOMAIN p.docs :
              /\ q.want = None \/ p.docs[i].doc.docType = q.want
              /\ DeviceAuthOK(p.docs[i], Transcript(OriginAud(o), call.nonce, call.thumbprint))
<1> DEFINE verdicts == {DeviceResponse(q, p.docs, o, t) : o \in call.origins}
<1>1. p.form = "mdoc" /\ Documents(q, p.docs, t) = "ok"
  BY DEF MdocLane
<1>2. "ok" \in verdicts
  <2>1. "ok" = IF verdicts \subseteq {"ok", "deviceAuth"}
               THEN IF "ok" \in verdicts THEN "ok" ELSE "deviceAuth"
               ELSE CHOOSE v \in verdicts \ {"ok", "deviceAuth"} : TRUE
    BY <1>1, Zenon DEF Documents
  <2> HIDE DEF verdicts
  <2>2. CASE verdicts \subseteq {"ok", "deviceAuth"}
    BY <2>1, <2>2
  <2>3. CASE ~ (verdicts \subseteq {"ok", "deviceAuth"})
    <3>1. verdicts \ {"ok", "deviceAuth"} # {}
      BY <2>3
    <3>2. (CHOOSE v \in verdicts \ {"ok", "deviceAuth"} : TRUE) \in verdicts \ {"ok", "deviceAuth"}
      BY <3>1
    <3> QED BY <2>1, <2>3, <3>2
  <2> QED BY <2>2, <2>3
<1>3. PICK o \in call.origins : DeviceResponse(q, p.docs, o, t) = "ok"
  BY <1>2
<1> DEFINE script == Transcript(OriginAud(o), call.nonce, call.thumbprint)
           each == [i \in DOMAIN p.docs |-> FirstError(DocumentChecks(q, p.docs[i], script, t))]
<1>4. FirstError([i \in DOMAIN p.docs |-> Check(each[i] = "ok", each[i])]) = "ok"
  BY <1>3, Zenon DEF DeviceResponse
<1>5. /\ DOMAIN each = 1..n
      /\ \A i \in DOMAIN p.docs : each[i] = FirstError(DocumentChecks(q, p.docs[i], script, t))
  OBVIOUS
<1>6. FirstError([i \in DOMAIN each |-> Check(each[i] = "ok", each[i])]) = "ok"
  BY <1>4
<1> HIDE DEF each
<1>7. \A i \in 1..n : each[i] = "ok"
  BY <1>5, <1>6, EachEndsOK
<1>8. ASSUME NEW k \in DOMAIN p.docs
      PROVE  /\ q.want = None \/ p.docs[k].doc.docType = q.want
             /\ DeviceAuthOK(p.docs[k], script)
  <2> DEFINE x == p.docs[k]
             a == Check(q.want = None \/ x.doc.docType = q.want, "type")
             b == Check(x.doc.sound, "mdoc")
             c == Check(t - x.doc.until <= Leeway, "expired")
             d == Check(x.items \subseteq x.doc.digests, "digest")
             e == Check(DeviceAuthOK(x, script), "deviceAuth")
  <2>1. /\ a.err = "type" /\ b.err = "mdoc" /\ c.err = "expired"
        /\ d.err = "digest" /\ e.err = "deviceAuth"
    BY DEF Check
  <2>2. a.ok = (q.want = None \/ x.doc.docType = q.want) /\ e.ok = DeviceAuthOK(x, script)
    BY DEF Check
  <2>3. DocumentChecks(q, x, script, t) = <<a, b, c, d, e>>
    BY Zenon DEF DocumentChecks
  <2>4. FirstError(DocumentChecks(q, x, script, t)) = "ok"
    BY <1>5, <1>7
  <2> HIDE DEF a, b, c, d, e
  <2>5. FirstError(<<a, b, c, d, e>>) = "ok" <=> a.ok /\ b.ok /\ c.ok /\ d.ok /\ e.ok
    BY <2>1, RowOfFive
  <2> QED BY <2>2, <2>3, <2>4, <2>5, Zenon
<1> QED BY <1>1, <1>3, <1>8

LEMMA VerifyOneEnds ==
  ASSUME NEW q, NEW p, NEW t, VerifyOne(q, p, t) = "ok"
  PROVE  \/ q.format = "mso_mdoc" /\ MdocLane(q, p, t) = "ok"
         \/ q.format \in {"jwt_vc_json", "ldp_vc"} /\ W3cLane(q, p, t) = "ok"
         \/ /\ q.format = "dc+sd-jwt" /\ EffectiveAudience(q, p) # None
            /\ SdLane(q, p, EffectiveAudience(q, p), t) = "ok"
BY DEF VerifyOne

\* The answer to one query.
LEMMA VerifyAnswerEnds ==
  ASSUME NEW q, NEW ps, NEW n \in Nat, DOMAIN ps = 1..n, NEW t, VerifyAnswer(q, ps, t) = "ok"
  PROVE  /\ ~ q.multiple => Len(ps) = 1
         /\ \A i \in DOMAIN ps : VerifyOne(q, ps[i], t) = "ok"
<1> DEFINE each == [i \in DOMAIN ps |-> VerifyOne(q, ps[i], t)]
           row == [i \in DOMAIN ps |-> Check(each[i] = "ok", each[i])]
<1>1. "ok" = IF ps = <<>> \/ (~ q.multiple /\ Len(ps) # 1) THEN "malformed" ELSE FirstError(row)
  BY Zenon DEF VerifyAnswer
<1>2. DOMAIN each = 1..n /\ \A i \in DOMAIN ps : each[i] = VerifyOne(q, ps[i], t)
  OBVIOUS
<1>3. row = [i \in DOMAIN each |-> Check(each[i] = "ok", each[i])]
  OBVIOUS
<1> HIDE DEF each, row
<1>4. (~ q.multiple => Len(ps) = 1) /\ FirstError(row) = "ok"
  BY <1>1
<1>5. \A i \in 1..n : each[i] = "ok"
  BY <1>2, <1>3, <1>4, EachEndsOK
<1> QED BY <1>2, <1>4, <1>5

----------------------------------------------------------------------------
(***************************************************************************)
(* What may reach the verifier, and who did what for it to be there.  A    *)
(* KB-JWT, the signature of a presentation and a DeviceAuth are each of    *)
(* somebody who presented, whatever was done to the rest on the way.       *)
(***************************************************************************)
SdArrived(p) ==
  /\ p.form = "sd"
  /\ p.kb # None => \E a \in acts : /\ p.kb.over = <<a.cred, a.shown>>
                                    /\ p.kb.key = a.who /\ p.kb.iat = a.at
                                    /\ p.kb.aud = Exchanges[a.for].aud
                                    /\ p.kb.nonce = Exchanges[a.for].nonce

VcArrived(e, p) ==
  /\ e.form = "vc" /\ e.cred \in Vcs
  /\ \E a \in acts : /\ a.cred = e.cred /\ a.shown = <<>> /\ a.who = p.by
                     /\ p.aud = {Exchanges[a.for].aud} /\ p.nonce = Exchanges[a.for].nonce

VpArrived(p) ==
  /\ p.form \in {"jwt", "json"} /\ p.says = {"vp"}
  /\ DOMAIN p.creds = 1..1
  /\ SdArrived(p.creds[1]) \/ VcArrived(p.creds[1], p)

DocArrived(d) ==
  /\ d.doc \in Mdocs
  /\ \E a \in acts : /\ a.cred \in Mdocs /\ d.auth.key = a.who
                     /\ d.auth.over = <<Transcript(Exchanges[a.for].aud, Exchanges[a.for].nonce,
                                                   Exchanges[a.for].thumbprint),
                                        a.cred.docType, a.shown>>

MdocArrived(p) ==
  /\ p.form = "mdoc"
  /\ \E n \in Nat : DOMAIN p.docs = 1..n
  /\ \A i \in DOMAIN p.docs : DocArrived(p.docs[i])

BareArrived(p) == \E c \in Vcs : p = BareVc(c)

Arrived(p) == SdArrived(p) \/ VpArrived(p) \/ MdocArrived(p) \/ BareArrived(p) \/ p \in Odd

LEMMA BareShape ==
  ASSUME NEW p, BareArrived(p)
  PROVE  /\ p.form \in {"jwt", "json"} /\ p.says = {"vc"}
         /\ DOMAIN p.creds = 1..1 /\ p.creds[1].form = "vc"
BY CatalogueAssumption DEF BareArrived, BareVc

\* An odd value has no shape.
LEMMA OddIsMalformed ==
  ASSUME NEW p \in Odd
  PROVE  p.form \in {"jwt", "json"} /\ FirstError(ShapeChecks(p)) # "ok"
<1> DEFINE a == Check(p.form \in {"jwt", "json"} => ~ {"vp", "vc"} \subseteq p.says, "malformed")
           b == Check(p.form = "jwt" => p.typ = None \/ {p.typ} = p.says, "malformed")
           c == Check(p.form = "json" => "vp" \in p.says \/ "enveloped" \notin p.says, "malformed")
<1>1. a.err = "malformed" /\ b.err = "malformed" /\ c.err = "malformed"
  BY DEF Check
<1>2. /\ a.ok = (p.form \in {"jwt", "json"} => ~ {"vp", "vc"} \subseteq p.says)
      /\ c.ok = (p.form = "json" => "vp" \in p.says \/ "enveloped" \notin p.says)
  BY DEF Check
<1>3. ShapeChecks(p) = <<a, b, c>>
  BY Zenon DEF ShapeChecks
<1> HIDE DEF a, b, c
<1>4. FirstError(<<a, b, c>>) = "ok" <=> a.ok /\ b.ok /\ c.ok
  BY <1>1, RowOfThree
<1>5. /\ p.form \in {"jwt", "json"}
      /\ {"vp", "vc"} \subseteq p.says \/ (p.form = "json" /\ p.says = {"enveloped"})
  BY CatalogueAssumption
<1>6. CASE {"vp", "vc"} \subseteq p.says
  BY <1>2, <1>3, <1>4, <1>5, <1>6, Zenon
<1>7. CASE p.form = "json" /\ p.says = {"enveloped"}
  <2>1. "vp" \notin p.says /\ "enveloped" \in p.says
    BY <1>7
  <2> QED BY <1>2, <1>3, <1>4, <1>5, <1>7, <2>1, Zenon
<1> QED BY <1>5, <1>6, <1>7

\* What the W3C lanes accept: a presentation that was made for this verifier
\* or, where no binding is asked for, a bare credential.
LEMMA W3cAccepts ==
  ASSUME NEW q, NEW p, NEW t, Arrived(p), W3cLane(q, p, t) = "ok"
  PROVE  /\ TypesMatch(q, p.creds)
         /\ \/ BareArrived(p) /\ ~ q.binding
            \/ /\ VpArrived(p)
               /\ \E aud \in MyAudiences : SignedFor(q, p, aud, t)
<1>1. /\ FirstError(ShapeChecks(p)) = "ok" /\ TypesMatch(q, p.creds)
      /\ \/ Bare(q, p) /\ ~ q.binding
         \/ \E aud \in MyAudiences : SignedFor(q, p, aud, t)
  BY W3cLaneEnds
<1>2. p \notin Odd
  BY <1>1, OddIsMalformed
<1>3. p.form \in {"jwt", "json"}
  BY <1>1, Zenon DEF Bare, SignedFor
<1>4. VpArrived(p) \/ BareArrived(p)
  BY <1>2, <1>3 DEF Arrived, SdArrived, MdocArrived
<1>5. VpArrived(p) => p.says = {"vp"}
  BY Zenon DEF VpArrived
<1>6. BareArrived(p) => p.says = {"vc"}
  BY BareShape
<1>7. Bare(q, p) => p.says = {"vc"}
  BY Zenon DEF Bare
<1>8. \A aud : SignedFor(q, p, aud, t) => "vp" \in p.says
  BY Zenon DEF SignedFor
<1> QED BY <1>1, <1>4, <1>5, <1>6, <1>7, <1>8

\* A bound SD-JWT was presented by its holder, here.
LEMMA SdIsPresented ==
  ASSUME NEW e, SdArrived(e), NEW aud \in MyAudiences, NEW t,
         BoundTo(e, aud, call.nonce, t), NEW c,
         c.cred = e.sd, c.shown = e.shown, c.owner = e.sd.cnf
  PROVE  PresentedBy(c, t)
<1>1. PICK a \in acts : /\ e.kb.over = <<a.cred, a.shown>>
                        /\ e.kb.key = a.who /\ e.kb.iat = a.at
                        /\ e.kb.aud = Exchanges[a.for].aud
                        /\ e.kb.nonce = Exchanges[a.for].nonce
  BY Zenon DEF SdArrived, BoundTo
<1>2. /\ e.kb.over = <<e.sd, e.shown>> /\ e.kb.key = e.sd.cnf
      /\ e.kb.aud = aud /\ e.kb.nonce = call.nonce /\ t - e.kb.iat <= KbMaxAge + Leeway
  BY Zenon DEF BoundTo
<1>3. a.cred = c.cred /\ a.shown = c.shown
  BY <1>1, <1>2
<1>4. a.who = c.owner /\ ForMe(a.for) /\ t - a.at <= KbMaxAge + Leeway
  BY <1>1, <1>2, Zenon DEF ForMe
<1>5. SameCredential(c.cred, a.cred)
  BY <1>3, Zenon DEF SameCredential
<1> QED BY <1>3, <1>4, <1>5, Zenon DEF PresentedBy

\* What is accepted where binding is asked for was presented by its holder.
LEMMA AcceptedIsPresented ==
  ASSUME NEW q, NEW p, NEW t, Arrived(p), VerifyOne(q, p, t) = "ok",
         q.binding \/ q.format = "mso_mdoc", NEW c \in Carried(p)
  PROVE  PresentedBy(c, t)
<1>1. CASE q.format = "mso_mdoc" /\ MdocLane(q, p, t) = "ok"
  <2>1. p.form = "mdoc"
    BY <1>1 DEF MdocLane
  <2>2. MdocArrived(p)
    BY <2>1, BareShape, OddIsMalformed DEF Arrived, SdArrived, VpArrived
  <2>3. PICK n \in Nat : DOMAIN p.docs = 1..n
    BY <2>2 DEF MdocArrived
  <2>4. PICK o \in call.origins : \A i \in DOMAIN p.docs :
              /\ q.want = None \/ p.docs[i].doc.docType = q.want
              /\ DeviceAuthOK(p.docs[i], Transcript(OriginAud(o), call.nonce, call.thumbprint))
    BY <1>1, <2>3, MdocLaneEnds
  <2>5. PICK i \in DOMAIN p.docs : c = [cred |-> p.docs[i].doc, shown |-> p.docs[i].ns,
                                        owner |-> p.docs[i].doc.device]
    BY <2>1 DEF Carried
  <2> DEFINE d == p.docs[i]
  <2>6. c.cred = d.doc /\ c.shown = d.ns /\ c.owner = d.doc.device
    BY <2>5
  <2>7. DeviceAuthOK(d, Transcript(OriginAud(o), call.nonce, call.thumbprint)) /\ DocArrived(d)
    BY <2>2, <2>4, Zenon DEF MdocArrived
  <2> HIDE DEF d
  <2>8. /\ d.auth.key = d.doc.device
        /\ d.auth.over = <<Transcript(OriginAud(o), call.nonce, call.thumbprint), d.doc.docType, d.ns>>
    BY <2>7, Zenon DEF DeviceAuthOK
  <2>9. PICK a \in acts :
            /\ a.cred \in Mdocs /\ d.auth.key = a.who
            /\ d.auth.over = <<Transcript(Exchanges[a.for].aud, Exchanges[a.for].nonce,
                                          Exchanges[a.for].thumbprint), a.cred.docType, a.shown>>
    BY <2>7, Zenon DEF DocArrived
  <2>10. /\ Exchanges[a.for].aud = OriginAud(o) /\ Exchanges[a.for].nonce = call.nonce
         /\ a.cred.docType = d.doc.docType /\ a.shown = d.ns
    BY <2>8, <2>9 DEF Transcript
  <2>11. ForMe(a.for)
    BY <1>1, <2>10 DEF ForMe, MyAudiences, MdocLane
  <2>12. /\ "disc" \notin DOMAIN c.cred
         /\ "docType" \in DOMAIN c.cred /\ "docType" \in DOMAIN a.cred
    BY <2>6, <2>7, <2>9, CatalogueAssumption DEF DocArrived
  <2>13. SameCredential(c.cred, a.cred)
    BY <2>6, <2>10, <2>12, Zenon DEF SameCredential
  <2> QED BY <2>6, <2>8, <2>9, <2>10, <2>11, <2>12, <2>13, Zenon DEF PresentedBy
<1>2. CASE q.format \in {"jwt_vc_json", "ldp_vc"} /\ W3cLane(q, p, t) = "ok"
  <2>1. q.binding
    BY <1>2
  <2>2. VpArrived(p)
    BY <1>2, <2>1, W3cAccepts
  <2>3. PICK aud \in MyAudiences : SignedFor(q, p, aud, t)
    BY <1>2, <2>1, W3cAccepts
  <2> DEFINE e == p.creds[1]
  <2>4. /\ DOMAIN p.creds = 1..1 /\ 1 \in DOMAIN p.creds /\ 1 \in Nat
        /\ p.form \in {"jwt", "json"}
        /\ SdArrived(e) \/ VcArrived(e, p)
    BY <2>2 DEF VpArrived
  <2>5. /\ aud \in p.aud /\ p.nonce = call.nonce
        /\ AllVerify(p.creds, aud, q, t) = "ok" /\ HolderBound(e, p.by)
    BY <2>1, <2>3, <2>4, Zenon DEF SignedFor
  <2>6. Cascade(e, aud, call.nonce, q.binding, t) = "ok"
    BY <2>4, <2>5, EveryOneVerifies
  <2>7. c = [cred |-> Embedded(e)[1], shown |-> Embedded(e)[2],
             owner |-> IF e.form = "sd" THEN e.sd.cnf ELSE e.cred.sub]
    <3>1. Carried(p) =
            {[cred |-> Embedded(p.creds[i])[1], shown |-> Embedded(p.creds[i])[2],
              owner |-> IF p.creds[i].form = "sd" THEN p.creds[i].sd.cnf
                        ELSE p.creds[i].cred.sub] : i \in DOMAIN p.creds}
      <4>1. p.form # "sd" /\ p.form # "mdoc"
        BY <2>4
      <4> QED BY <4>1 DEF Carried
    <3>2. PICK i \in DOMAIN p.creds :
             c = [cred |-> Embedded(p.creds[i])[1], shown |-> Embedded(p.creds[i])[2],
                  owner |-> IF p.creds[i].form = "sd" THEN p.creds[i].sd.cnf
                            ELSE p.creds[i].cred.sub]
      BY <3>1
    <3>3. i = 1
      BY <2>4
    <3> QED BY <3>2, <3>3
  <2> HIDE DEF e
  <2>8. CASE SdArrived(e)
    <3>1. e.form = "sd"
      BY <2>8 DEF SdArrived
    <3>2. c.cred = e.sd /\ c.shown = e.shown /\ c.owner = e.sd.cnf
      BY <2>7, <3>1 DEF Embedded
    <3>3. SdPipeline(e, aud, call.nonce, q.binding, t) = "ok"
      BY <2>6, <3>1 DEF Cascade
    <3>4. BoundTo(e, aud, call.nonce, t)
      BY <2>1, <3>3, SdPipelineEnds
    <3> QED BY <2>8, <3>2, <3>4, SdIsPresented
  <2>9. CASE VcArrived(e, p)
    <3>1. e.form = "vc" /\ e.cred \in Vcs
      BY <2>9, Zenon DEF VcArrived
    <3>2. c.cred = e.cred /\ c.shown = <<>> /\ c.owner = e.cred.sub
      BY <2>7, <3>1 DEF Embedded
    <3>3. e.cred.sub = p.by
      BY <2>5, <3>1 DEF HolderBound
    <3>4. PICK a \in acts : /\ a.cred = e.cred /\ a.shown = <<>> /\ a.who = p.by
                            /\ p.aud = {Exchanges[a.for].aud} /\ p.nonce = Exchanges[a.for].nonce
      BY <2>9, Zenon DEF VcArrived
    <3>5. aud = Exchanges[a.for].aud
      BY <2>5, <3>4
    <3>6. ForMe(a.for)
      BY <2>5, <3>4, <3>5, Zenon DEF ForMe
    <3>7. "disc" \notin DOMAIN c.cred
      BY <3>1, <3>2, CatalogueAssumption
    <3>8. SameCredential(c.cred, a.cred)
      BY <3>2, <3>4, Zenon DEF SameCredential
    <3> QED BY <3>2, <3>3, <3>4, <3>6, <3>7, <3>8, Zenon DEF PresentedBy
  <2> QED BY <2>4, <2>8, <2>9 DEF e
<1>3. CASE /\ q.format = "dc+sd-jwt" /\ EffectiveAudience(q, p) # None
           /\ SdLane(q, p, EffectiveAudience(q, p), t) = "ok"
  <2> DEFINE aud == EffectiveAudience(q, p)
  <2>1. q.binding /\ aud \in MyAudiences
    BY <1>3, AudienceIsMine
  <2>2. p.form = "sd" /\ SdPipeline(p, aud, call.nonce, q.binding, t) = "ok"
    BY <1>3, SdLaneEnds
  <2>3. BoundTo(p, aud, call.nonce, t)
    BY <2>1, <2>2, SdPipelineEnds
  <2>4. SdArrived(p)
    BY <2>2, BareShape, OddIsMalformed DEF Arrived, MdocArrived, VpArrived
  <2>5. c.cred = p.sd /\ c.shown = p.shown /\ c.owner = p.sd.cnf
    BY <2>2 DEF Carried
  <2> HIDE DEF aud
  <2> QED BY <2>1, <2>3, <2>4, <2>5, SdIsPresented
<1> QED BY <1>1, <1>2, <1>3, VerifyOneEnds, Zenon

\* Of the SD-JWTs a presentation is or embeds, what the issuer said in the
\* clear of their expiry and status has been held against them.
SdsOf(p) ==
  IF p.form = "sd" THEN {p}
  ELSE IF p.form = "mdoc" THEN {} ELSE {e \in Range(p.creds) : e.form = "sd"}

Stands(s, t) == InTime(s, s.plain, t) /\ InWindow(s, s.plain, t) /\ StatusSeen(s, s.plain)

LEMMA AcceptedStands ==
  ASSUME NEW q, NEW p, NEW t, Arrived(p), VerifyOne(q, p, t) = "ok", NEW e \in SdsOf(p)
  PROVE  Stands(e.sd, t)
<1>1. CASE q.format = "mso_mdoc" /\ MdocLane(q, p, t) = "ok"
  <2>1. p.form = "mdoc"
    BY <1>1 DEF MdocLane
  <2> QED BY <2>1 DEF SdsOf
<1>2. CASE q.format \in {"jwt_vc_json", "ldp_vc"} /\ W3cLane(q, p, t) = "ok"
  <2>1. CASE BareArrived(p)
    <3>1. p.form \notin {"sd", "mdoc"} /\ \A i \in DOMAIN p.creds : p.creds[i].form = "vc"
      BY <2>1, BareShape
    <3>2. e \in Range(p.creds) /\ e.form = "sd"
      BY <3>1 DEF SdsOf
    <3> QED BY <3>1, <3>2 DEF Range
  <2>2. CASE ~ BareArrived(p)
    <3>1. VpArrived(p)
      BY <1>2, <2>2, W3cAccepts
    <3>2. PICK aud \in MyAudiences : SignedFor(q, p, aud, t)
      BY <1>2, <2>2, W3cAccepts
    <3>3. DOMAIN p.creds = 1..1 /\ 1 \in Nat /\ p.form \notin {"sd", "mdoc"}
      BY <3>1 DEF VpArrived
    <3>4. AllVerify(p.creds, aud, q, t) = "ok"
      BY <3>2, Zenon DEF SignedFor
    <3>5. \A i \in DOMAIN p.creds : Cascade(p.creds[i], aud, call.nonce, q.binding, t) = "ok"
      BY <3>3, <3>4, EveryOneVerifies
    <3>6. e \in Range(p.creds) /\ e.form = "sd"
      BY <3>3 DEF SdsOf
    <3>7. Cascade(e, aud, call.nonce, q.binding, t) = "ok"
      BY <3>5, <3>6, Zenon DEF Range
    <3>8. SdPipeline(e, aud, call.nonce, q.binding, t) = "ok"
      BY <3>6, <3>7 DEF Cascade
    <3> QED BY <3>8, SdPipelineEnds DEF Stands
  <2> QED BY <2>1, <2>2
<1>3. CASE /\ q.format = "dc+sd-jwt" /\ EffectiveAudience(q, p) # None
           /\ SdLane(q, p, EffectiveAudience(q, p), t) = "ok"
  <2> DEFINE aud == EffectiveAudience(q, p)
  <2>1. p.form = "sd" /\ SdPipeline(p, aud, call.nonce, q.binding, t) = "ok"
    BY <1>3, SdLaneEnds
  <2>2. e = p
    BY <2>1 DEF SdsOf
  <2> QED BY <2>1, <2>2, SdPipelineEnds DEF Stands
<1> QED BY <1>1, <1>2, <1>3, VerifyOneEnds, Zenon

\* What is accepted is of a type the query names.
LEMMA AcceptedIsOfType ==
  ASSUME NEW q, NEW p, NEW t, Arrived(p), VerifyOne(q, p, t) = "ok", q.want # None
  PROVE  TypeOf(q, p)
<1>1. CASE q.format = "mso_mdoc" /\ MdocLane(q, p, t) = "ok"
  <2>1. p.form = "mdoc"
    BY <1>1 DEF MdocLane
  <2>2. MdocArrived(p)
    BY <2>1, BareShape, OddIsMalformed DEF Arrived, SdArrived, VpArrived
  <2>3. PICK n \in Nat : DOMAIN p.docs = 1..n
    BY <2>2 DEF MdocArrived
  <2>4. \A i \in DOMAIN p.docs : p.docs[i].doc.docType = q.want
    BY <1>1, <2>3, MdocLaneEnds
  <2> QED BY <1>1, <2>4 DEF TypeOf
<1>2. CASE q.format \in {"jwt_vc_json", "ldp_vc"} /\ W3cLane(q, p, t) = "ok"
  <2>1. TypesMatch(q, p.creds) /\ (BareArrived(p) \/ VpArrived(p))
    BY <1>2, W3cAccepts
  <2>2. DOMAIN p.creds = 1..1 /\ p.creds[1].form \in {"sd", "vc"}
    BY <2>1, BareShape DEF VpArrived, SdArrived, VcArrived
  <2>3. \A i \in DOMAIN p.creds :
          p.creds[i].form # "sd" /\ \E alt \in q.want : alt \subseteq p.creds[i].cred.types
    BY <2>1, Zenon DEF TypesMatch
  <2>4. \A i \in DOMAIN p.creds : p.creds[i].form = "vc"
    BY <2>2, <2>3
  <2>5. q.format # "dc+sd-jwt" /\ q.format # "mso_mdoc"
    BY <1>2
  <2> QED BY <2>3, <2>4, <2>5 DEF TypeOf
<1>3. CASE /\ q.format = "dc+sd-jwt" /\ EffectiveAudience(q, p) # None
           /\ SdLane(q, p, EffectiveAudience(q, p), t) = "ok"
  <2>1. p.form = "sd" /\ p.sd.vct \in q.want
    BY <1>3, SdLaneEnds
  <2> QED BY <1>3, <2>1 DEF TypeOf
<1> QED BY <1>1, <1>2, <1>3, VerifyOneEnds, Zenon

\* An SD-JWT that is refused for its dates was bound where binding is asked for.
LEMMA ExpiredIsPresented ==
  ASSUME NEW q, NEW p, NEW t, Arrived(p), VerifyOne(q, p, t) \in Temporal,
         q.format = "dc+sd-jwt", q.binding, NEW c \in Carried(p)
  PROVE  PresentedBy(c, t)
<1> DEFINE aud == EffectiveAudience(q, p)
           e == SdLane(q, p, aud, t)
<1>1. aud # None /\ e \in Temporal
  <2>1. VerifyOne(q, p, t) = IF aud = None THEN "audience" ELSE e
    BY DEF VerifyOne
  <2> HIDE DEF aud, e
  <2> QED BY <2>1 DEF Temporal
<1>2. aud \in MyAudiences
  BY <1>1, AudienceIsMine
<1>3. p.form = "sd" /\ SdPipeline(p, aud, call.nonce, q.binding, t) \in Temporal
  <2>1. e \in {"ok"} \cup Temporal
    BY <1>1
  <2>2. p.form = "sd" /\ SdPipeline(p, aud, call.nonce, q.binding, t) = e
    BY <2>1, SdLaneEnds
  <2> HIDE DEF aud, e
  <2> QED BY <1>1, <2>2
<1>4. BoundTo(p, aud, call.nonce, t)
  BY <1>3, SdPipelineEnds
<1>5. SdArrived(p)
  BY <1>3, BareShape, OddIsMalformed DEF Arrived, MdocArrived, VpArrived
<1>6. c.cred = p.sd /\ c.shown = p.shown /\ c.owner = p.sd.cnf
  BY <1>3 DEF Carried
<1> HIDE DEF aud
<1> QED BY <1>2, <1>4, <1>5, <1>6, SdIsPresented

----------------------------------------------------------------------------
(***************************************************************************)
(* The inductive invariant.                                                *)
(***************************************************************************)
\* What was made, with the fields that may be changed on the way.
SdMade(p) == SdArrived(p) /\ {"form", "sd", "shown", "kb"} \subseteq DOMAIN p

MdocMade(p) ==
  /\ p.form = "mdoc" /\ {"form", "docs"} \subseteq DOMAIN p
  /\ \E d : p.docs = <<d>> /\ DocArrived(d)

MadeOK(p) == SdMade(p) \/ VpArrived(p) \/ MdocMade(p)

\* issue() leaves what it asserts of expiry and status in the clear.
IssuedOK(s) ==
  /\ \A n \in {"status", "exp", "nbf"} : n \in Asserted(s) => n \in s.plain
  /\ s.ctx # "none" => \A n \in {"validFrom", "validUntil"} : n \in Asserted(s) => n \in s.plain

\* An entry of the vp_token.
EntryOK(a) ==
  /\ \E n \in Nat : DOMAIN a.ps = 1..n
  /\ \A i \in DOMAIN a.ps : Arrived(a.ps[i])

\* A result, as it was accepted.
ResultOK(r) ==
  LET q == call.dcql.queries[r.answer.id]
  IN  /\ r.answer.id \in DOMAIN call.dcql.queries /\ r.at \in Nat
      /\ q.binding \/ q.format = "mso_mdoc" =>
           \A i \in DOMAIN r.answer.ps : \A c \in Carried(r.answer.ps[i]) : PresentedBy(c, r.at)
      /\ ~ q.multiple => Len(r.answer.ps) = 1
      /\ q.want # None => \A i \in DOMAIN r.answer.ps : TypeOf(q, r.answer.ps[i])
      /\ \A i \in DOMAIN r.answer.ps : \A e \in SdsOf(r.answer.ps[i]) : Stands(e.sd, r.at)

AnsweredIds == {results[i].answer.id : i \in DOMAIN results}
LeftIds == {todo[i].id : i \in DOMAIN todo}

VpInv ==
  /\ now \in Nat
  /\ \A p \in made : MadeOK(p)
  /\ \A s \in wallet : IssuedOK(s)
  /\ todo # None => todo \in Seq(Range(todo)) /\ \A a \in Range(todo) : EntryOK(a)
  /\ results \in Seq(Range(results)) /\ \A r \in Range(results) : ResultOK(r)
  /\ todo # None /\ verdict = None => Complete(call.dcql, AnsweredIds \cup LeftIds)
  /\ verdict = "ok" => Complete(call.dcql, AnsweredIds)
  /\ verdict \in Temporal => todo # None /\ todo # <<>>

\* Nothing of this is undone by what is presented later.
LEMMA LaterActs ==
  ASSUME call' = call, acts \subseteq acts'
  PROVE  /\ \A p : SdArrived(p) => SdArrived(p)'
         /\ \A e, p : VcArrived(e, p) => VcArrived(e, p)'
         /\ \A d : DocArrived(d) => DocArrived(d)'
         /\ \A c, t : PresentedBy(c, t) => PresentedBy(c, t)'
<1>1. ASSUME NEW p, SdArrived(p) PROVE SdArrived(p)'
  BY <1>1 DEF SdArrived
<1>2. ASSUME NEW e, NEW p, VcArrived(e, p) PROVE VcArrived(e, p)'
  BY <1>2 DEF VcArrived
<1>3. ASSUME NEW d, DocArrived(d) PROVE DocArrived(d)'
  BY <1>3 DEF DocArrived
<1>4. \A x : ForMe(x) => ForMe(x)'
  BY DEF ForMe, MyAudiences, Client, OriginAud
<1>5. ASSUME NEW c, NEW t, PresentedBy(c, t) PROVE PresentedBy(c, t)'
  <2>1. PICK a \in acts :
          /\ SameCredential(c.cred, a.cred) /\ a.shown = c.shown /\ a.who = c.owner /\ ForMe(a.for)
          /\ "disc" \in DOMAIN c.cred => t - a.at <= KbMaxAge + Leeway
    BY <1>5, Zenon DEF PresentedBy
  <2>2. a \in acts' /\ ForMe(a.for)'
    BY <1>4, <2>1
  <2> QED BY <2>1, <2>2, Zenon DEF PresentedBy
<1> QED BY <1>1, <1>2, <1>3, <1>5

LEMMA LaterArrivals ==
  ASSUME call' = call, acts \subseteq acts'
  PROVE  /\ \A p : VpArrived(p) => VpArrived(p)'
         /\ \A p : MadeOK(p) => MadeOK(p)'
         /\ \A p : Arrived(p) => Arrived(p)'
<1>1. ASSUME NEW p, VpArrived(p) PROVE VpArrived(p)'
  BY <1>1, LaterActs DEF VpArrived
<1>2. ASSUME NEW p, SdMade(p) PROVE SdMade(p)'
  BY <1>2, LaterActs DEF SdMade
<1>3. ASSUME NEW p, MdocMade(p) PROVE MdocMade(p)'
  BY <1>3, LaterActs DEF MdocMade
<1>4. ASSUME NEW p, MdocArrived(p) PROVE MdocArrived(p)'
  BY <1>4, LaterActs DEF MdocArrived
<1>5. ASSUME NEW p, BareArrived(p) PROVE BareArrived(p)'
  BY <1>5 DEF BareArrived, BareVc
<1>6. \A p : MadeOK(p) => MadeOK(p)'
  BY <1>1, <1>2, <1>3, Zenon DEF MadeOK
<1>7. \A p : SdArrived(p) => SdArrived(p)'
  BY LaterActs
<1>8. ASSUME NEW p, Arrived(p) PROVE Arrived(p)'
  BY <1>1, <1>4, <1>5, <1>7, <1>8, Zenon DEF Arrived
<1> QED BY <1>1, <1>6, <1>8

LEMMA LaterEntries ==
  ASSUME call' = call, acts \subseteq acts'
  PROVE  /\ \A a : EntryOK(a) => EntryOK(a)'
         /\ \A r : ResultOK(r) => ResultOK(r)'
<1>1. ASSUME NEW a, EntryOK(a) PROVE EntryOK(a)'
  <2>1. \A p : Arrived(p) => Arrived(p)'
    BY LaterArrivals
  <2> QED BY <1>1, <2>1 DEF EntryOK
<1>2. ASSUME NEW r, ResultOK(r) PROVE ResultOK(r)'
  <2>1. \A c, t : PresentedBy(c, t) => PresentedBy(c, t)'
    BY LaterActs
  <2>2. \A q, p : TypeOf(q, p) => TypeOf(q, p)'
    BY DEF TypeOf
  <2>3. \A p : SdsOf(p)' = SdsOf(p) /\ Carried(p)' = Carried(p)
    BY DEF SdsOf, Carried, Embedded
  <2>4. \A s, t : Stands(s, t) => Stands(s, t)'
    BY DEF Stands, InTime, InWindow, StatusSeen
  <2> QED BY <1>2, <2>1, <2>2, <2>3, <2>4, Zenon DEF ResultOK
<1> QED BY <1>1, <1>2

\* What is not touched stays as it was.
LEMMA LaterInv ==
  ASSUME VpInv, call' = call, acts \subseteq acts', now' \in Nat,
         UNCHANGED <<todo, results, verdict>>,
         \A p \in made' : p \in made \/ MadeOK(p)',
         \A s \in wallet' : s \in wallet \/ IssuedOK(s)
  PROVE  VpInv'
<1>1. \A p \in made' : MadeOK(p)'
  BY LaterArrivals DEF VpInv
<1>2. \A s \in wallet' : IssuedOK(s)'
  BY Zenon DEF VpInv, IssuedOK, Asserted
<1>3. todo' # None => todo' \in Seq(Range(todo')) /\ \A a \in Range(todo') : EntryOK(a)'
  <2>1. \A a : EntryOK(a) => EntryOK(a)'
    BY LaterEntries
  <2>2. todo' = todo
    OBVIOUS
  <2> QED BY <2>1, <2>2, Zenon DEF VpInv
<1>4. results' \in Seq(Range(results')) /\ \A r \in Range(results') : ResultOK(r)'
  <2>1. \A r : ResultOK(r) => ResultOK(r)'
    BY LaterEntries
  <2>2. results' = results
    OBVIOUS
  <2> QED BY <2>1, <2>2, Zenon DEF VpInv
<1>5. AnsweredIds' = AnsweredIds /\ LeftIds' = LeftIds /\ verdict' = verdict /\ todo' = todo
  BY DEF AnsweredIds, LeftIds
<1>6. /\ todo' # None /\ verdict' = None => Complete(call.dcql, AnsweredIds \cup LeftIds)'
      /\ verdict' = "ok" => Complete(call.dcql, AnsweredIds)'
  BY <1>5, Zenon DEF VpInv, Complete
<1>7. verdict' \in Temporal => todo' # None /\ todo' # <<>>
  BY <1>5, Zenon DEF VpInv, Temporal
<1> QED BY <1>1, <1>2, <1>3, <1>4, <1>6, <1>7, Zenon DEF VpInv

\* What issue() makes.
LEMMA IssuedIsOK ==
  ASSUME NEW s, {"typ", "ctx", "plain", "disc"} \subseteq DOMAIN s,
         NEW names, Issuable(s, names)
  PROVE  IssuedOK(Issued(s, names))
<1> DEFINE new == [n \in names |-> [top |-> n, name |-> n, above |-> {}, depth |-> 1]]
           r == Issued(s, names)
<1>1. r = [s EXCEPT !.typ = IetfTyp, !.plain = s.plain \ names, !.disc = new]
  BY Zenon DEF Issued
<1>2. r.ctx = s.ctx /\ r.plain = s.plain \ names /\ r.disc = new
  BY <1>1
<1>3. DOMAIN new = names /\ \A n \in names : new[n].top = n
  OBVIOUS
<1> HIDE DEF new, r
<1>4. Asserted(r) \subseteq r.plain \cup names
  BY <1>2, <1>3 DEF Asserted
<1>5. \A n \in names : ~ Refused(n, s.ctx # "none")
  BY DEF Issuable
<1>6. "status" \notin names /\ "exp" \notin names /\ "nbf" \notin names
  BY <1>5 DEF Refused, NonDisclosable
<1>7. s.ctx # "none" => "validUntil" \notin names /\ "validFrom" \notin names
  BY <1>5 DEF Refused, VcdmValidity
<1>8. IssuedOK(r)
  BY <1>2, <1>4, <1>6, <1>7 DEF IssuedOK
<1> QED BY <1>8 DEF r

LEMMA IssueStep ==
  ASSUME VpInv, NEW i \in DOMAIN Templates, Issue(i)
  PROVE  VpInv'
<1>1. IssuedOK(Issued(Templates[i].claims, Templates[i].names))
  BY IssuedIsOK, CatalogueAssumption DEF Issue
<1>2. \A s \in wallet' : s \in wallet \/ IssuedOK(s)
  BY <1>1 DEF Issue
<1>3. UNCHANGED <<now, call, made, acts, todo, results, verdict>> /\ now \in Nat
  BY DEF Issue, VpInv
<1> QED BY <1>2, <1>3, LaterInv

\* A presentation is made: what it says of its maker is what is recorded.
LEMMA MadeStep ==
  ASSUME VpInv, NEW h, NEW x, NEW p, NEW c, NEW shown, Made(h, x, p, c, shown), MadeOK(p)'
  PROVE  VpInv'
<1>1. /\ UNCHANGED <<now, call, wallet, todo, results, verdict>> /\ made' = made \cup {p}
      /\ acts \subseteq acts'
  BY DEF Made
<1>2. now \in Nat
  BY DEF VpInv
<1> QED BY <1>1, <1>2, LaterInv

LEMMA PresentSdStep ==
  ASSUME VpInv, NEW h, NEW x, PresentSd(h, x)
  PROVE  VpInv'
<1> DEFINE Kb(s, shown) == KeyBinding(h, s, shown, Exchanges[x].aud, Exchanges[x].nonce, now)
           Slips(kb) == {kb} \cup (IF call.slips THEN {[kb EXCEPT !.typed = FALSE], [kb EXCEPT !.exp = now]}
                                  ELSE {})
<1>1. PICK s, shown : \E k \in Slips(Kb(s, shown)) :
        Made(h, x, [form |-> "sd", sd |-> s, shown |-> shown, kb |-> k], s, shown)
  BY Zenon DEF PresentSd
<1>2. PICK k \in Slips(Kb(s, shown)) :
        Made(h, x, [form |-> "sd", sd |-> s, shown |-> shown, kb |-> k], s, shown)
  BY <1>1
<1>3. PICK b : b = Kb(s, shown)
  OBVIOUS
<1>4. PICK p : p = [form |-> "sd", sd |-> s, shown |-> shown, kb |-> k]
  OBVIOUS
<1>5. PICK a : a = [who |-> h, for |-> x, cred |-> s, shown |-> shown, at |-> now]
  OBVIOUS
<1>6. Made(h, x, p, s, shown)
  BY <1>2, <1>4, Zenon
<1>7. a \in acts'
  BY <1>5, <1>6 DEF Made
<1>8. /\ b.over = <<a.cred, a.shown>> /\ b.key = a.who /\ b.iat = a.at
      /\ {"over", "key", "iat", "aud", "nonce", "typed", "exp"} \subseteq DOMAIN b
  BY <1>3, <1>5 DEF KeyBinding
<1>9. b.aud = Exchanges[a.for].aud /\ b.nonce = Exchanges[a.for].nonce
  BY <1>3, <1>5 DEF KeyBinding
<1>10. k.over = b.over /\ k.key = b.key /\ k.iat = b.iat /\ k.aud = b.aud /\ k.nonce = b.nonce
  <2>1. k = b \/ k = [b EXCEPT !.typed = FALSE] \/ k = [b EXCEPT !.exp = now]
    BY <1>2, <1>3
  <2> QED BY <1>8, <2>1
<1>11. p.form = "sd" /\ p.kb = k /\ {"form", "sd", "shown", "kb"} \subseteq DOMAIN p
  BY <1>4
<1>12. SdArrived(p)'
  BY <1>7, <1>8, <1>9, <1>10, <1>11, Zenon DEF SdArrived
<1>13. MadeOK(p)'
  BY <1>11, <1>12, Zenon DEF MadeOK, SdMade
<1> QED BY <1>6, <1>13, MadeStep

LEMMA PresentVpStep ==
  ASSUME VpInv, NEW h, NEW x, NEW form \in {"jwt", "json"}, PresentVp(h, x, form)
  PROVE  VpInv'
<1>1. \E e \in Embeddable, claimed \in Holders : \E exp :
        Made(h, x, [form |-> form, says |-> {"vp"}, typ |-> None, by |-> h, iss |-> claimed,
                    holder |-> claimed, wholeDocument |-> TRUE, aud |-> {Exchanges[x].aud},
                    nonce |-> Exchanges[x].nonce, iat |-> now, exp |-> exp, creds |-> <<e>>],
             Embedded(e)[1], Embedded(e)[2])
  BY Zenon DEF PresentVp
<1>1a. PICK e, claimed, exp :
        e \in Embeddable /\ Made(h, x,
             [form |-> form, says |-> {"vp"}, typ |-> None, by |-> h, iss |-> claimed,
              holder |-> claimed, wholeDocument |-> TRUE, aud |-> {Exchanges[x].aud},
              nonce |-> Exchanges[x].nonce, iat |-> now, exp |-> exp, creds |-> <<e>>],
             Embedded(e)[1], Embedded(e)[2])
  BY <1>1, Zenon
<1>2. PICK p : p = [form |-> form, says |-> {"vp"}, typ |-> None, by |-> h, iss |-> claimed,
                    holder |-> claimed, wholeDocument |-> TRUE, aud |-> {Exchanges[x].aud},
                    nonce |-> Exchanges[x].nonce, iat |-> now, exp |-> exp, creds |-> <<e>>]
  OBVIOUS
<1>3. Made(h, x, p, Embedded(e)[1], Embedded(e)[2])
  BY <1>1a, <1>2, Zenon
<1>4. /\ p.form = form /\ p.says = {"vp"} /\ p.by = h /\ p.aud = {Exchanges[x].aud}
      /\ p.nonce = Exchanges[x].nonce /\ p.creds = <<e>>
  BY <1>2
<1>5. DOMAIN p.creds = 1..1 /\ p.creds[1] = e
  BY <1>4
<1>6. call' = call /\ acts \subseteq acts'
  BY <1>3 DEF Made
<1>7. SdArrived(e)' \/ VcArrived(e, p)'
  <2>1. CASE e \in made /\ e.form = "sd"
    <3>1. MadeOK(e)
      BY <2>1 DEF VpInv
    <3>2. SdArrived(e)
      BY <2>1, <3>1 DEF MadeOK, SdMade, VpArrived, MdocMade
    <3> QED BY <1>6, <3>2, LaterActs
  <2>2. CASE \E c \in Vcs : e = [form |-> "vc", cred |-> c]
    <3>1. e.form = "vc" /\ e.cred \in Vcs
      BY <2>2
    <3>2. Embedded(e)[1] = e.cred /\ Embedded(e)[2] = <<>>
      BY <3>1 DEF Embedded
    <3>3. PICK a : a = [who |-> h, for |-> x, cred |-> e.cred, shown |-> <<>>, at |-> now]
      OBVIOUS
    <3>4. a \in acts'
      BY <1>3, <3>2, <3>3 DEF Made
    <3>5. a.cred = e.cred /\ a.shown = <<>> /\ a.who = h /\ a.for = x
      BY <3>3
    <3> QED BY <1>4, <3>1, <3>4, <3>5, Zenon DEF VcArrived
  <2> QED BY <1>1a, <2>1, <2>2 DEF Embeddable
<1>8. VpArrived(p)'
  BY <1>4, <1>5, <1>7, Zenon DEF VpArrived
<1>9. MadeOK(p)'
  BY <1>8, Zenon DEF MadeOK
<1> QED BY <1>3, <1>9, MadeStep

LEMMA PresentMdocStep ==
  ASSUME VpInv, NEW h, NEW x, PresentMdoc(h, x)
  PROVE  VpInv'
<1> DEFINE script == Transcript(Exchanges[x].aud, Exchanges[x].nonce, Exchanges[x].thumbprint)
           Auth(d, ns) == [key |-> h, over |-> <<script, d.docType, ns>>]
           Doc(d, items, ns) == [doc |-> d, items |-> items, ns |-> ns, auth |-> Auth(d, ns)]
<1>1. PICK d, items, ns :
        d \in Mdocs /\ Made(h, x, [form |-> "mdoc", docs |-> <<Doc(d, items, ns)>>], d, ns)
  BY Zenon DEF PresentMdoc
<1>2. PICK doc : doc = Doc(d, items, ns)
  OBVIOUS
<1>3. PICK p : p = [form |-> "mdoc", docs |-> <<doc>>]
  OBVIOUS
<1>4. PICK a : a = [who |-> h, for |-> x, cred |-> d, shown |-> ns, at |-> now]
  OBVIOUS
<1>5. Made(h, x, p, d, ns)
  BY <1>1, <1>2, <1>3, Zenon
<1>6. a \in acts'
  BY <1>4, <1>5 DEF Made
<1>7. doc.doc = d /\ doc.auth.key = h /\ doc.auth.over = <<script, d.docType, ns>>
  BY <1>2
<1>8. a.cred = d /\ a.shown = ns /\ a.who = h /\ a.for = x
  BY <1>4
<1>9. p.form = "mdoc" /\ p.docs = <<doc>> /\ {"form", "docs"} \subseteq DOMAIN p
  BY <1>3
<1>10. DocArrived(doc)'
  BY <1>1, <1>6, <1>7, <1>8, Zenon DEF DocArrived
<1>11. MadeOK(p)'
  BY <1>9, <1>10, Zenon DEF MadeOK, MdocMade
<1> QED BY <1>5, <1>11, MadeStep

LEMMA TickStep ==
  ASSUME VpInv, Tick
  PROVE  VpInv'
<1>1. UNCHANGED <<call, wallet, made, acts, todo, results, verdict>>
  BY DEF Tick
<1>2. now' \in Nat
  BY DEF VpInv, Tick
<1> QED BY <1>1, <1>2, LaterInv

\* On the way a KB-JWT or disclosures may be left off and responses joined;
\* nobody is made to have signed anything by that.
LEMMA ArrivingArrived ==
  ASSUME VpInv, NEW p \in Arriving
  PROVE  Arrived(p)
<1>1. \A m \in made : MadeOK(m)
  BY DEF VpInv
<1>2. \A m \in made : m.form = "sd" => SdMade(m)
  BY <1>1 DEF MadeOK, VpArrived, MdocMade
<1>3. \A m \in made : m.form = "mdoc" => MdocMade(m)
  BY <1>1 DEF MadeOK, VpArrived, SdMade, SdArrived
<1>4. ASSUME NEW m, MdocMade(m) PROVE MdocArrived(m)
  <2>1. PICK d : m.docs = <<d>> /\ DocArrived(d)
    BY <1>4 DEF MdocMade
  <2>2. DOMAIN m.docs = 1..1 /\ m.docs[1] = d /\ 1 \in Nat
    BY <2>1
  <2>3. \A i \in DOMAIN m.docs : DocArrived(m.docs[i])
    BY <2>1, <2>2
  <2> QED BY <1>4, <2>2, <2>3 DEF MdocArrived, MdocMade
<1>5. CASE p \in made
  BY <1>1, <1>4, <1>5, Zenon DEF MadeOK, SdMade, Arrived
<1>6. CASE p \in Odd \cup {BareVc(c) : c \in Vcs}
  BY <1>6 DEF Arrived, BareArrived
<1>7. ASSUME NEW m \in made, m.form = "sd", p = [m EXCEPT !.kb = None] PROVE Arrived(p)
  <2>1. {"form", "kb"} \subseteq DOMAIN m
    BY <1>2, <1>7 DEF SdMade
  <2>2. p.form = "sd" /\ p.kb = None
    BY <1>7, <2>1
  <2>3. SdArrived(p)
    BY <2>2, Zenon DEF SdArrived
  <2> QED BY <2>3, Zenon DEF Arrived
<1>8. ASSUME NEW m \in made, m.form = "sd", p = [m EXCEPT !.shown = <<>>] PROVE Arrived(p)
  <2>1. {"form", "kb", "shown"} \subseteq DOMAIN m /\ SdArrived(m)
    BY <1>2, <1>8 DEF SdMade
  <2>2. p.form = "sd" /\ p.kb = m.kb
    BY <1>8, <2>1
  <2>3. SdArrived(p)
    BY <2>1, <2>2, Zenon DEF SdArrived
  <2> QED BY <2>3, Zenon DEF Arrived
<1>9. ASSUME NEW m \in made, NEW r \in made, m.form = "mdoc", r.form = "mdoc",
             p = [form |-> "mdoc", docs |-> m.docs \o r.docs]
      PROVE  Arrived(p)
  <2>1. MdocMade(m) /\ MdocMade(r)
    BY <1>3, <1>9
  <2>2. PICK d : m.docs = <<d>> /\ DocArrived(d)
    BY <2>1 DEF MdocMade
  <2>3. PICK e : r.docs = <<e>> /\ DocArrived(e)
    BY <2>1 DEF MdocMade
  <2>4. {"form", "docs"} \subseteq DOMAIN m
    BY <2>1 DEF MdocMade
  <2>5. p.form = "mdoc" /\ p.docs = m.docs \o r.docs
    BY <1>9, <2>4
  <2>6. p.docs = <<d>> \o <<e>>
    BY <2>2, <2>3, <2>5
  <2>7. DOMAIN p.docs = 1..2 /\ p.docs[1] = d /\ p.docs[2] = e /\ 2 \in Nat
    BY <2>6
  <2>8. \A i \in DOMAIN p.docs : i = 1 \/ i = 2
    BY <2>7
  <2>9. \A i \in DOMAIN p.docs : DocArrived(p.docs[i])
    BY <2>2, <2>3, <2>7, <2>8, Zenon
  <2>10. MdocArrived(p)
    BY <2>5, <2>7, <2>9, Zenon DEF MdocArrived
  <2> QED BY <2>10, Zenon DEF Arrived
<1>10. ASSUME NEW m \in made, m.form = "mdoc", NEW d \in Mdocs, NEW ns,
              p = [form |-> "mdoc", docs |-> <<[doc |-> d, items |-> m.docs[1].items, ns |-> ns,
                                                auth |-> m.docs[1].auth]>>]
       PROVE  Arrived(p)
  <2>1. PICK e : m.docs = <<e>> /\ DocArrived(e)
    BY <1>3, <1>10 DEF MdocMade
  <2>2. PICK f : f = [doc |-> d, items |-> e.items, ns |-> ns, auth |-> e.auth]
    OBVIOUS
  <2>3. m.docs[1] = e
    BY <2>1
  <2>4. p = [form |-> "mdoc", docs |-> <<f>>]
    BY <1>10, <2>2, <2>3, Zenon
  <2>5. p.form = "mdoc" /\ DOMAIN p.docs = 1..1 /\ p.docs[1] = f /\ 1 \in Nat
    BY <2>4
  <2>6. f.doc = d /\ f.auth = e.auth
    BY <2>2
  <2>7. DocArrived(f)
    BY <2>1, <2>6, Zenon DEF DocArrived
  <2>8. \A i \in DOMAIN p.docs : DocArrived(p.docs[i])
    BY <2>5, <2>7
  <2>9. MdocArrived(p)
    BY <2>5, <2>8, Zenon DEF MdocArrived
  <2> QED BY <2>9, Zenon DEF Arrived
<1>11. \/ p \in made \/ p \in Odd \cup {BareVc(c) : c \in Vcs}
       \/ \E m \in made : m.form = "sd" /\ p = [m EXCEPT !.kb = None]
       \/ \E m \in made : m.form = "sd" /\ p = [m EXCEPT !.shown = <<>>]
       \/ \E m \in made, r \in made : /\ m.form = "mdoc" /\ r.form = "mdoc"
                                      /\ p = [form |-> "mdoc", docs |-> m.docs \o r.docs]
       \/ \E m \in made, d \in Mdocs : \E ns :
            /\ m.form = "mdoc"
            /\ p = [form |-> "mdoc", docs |-> <<[doc |-> d, items |-> m.docs[1].items, ns |-> ns,
                                                auth |-> m.docs[1].auth]>>]
  <2> DEFINE Sds == {m \in made : m.form = "sd"}
             Docs == {m \in made : m.form = "mdoc"}
             W3c == IF Asked \cap {"jwt_vc_json", "ldp_vc"} # {} THEN Odd \cup {BareVc(c) : c \in Vcs} ELSE {}
             Unbound == {[m EXCEPT !.kb = None] : m \in Sds}
             Withheld == {[m EXCEPT !.shown = <<>>] : m \in Sds}
             Join(m, r) == [form |-> "mdoc", docs |-> m.docs \o r.docs]
             Joined == {Join(m, r) : m, r \in Docs}
             Names == UNION {SUBSET e.digests : e \in Mdocs}
             Move(m, d, ns) == [form |-> "mdoc", docs |-> <<[doc |-> d, items |-> m.docs[1].items, ns |-> ns,
                                                            auth |-> m.docs[1].auth]>>]
             Moved == {Move(m, d, ns) : m \in Docs, d \in Mdocs, ns \in Names}
  <2>1. Arriving = made \cup W3c \cup Unbound \cup Withheld \cup Joined \cup Moved
    BY DEF Arriving
  <2>2. p \in W3c => p \in Odd \cup {BareVc(c) : c \in Vcs}
    BY Zenon
  <2>3. p \in Unbound => \E m \in Sds : p = [m EXCEPT !.kb = None]
    BY Zenon
  <2>4. p \in Withheld => \E m \in Sds : p = [m EXCEPT !.shown = <<>>]
    BY Zenon
  <2>5. p \in Joined => \E m, r \in Docs : p = Join(m, r)
    <3> HIDE DEF Join
    <3> QED OBVIOUS
  <2>5a. p \in Moved => \E m \in Docs, d \in Mdocs, ns \in Names : p = Move(m, d, ns)
    <3> HIDE DEF Move
    <3> QED OBVIOUS
  <2> HIDE DEF W3c, Unbound, Withheld, Joined, Moved
  <2>6. \/ p \in made \/ p \in W3c \/ p \in Unbound \/ p \in Withheld \/ p \in Joined \/ p \in Moved
    BY <2>1, Zenon
  <2>7. p \in Unbound => \E m \in made : m.form = "sd" /\ p = [m EXCEPT !.kb = None]
    BY <2>3
  <2>8. p \in Withheld => \E m \in made : m.form = "sd" /\ p = [m EXCEPT !.shown = <<>>]
    BY <2>4
  <2>9. p \in Joined =>
          \E m \in made, r \in made : /\ m.form = "mdoc" /\ r.form = "mdoc"
                                      /\ p = [form |-> "mdoc", docs |-> m.docs \o r.docs]
    BY <2>5
  <2>10. p \in Moved => \E m \in made, d \in Mdocs : \E ns : m.form = "mdoc" /\ p = Move(m, d, ns)
    BY <2>5a
  <2> QED BY <2>2, <2>6, <2>7, <2>8, <2>9, <2>10, Zenon
<1> QED BY <1>5, <1>6, <1>7, <1>8, <1>9, <1>10, <1>11, Zenon

LEMMA TokenIsOK ==
  ASSUME VpInv, NEW token \in Tokens
  PROVE  token \in Seq(Range(token)) /\ \A a \in Range(token) : EntryOK(a)
<1> DEFINE Ids == DOMAIN call.dcql.queries
<1>1. \A p \in made : Arrived(p)
  <2> DEFINE Sds == {m \in made : m.form = "sd"}
             Docs == {m \in made : m.form = "mdoc"}
             W3c == IF Asked \cap {"jwt_vc_json", "ldp_vc"} # {} THEN Odd \cup {BareVc(c) : c \in Vcs} ELSE {}
             Unbound == {[m EXCEPT !.kb = None] : m \in Sds}
             Withheld == {[m EXCEPT !.shown = <<>>] : m \in Sds}
             Join(m, r) == [form |-> "mdoc", docs |-> m.docs \o r.docs]
             Joined == {Join(m, r) : m, r \in Docs}
             Names == UNION {SUBSET e.digests : e \in Mdocs}
             Move(m, d, ns) == [form |-> "mdoc", docs |-> <<[doc |-> d, items |-> m.docs[1].items, ns |-> ns,
                                                            auth |-> m.docs[1].auth]>>]
             Moved == {Move(m, d, ns) : m \in Docs, d \in Mdocs, ns \in Names}
  <2>1. Arriving = made \cup W3c \cup Unbound \cup Withheld \cup Joined \cup Moved
    BY DEF Arriving
  <2> HIDE DEF W3c, Unbound, Withheld, Joined, Moved
  <2>2. made \subseteq Arriving
    BY <2>1
  <2> QED BY <2>2, ArrivingArrived
<1>2. ASSUME NEW i, NEW p, Arrived(p) PROVE EntryOK([id |-> i, ps |-> <<p>>])
  <2> DEFINE a == [id |-> i, ps |-> <<p>>]
  <2>1. a.id = i /\ DOMAIN a.ps = 1..1 /\ a.ps[1] = p /\ 1 \in Nat
    OBVIOUS
  <2> HIDE DEF a
  <2>2. \A j \in DOMAIN a.ps : Arrived(a.ps[j])
    BY <1>2, <2>1
  <2>3. EntryOK(a)
    BY <2>1, <2>2, Zenon DEF EntryOK
  <2> QED BY <2>3 DEF a
<1>3. ASSUME NEW i, NEW p \in made, NEW r \in made PROVE EntryOK([id |-> i, ps |-> <<p, r>>])
  <2> DEFINE a == [id |-> i, ps |-> <<p, r>>]
  <2>1. a.id = i /\ DOMAIN a.ps = 1..2 /\ a.ps[1] = p /\ a.ps[2] = r /\ 2 \in Nat
    OBVIOUS
  <2> HIDE DEF a
  <2>2. \A j \in DOMAIN a.ps : j = 1 \/ j = 2
    BY <2>1
  <2>3. \A j \in DOMAIN a.ps : Arrived(a.ps[j])
    BY <1>1, <2>1, <2>2, Zenon
  <2>4. EntryOK(a)
    BY <2>1, <2>3, Zenon DEF EntryOK
  <2> QED BY <2>4 DEF a
<1>4. ASSUME NEW a, EntryOK(a), token = <<a>>
      PROVE  token \in Seq(Range(token)) /\ \A b \in Range(token) : EntryOK(b)
  <2>1. Range(token) = {a} /\ token \in Seq({a})
    BY <1>4 DEF Range
  <2> QED BY <1>4, <2>1
<1>5. ASSUME NEW a, NEW b, EntryOK(a), EntryOK(b), token = <<a, b>>
      PROVE  token \in Seq(Range(token)) /\ \A c \in Range(token) : EntryOK(c)
  <2>1. Range(token) = {a, b} /\ token \in Seq({a, b})
    BY <1>5 DEF Range
  <2> QED BY <1>5, <2>1
<1>6. \/ \E i \in Ids, ps \in {<<p>> : p \in Arriving} \cup {<<p, r>> : p, r \in made} :
            token = <<[id |-> i, ps |-> ps]>>
      \/ \E ij \in {k \in Ids \X Ids : k[1] < k[2]}, p \in made, r \in made :
            token = <<[id |-> ij[1], ps |-> <<p>>], [id |-> ij[2], ps |-> <<r>>]>>
      \/ \E p \in made : token = <<[id |-> 1, ps |-> <<p>>], [id |-> 0, ps |-> <<p>>]>>
  <2> DEFINE Answers == {<<p>> : p \in Arriving} \cup {<<p, r>> : p, r \in made}
             Pairs == {k \in Ids \X Ids : k[1] < k[2]}
             One == {<<[id |-> i, ps |-> ps]>> : i \in Ids, ps \in Answers}
             Two == {<<[id |-> ij[1], ps |-> <<p>>], [id |-> ij[2], ps |-> <<r>>]>> :
                       ij \in Pairs, p, r \in made}
             Stray == {<<[id |-> 1, ps |-> <<p>>], [id |-> 0, ps |-> <<p>>]>> : p \in made}
  <2>1. Tokens = One \cup Stray \cup Two
    BY DEF Tokens
  <2> HIDE DEF Answers, Pairs
  <2>2. token \in One => \E i \in Ids, ps \in Answers : token = <<[id |-> i, ps |-> ps]>>
    OBVIOUS
  <2>3. token \in Two => \E ij \in Pairs, p \in made, r \in made :
            token = <<[id |-> ij[1], ps |-> <<p>>], [id |-> ij[2], ps |-> <<r>>]>>
    OBVIOUS
  <2>3a. token \in Stray => \E p \in made : token = <<[id |-> 1, ps |-> <<p>>], [id |-> 0, ps |-> <<p>>]>>
    OBVIOUS
  <2> HIDE DEF One, Two, Stray
  <2>4. token \in One \/ token \in Two \/ token \in Stray
    BY <2>1
  <2>5. \/ \E i \in Ids, ps \in Answers : token = <<[id |-> i, ps |-> ps]>>
        \/ \E ij \in Pairs, p \in made, r \in made :
             token = <<[id |-> ij[1], ps |-> <<p>>], [id |-> ij[2], ps |-> <<r>>]>>
        \/ \E p \in made : token = <<[id |-> 1, ps |-> <<p>>], [id |-> 0, ps |-> <<p>>]>>
    BY <2>2, <2>3, <2>3a, <2>4, Zenon
  <2> QED BY <2>5 DEF Answers, Pairs
<1>7. CASE \E i \in Ids, ps \in {<<p>> : p \in Arriving} \cup {<<p, r>> : p, r \in made} :
             token = <<[id |-> i, ps |-> ps]>>
  <2>1. PICK i \in Ids, ps \in {<<p>> : p \in Arriving} \cup {<<p, r>> : p, r \in made} :
             token = <<[id |-> i, ps |-> ps]>>
    BY <1>7
  <2>2. CASE ps \in {<<p>> : p \in Arriving}
    <3>1. PICK p \in Arriving : ps = <<p>>
      BY <2>2
    <3>2. EntryOK([id |-> i, ps |-> <<p>>])
      BY <1>2, ArrivingArrived
    <3> QED BY <1>4, <2>1, <3>1, <3>2
  <2>3. CASE ps \in {<<p, r>> : p, r \in made}
    <3>1. PICK p \in made, r \in made : ps = <<p, r>>
      BY <2>3
    <3>2. EntryOK([id |-> i, ps |-> <<p, r>>])
      BY <1>3
    <3> QED BY <1>4, <2>1, <3>1, <3>2
  <2> QED BY <2>1, <2>2, <2>3
<1>8. CASE \E ij \in {k \in Ids \X Ids : k[1] < k[2]}, p \in made, r \in made :
             token = <<[id |-> ij[1], ps |-> <<p>>], [id |-> ij[2], ps |-> <<r>>]>>
  <2>1. PICK ij \in {k \in Ids \X Ids : k[1] < k[2]}, p \in made, r \in made :
             token = <<[id |-> ij[1], ps |-> <<p>>], [id |-> ij[2], ps |-> <<r>>]>>
    BY <1>8
  <2>2. EntryOK([id |-> ij[1], ps |-> <<p>>]) /\ EntryOK([id |-> ij[2], ps |-> <<r>>])
    BY <1>1, <1>2
  <2> QED BY <1>5, <2>1, <2>2
<1>9. CASE \E p \in made : token = <<[id |-> 1, ps |-> <<p>>], [id |-> 0, ps |-> <<p>>]>>
  <2>1. PICK p \in made : token = <<[id |-> 1, ps |-> <<p>>], [id |-> 0, ps |-> <<p>>]>>
    BY <1>9
  <2>2. EntryOK([id |-> 1, ps |-> <<p>>]) /\ EntryOK([id |-> 0, ps |-> <<p>>])
    BY <1>1, <1>2
  <2> QED BY <1>5, <2>1, <2>2
<1> QED BY <1>6, <1>7, <1>8, <1>9

\* verify_vp_token up to its loop: no error is None or of a date, and without
\* one the vp_token is complete.
LEMMA ReceiveEnds ==
  ASSUME NEW to, NEW token, NEW e, e = FirstError(ReceiveChecks(to, token))
  PROVE  /\ e \in {"ok", "jwe", "claims", "malformed", "incomplete"}
         /\ e = "ok" => Complete(call.dcql, {token[i].id : i \in DOMAIN token})
<1> DEFINE a == Check(Decrypts(to), "jwe")
           b == Check((call.clientId = None) # (call.origins = {}), "claims")
           c == Check(token # <<>>, "malformed")
           d == Check(Complete(call.dcql, {token[i].id : i \in DOMAIN token}), "incomplete")
           A == <<a, b, c>>
           D == DcqlChecks(call.dcql)
           L == <<d>>
<1>1. a.err = "jwe" /\ b.err = "claims" /\ c.err = "malformed" /\ d.err = "incomplete"
  BY DEF Check
<1>2. d.ok = Complete(call.dcql, {token[i].id : i \in DOMAIN token})
  BY DEF Check
<1>3. e = FirstError((A \o D) \o L)
  BY Zenon DEF ReceiveChecks
<1>4. IsRow(D) /\ FirstError(D) \in {"ok", "malformed"}
  <2> DEFINE x == Check(call.dcql.queries # <<>> /\ call.dcql.sets # <<>>, "malformed")
             y == Check(\A i \in DOMAIN call.dcql.queries :
                          /\ call.dcql.queries[i].binding \in BOOLEAN
                          /\ call.dcql.queries[i].multiple \in BOOLEAN
                          /\ call.dcql.queries[i].want # Bad, "malformed")
             z == Check(call.dcql.sets # None => \A i \in DOMAIN call.dcql.sets :
                          /\ call.dcql.sets[i].required \in BOOLEAN
                          /\ call.dcql.sets[i].options # {}
                          /\ \A o \in call.dcql.sets[i].options :
                               o # {} /\ o \subseteq DOMAIN call.dcql.queries, "malformed")
  <2>1. x.err = "malformed" /\ y.err = "malformed" /\ z.err = "malformed"
    BY DEF Check
  <2>2. D = <<x, y, z>>
    BY Zenon DEF DcqlChecks
  <2> HIDE DEF x, y, z, D
  <2> QED BY <2>1, <2>2, RowOfThree
<1> HIDE DEF a, b, c, d, D
<1>5. IsRow(A) /\ FirstError(A) \in {"ok", "jwe", "claims", "malformed"}
  BY <1>1, RowOfThree
<1>6. IsRow(L) /\ FirstError(L) \in {"ok", "incomplete"} /\ (FirstError(L) = "ok" <=> d.ok)
  BY <1>1, RowOfOne
<1> HIDE DEF A, L
<1>7. /\ IsRow(A \o D)
      /\ FirstError(A \o D) = IF FirstError(A) = "ok" THEN FirstError(D) ELSE FirstError(A)
  BY <1>4, <1>5, RowsFollow, FirstRowDecides
<1>8. e = IF FirstError(A \o D) = "ok" THEN FirstError(L) ELSE FirstError(A \o D)
  BY <1>3, <1>6, <1>7, FirstRowDecides
<1>9. e \in {"ok", "jwe", "claims", "malformed", "incomplete"} /\ (e = "ok" => FirstError(L) = "ok")
  BY <1>4, <1>5, <1>6, <1>7, <1>8
<1> QED BY <1>2, <1>6, <1>9, Zenon

LEMMA CompleteIsMonotone ==
  ASSUME NEW dcql, NEW S, NEW T, S \subseteq T, Complete(dcql, S)
  PROVE  Complete(dcql, T)
<1>1. CASE dcql.sets = None
  BY <1>1 DEF Complete
<1>2. CASE dcql.sets # None
  <2>1. \A i \in DOMAIN dcql.sets :
          dcql.sets[i].required => \E o \in dcql.sets[i].options : o \subseteq S
    BY <1>2, Zenon DEF Complete
  <2>2. \A i \in DOMAIN dcql.sets :
          dcql.sets[i].required => \E o \in dcql.sets[i].options : o \subseteq T
    BY <2>1, Zenon
  <2> QED BY <1>2, <2>2, Zenon DEF Complete
<1> QED BY <1>1, <1>2

LEMMA ReceiveStep ==
  ASSUME VpInv, NEW to, NEW token \in Tokens, Receive(to, token)
  PROVE  VpInv'
<1> DEFINE e == FirstError(ReceiveChecks(to, token))
           ids == {token[i].id : i \in DOMAIN token}
<1>1. e \in {"ok", "jwe", "claims", "malformed", "incomplete"} /\ (e = "ok" => Complete(call.dcql, ids))
  BY ReceiveEnds, Zenon
<1>2. /\ todo' = token /\ verdict' = IF e = "ok" THEN None ELSE e
      /\ UNCHANGED <<now, call, wallet, made, acts, results>>
  BY Zenon DEF Receive
<1> HIDE DEF e
<1>3. verdict' \notin {"ok"} \cup Temporal /\ (verdict' = None => e = "ok")
  BY <1>1, <1>2, CatalogueAssumption DEF Temporal
<1>4. /\ call' = call /\ acts \subseteq acts' /\ results' = results /\ made' = made
      /\ wallet' = wallet /\ now' \in Nat
  BY <1>2 DEF VpInv
<1>5. \A p \in made' : MadeOK(p)'
  BY <1>4, LaterArrivals DEF VpInv
<1>6. \A s \in wallet' : IssuedOK(s)'
  BY <1>4, Zenon DEF VpInv, IssuedOK, Asserted
<1>7. token \in Seq(Range(token)) /\ \A a \in Range(token) : EntryOK(a)
  BY TokenIsOK
<1>8. todo' \in Seq(Range(todo')) /\ \A a \in Range(todo') : EntryOK(a)'
  <2>1. \A a : EntryOK(a) => EntryOK(a)'
    BY <1>4, LaterEntries
  <2> QED BY <1>2, <1>7, <2>1, Zenon
<1>9. results' \in Seq(Range(results')) /\ \A r \in Range(results') : ResultOK(r)'
  <2>1. \A r : ResultOK(r) => ResultOK(r)'
    BY <1>4, LaterEntries
  <2> QED BY <1>4, <2>1, Zenon DEF VpInv
<1>10. ASSUME verdict' = None PROVE Complete(call.dcql, AnsweredIds \cup LeftIds)'
  <2>1. Complete(call.dcql, ids)
    BY <1>1, <1>3, <1>10
  <2>2. LeftIds' = ids
    BY <1>2 DEF LeftIds
  <2>3. ids \subseteq (AnsweredIds \cup LeftIds)'
    BY <2>2
  <2>4. Complete(call.dcql, (AnsweredIds \cup LeftIds)')
    BY <2>1, <2>3, CompleteIsMonotone
  <2> QED BY <1>4, <2>4 DEF Complete
<1> QED BY <1>3, <1>4, <1>5, <1>6, <1>8, <1>9, <1>10, Zenon DEF VpInv

\* An entry that was verified is a result.
LEMMA VerifiedIsResult ==
  ASSUME NEW a, EntryOK(a), a.id \in DOMAIN call.dcql.queries, NEW t, t \in Nat,
         VerifyAnswer(call.dcql.queries[a.id], a.ps, t) = "ok",
         NEW r, r.answer = a, r.at = t
  PROVE  ResultOK(r)
<1> DEFINE q == call.dcql.queries[a.id]
<1>1. PICK n \in Nat : DOMAIN a.ps = 1..n
  BY Zenon DEF EntryOK
<1>2. a.id \in DOMAIN call.dcql.queries /\ \A i \in DOMAIN a.ps : Arrived(a.ps[i])
  BY Zenon DEF EntryOK
<1>3. (~ q.multiple => Len(a.ps) = 1) /\ \A i \in DOMAIN a.ps : VerifyOne(q, a.ps[i], t) = "ok"
  <2>1. VerifyAnswer(q, a.ps, t) = "ok"
    OBVIOUS
  <2> HIDE DEF q
  <2> QED BY ONLY <1>1, <2>1, VerifyAnswerEnds
<1> HIDE DEF q
<1>4. q.binding \/ q.format = "mso_mdoc" =>
        \A i \in DOMAIN a.ps : \A c \in Carried(a.ps[i]) : PresentedBy(c, t)
  BY <1>2, <1>3, AcceptedIsPresented
<1>5. q.want # None => \A i \in DOMAIN a.ps : TypeOf(q, a.ps[i])
  BY <1>2, <1>3, AcceptedIsOfType
<1>6. \A i \in DOMAIN a.ps : \A e \in SdsOf(a.ps[i]) : Stands(e.sd, t)
  BY <1>2, <1>3, AcceptedStands
<1> QED BY <1>2, <1>3, <1>4, <1>5, <1>6, Zenon DEF ResultOK, q

LEMMA VerifyNextStep ==
  ASSUME VpInv, VerifyNext
  PROVE  VpInv'
<1>1. /\ todo # None /\ verdict = None
      /\ UNCHANGED <<now, call, wallet, made, acts>>
  BY DEF VerifyNext
<1>2. /\ call' = call /\ acts \subseteq acts' /\ made' = made /\ wallet' = wallet
      /\ now' = now /\ now \in Nat
  BY <1>1 DEF VpInv
<1>3. \A p \in made' : MadeOK(p)'
  BY <1>2, LaterArrivals DEF VpInv
<1>4. \A s \in wallet' : IssuedOK(s)'
  BY <1>2, Zenon DEF VpInv, IssuedOK, Asserted
<1>5. /\ todo \in Seq(Range(todo)) /\ \A a \in Range(todo) : EntryOK(a)
      /\ results \in Seq(Range(results)) /\ \A r \in Range(results) : ResultOK(r)
      /\ Complete(call.dcql, AnsweredIds \cup LeftIds)
  BY <1>1, Zenon DEF VpInv
<1>6. /\ \A a : EntryOK(a) => EntryOK(a)'
      /\ \A r : ResultOK(r) => ResultOK(r)'
  BY <1>2, LaterEntries
<1>7. ASSUME UNCHANGED <<todo, results>>
      PROVE  /\ todo' # None => todo' \in Seq(Range(todo')) /\ \A a \in Range(todo') : EntryOK(a)'
             /\ results' \in Seq(Range(results')) /\ \A r \in Range(results') : ResultOK(r)'
             /\ Complete(call.dcql, AnsweredIds \cup LeftIds)'
             /\ AnsweredIds' = AnsweredIds
  <2>1. todo' = todo /\ results' = results
    BY <1>7
  <2>2. AnsweredIds' = AnsweredIds /\ LeftIds' = LeftIds
    BY <2>1 DEF AnsweredIds, LeftIds
  <2>3. Complete(call.dcql, AnsweredIds \cup LeftIds)'
    BY <1>2, <1>5, <2>2, Zenon DEF Complete
  <2> QED BY <1>5, <1>6, <2>1, <2>2, <2>3, Zenon
<1>8. CASE todo = <<>>
  <2>1. verdict' = "ok" /\ UNCHANGED <<todo, results>>
    BY <1>8 DEF VerifyNext
  <2>2. LeftIds = {}
    BY <1>8 DEF LeftIds
  <2>3. Complete(call.dcql, AnsweredIds)
    BY <1>5, <2>2, CompleteIsMonotone
  <2>4. AnsweredIds' = AnsweredIds
    BY <1>7, <2>1
  <2>5. Complete(call.dcql, AnsweredIds)'
    BY <1>2, <2>3, <2>4, Zenon DEF Complete
  <2>6. verdict' \notin Temporal /\ verdict' # None
    BY <2>1, CatalogueAssumption DEF Temporal
  <2> QED BY <1>2, <1>3, <1>4, <1>7, <2>1, <2>5, <2>6, Zenon DEF VpInv
<1>9. CASE todo # <<>>
  <2> DEFINE a == Head(todo)
             e == IF a.id \in DOMAIN call.dcql.queries
                  THEN VerifyAnswer(call.dcql.queries[a.id], a.ps, now) ELSE "malformed"
  <2>1. IF e = "ok"
        THEN /\ todo' = Tail(todo)
             /\ results' = Append(results, [answer |-> a, at |-> now])
             /\ verdict' = None
        ELSE verdict' = e /\ UNCHANGED <<todo, results>>
    BY <1>9, Zenon DEF VerifyNext
  <2>2. a = todo[1] /\ 1 \in DOMAIN todo
    BY <1>5, <1>9
  <2>3. EntryOK(a)
    BY <1>5, <2>2, Zenon DEF Range
  <2>4. CASE e = "ok"
    <3>1. PICK r : r = [answer |-> a, at |-> now]
      OBVIOUS
    <3>2. todo' = Tail(todo) /\ results' = Append(results, r) /\ verdict' = None
      BY <2>1, <2>4, <3>1, Zenon
    <3>3. r.answer = a /\ r.at = now
      BY <3>1
    <3>4. a.id \in DOMAIN call.dcql.queries /\ VerifyAnswer(call.dcql.queries[a.id], a.ps, now) = "ok"
      <4> HIDE DEF a
      <4> QED BY <2>4
    <3> HIDE DEF a, e
    <3>5. ResultOK(r)
      BY <1>2, <2>3, <3>3, <3>4, VerifiedIsResult
    <3>6. /\ Range(todo') \subseteq Range(todo) /\ todo' \in Seq(Range(todo'))
          /\ \A i \in DOMAIN todo : i = 1 \/ (i - 1 \in DOMAIN todo' /\ todo[i] = todo'[i - 1])
      <4>1. PICK n \in Nat : n = Len(todo) /\ DOMAIN todo = 1..n /\ n # 0
        BY <1>5, <1>9
      <4>2. /\ DOMAIN todo' = 1..(n - 1) /\ n - 1 \in Nat /\ Len(todo') = n - 1
            /\ \A i \in 1..(n - 1) : todo'[i] = todo[i + 1]
            /\ todo' \in Seq(Range(todo))
        BY <1>5, <1>9, <3>2, <4>1
      <4>3. \A i \in 1..(n - 1) : i + 1 \in DOMAIN todo
        BY <4>1
      <4>4. Range(todo') \subseteq Range(todo)
        BY <4>2, <4>3 DEF Range
      <4>5. todo' = [i \in 1..(n - 1) |-> todo'[i]] /\ \A i \in 1..(n - 1) : todo'[i] \in Range(todo')
        BY <4>2 DEF Range
      <4>6. todo' \in Seq(Range(todo'))
        BY <4>2, <4>5
      <4>7. \A i \in DOMAIN todo : i = 1 \/ (i - 1 \in 1..(n - 1) /\ (i - 1) + 1 = i)
        BY <4>1
      <4>8. \A i \in DOMAIN todo : i = 1 \/ (i - 1 \in DOMAIN todo' /\ todo[i] = todo'[i - 1])
        BY <4>2, <4>7
      <4> QED BY <4>4, <4>6, <4>8
    <3>7. /\ results' \in Seq(Range(results')) /\ Range(results') \subseteq Range(results) \cup {r}
          /\ \A i \in DOMAIN results : i \in DOMAIN results' /\ results'[i] = results[i]
          /\ \E i \in DOMAIN results' : results'[i] = r
      <4>1. PICK n \in Nat : n = Len(results) /\ DOMAIN results = 1..n
        BY <1>5
      <4>2. /\ DOMAIN results' = 1..(n + 1) /\ results'[n + 1] = r
            /\ \A i \in 1..n : results'[i] = results[i]
        BY <1>5, <3>2, <4>1
      <4>3. results' \in Seq(Range(results) \cup {r})
        BY <1>5, <3>2
      <4>4. \A i \in 1..(n + 1) : i \in 1..n \/ i = n + 1
        OBVIOUS
      <4>5. Range(results') \subseteq Range(results) \cup {r}
        BY <4>1, <4>2, <4>4 DEF Range
      <4>6. results' = [i \in 1..(n + 1) |-> results'[i]]
            /\ \A i \in 1..(n + 1) : results'[i] \in Range(results')
        BY <4>2, <4>3 DEF Range
      <4>7. results' \in Seq(Range(results')) /\ n + 1 \in 1..(n + 1)
        BY <4>6
      <4> QED BY <4>1, <4>2, <4>4, <4>5, <4>7
    <3>8. \A b \in Range(todo') : EntryOK(b)'
      BY <1>5, <1>6, <3>6, Zenon
    <3>9. \A x \in Range(results') : ResultOK(x)'
      BY <1>5, <1>6, <3>5, <3>7
    <3>10. AnsweredIds \cup LeftIds \subseteq AnsweredIds' \cup LeftIds'
      <4>1. ASSUME NEW i \in DOMAIN results PROVE results[i].answer.id \in AnsweredIds'
        BY <3>7, <4>1, Zenon DEF AnsweredIds
      <4>2. ASSUME NEW i \in DOMAIN todo, i = 1 PROVE todo[i].id \in AnsweredIds'
        BY <2>2, <3>3, <3>7, <4>2, Zenon DEF AnsweredIds
      <4>3. ASSUME NEW i \in DOMAIN todo, i # 1 PROVE todo[i].id \in LeftIds'
        BY <3>6, <4>3, Zenon DEF LeftIds
      <4>4. AnsweredIds \subseteq AnsweredIds'
        BY <4>1, Zenon DEF AnsweredIds
      <4>5. LeftIds \subseteq AnsweredIds' \cup LeftIds'
        BY <4>2, <4>3, Zenon DEF LeftIds
      <4> QED BY <4>4, <4>5
    <3>11. Complete(call.dcql, AnsweredIds' \cup LeftIds')
      BY <1>5, <3>10, CompleteIsMonotone
    <3>12. Complete(call.dcql, AnsweredIds \cup LeftIds)'
      BY <1>2, <3>11 DEF Complete
    <3>13. verdict' # "ok" /\ verdict' \notin Temporal
      BY <3>2, CatalogueAssumption DEF Temporal
    <3> QED BY <1>2, <1>3, <1>4, <3>6, <3>7, <3>8, <3>9, <3>12, <3>13, Zenon DEF VpInv
  <2>5. CASE e # "ok"
    <3>1. verdict' = e /\ UNCHANGED <<todo, results>>
      BY <2>1, <2>5, Zenon
    <3>2. todo' # None /\ todo' # <<>>
      BY <1>1, <1>9, <3>1
    <3>3. /\ todo' # None => todo' \in Seq(Range(todo')) /\ \A b \in Range(todo') : EntryOK(b)'
          /\ results' \in Seq(Range(results')) /\ \A r \in Range(results') : ResultOK(r)'
          /\ Complete(call.dcql, AnsweredIds \cup LeftIds)'
      BY <1>7, <3>1
    <3> HIDE DEF e
    <3> QED BY <1>2, <1>3, <1>4, <2>5, <3>1, <3>2, <3>3, Zenon DEF VpInv
  <2> QED BY <2>4, <2>5
<1> QED BY <1>8, <1>9

----------------------------------------------------------------------------
LEMMA VpInit == Init => VpInv
<1> SUFFICES ASSUME Init PROVE VpInv
  OBVIOUS
<1>1. /\ now = 0 /\ wallet = {} /\ made = {} /\ todo = None /\ results = <<>> /\ verdict = None
  BY DEF Init
<1>2. Range(results) = {} /\ results \in Seq({})
  BY <1>1 DEF Range
<1>3. verdict # "ok" /\ verdict \notin Temporal
  BY <1>1, CatalogueAssumption DEF Temporal
<1>4. now \in Nat
  BY <1>1
<1> QED BY <1>1, <1>2, <1>3, <1>4, Zenon DEF VpInv

LEMMA VpNext == VpInv /\ [Next]_vars => VpInv'
<1> SUFFICES ASSUME VpInv, [Next]_vars PROVE VpInv'
  OBVIOUS
<1>1. CASE \E i \in DOMAIN Templates : Issue(i)
  BY <1>1, IssueStep
<1>2. CASE \E h \in Holders, x \in call.others : PresentSd(h, x)
  BY <1>2, PresentSdStep
<1>3. CASE \E h \in Holders, x \in call.others :
             \E form \in {"jwt", "json"} : PresentVp(h, x, form)
  BY <1>3, PresentVpStep
<1>4. CASE \E h \in Holders, x \in call.others : PresentMdoc(h, x)
  BY <1>4, PresentMdocStep
<1>5. CASE Tick
  BY <1>5, TickStep
<1>6. CASE \E to \in {None, call.encryptTo}, token \in Tokens : Receive(to, token)
  BY <1>6, ReceiveStep
<1>7. CASE VerifyNext
  BY <1>7, VerifyNextStep
<1>8. CASE UNCHANGED vars
  <2>1. UNCHANGED <<now, call, wallet, made, acts, todo, results, verdict>> /\ now \in Nat
    BY <1>8 DEF vars, VpInv
  <2> QED BY <2>1, LaterInv
<1> QED BY <1>1, <1>2, <1>3, <1>4, <1>5, <1>6, <1>7, <1>8, Zenon DEF Next

LEMMA VpInvHolds == Spec => []VpInv
BY VpInit, VpNext, PTL DEF Spec

(***************************************************************************)
(* "Every Presentation is cryptographically holder-bound": whatever        *)
(* reaches verify_vp_token, what it returns for a query that does not      *)
(* waive binding was presented by its holder for this request: an SD-JWT   *)
(* with these disclosures, an mdoc as one of its type with these device    *)
(* namespaces.                                                             *)
(***************************************************************************)
THEOREM PresentationsAreBound == Spec => []PresentedByItsHolder
<1>1. VpInv => PresentedByItsHolder
  <2> SUFFICES ASSUME VpInv, NEW r \in Accepted,
                      call.dcql.queries[r.answer.id].binding
                        \/ call.dcql.queries[r.answer.id].format = "mso_mdoc"
               PROVE  \A i \in DOMAIN r.answer.ps : \A c \in Carried(r.answer.ps[i]) : PresentedBy(c, r.at)
    BY Zenon DEF PresentedByItsHolder
  <2>1. ResultOK(r)
    BY Zenon DEF VpInv, Accepted
  <2> QED BY <2>1, Zenon DEF ResultOK
<1> QED BY <1>1, VpInvHolds, PTL

(***************************************************************************)
(* "The set of Presentations returned satisfies all requirements":         *)
(* _check_completeness counts entries before any is verified, and what is  *)
(* returned in the end answers all that it counted.                        *)
(***************************************************************************)
THEOREM ResponsesAnswerTheQuery == Spec => []AnswersTheQuery
<1>1. VpInv => AnswersTheQuery
  <2> SUFFICES ASSUME VpInv, verdict = "ok" PROVE AnswersTheQuery
    BY Zenon DEF AnswersTheQuery
  <2> DEFINE answered == {r.answer.id : r \in Accepted}
  <2>1. Accepted = Range(results)
    BY DEF Accepted
  <2>2. \A r \in Accepted : ResultOK(r)
    BY <2>1, Zenon DEF VpInv
  <2>3. answered = AnsweredIds
    BY <2>1 DEF AnsweredIds, Range
  <2>4. Complete(call.dcql, answered)
    BY <2>3, Zenon DEF VpInv
  <2>5. \A r \in Accepted :
          LET q == call.dcql.queries[r.answer.id]
          IN  /\ ~ q.multiple => Len(r.answer.ps) = 1
              /\ q.want # None => \A i \in DOMAIN r.answer.ps : TypeOf(q, r.answer.ps[i])
    BY <2>2, Zenon DEF ResultOK
  <2>6. answered \subseteq DOMAIN call.dcql.queries
    BY <2>2, Zenon DEF ResultOK
  <2> HIDE DEF answered
  <2>7. IF call.dcql.sets = None THEN answered = DOMAIN call.dcql.queries
        ELSE \A i \in DOMAIN call.dcql.sets :
               call.dcql.sets[i].required => \E o \in call.dcql.sets[i].options : o \subseteq answered
    BY <2>4, <2>6 DEF Complete
  <2> QED BY <2>5, <2>7, Zenon DEF AnswersTheQuery, answered
<1> QED BY <1>1, VpInvHolds, PTL

(***************************************************************************)
(* "Claims that must never sit in a disclosure": whatever a holder leaves  *)
(* off, what verify_vp_token accepts of issue()'s credentials is within    *)
(* the dates their issuer asserted and, where the caller looks statuses up *)
(* or requires one, is not revoked.                                        *)
(***************************************************************************)
THEOREM WithholdingIsInVain == Spec => []WithholdingHidesNothing
<1>1. VpInv => WithholdingHidesNothing
  <2> SUFFICES ASSUME VpInv, NEW r \in Accepted, NEW i \in DOMAIN r.answer.ps,
                      NEW e \in SdsOf(r.answer.ps[i]), e.sd \in wallet
               PROVE  /\ (call.statuses \/ call.requireStatus) /\ "status" \in Asserted(e.sd) => ~ e.sd.revoked
                      /\ "exp" \in Asserted(e.sd) => r.at - e.sd.exp < Leeway
                      /\ "nbf" \in Asserted(e.sd) => e.sd.nbf - r.at <= Leeway
                      /\ e.sd.ctx # "none" /\ "validFrom" \in Asserted(e.sd) =>
                           e.sd.from - r.at <= Leeway
                      /\ e.sd.ctx # "none" /\ "validUntil" \in Asserted(e.sd) =>
                           r.at - e.sd.until <= Leeway
    BY Zenon DEF WithholdingHidesNothing, SdsOf
  <2>1. ResultOK(r)
    BY Zenon DEF VpInv, Accepted
  <2>2. Stands(e.sd, r.at) /\ r.at \in Nat
    BY <2>1, Zenon DEF ResultOK
  <2>3. IssuedOK(e.sd)
    BY Zenon DEF VpInv
  <2> QED BY <2>2, <2>3, Zenon DEF Stands, InTime, InWindow, StatusSeen, IssuedOK
<1> QED BY <1>1, VpInvHolds, PTL

(***************************************************************************)
(* "A temporal failure means the presentation was bound": where verify()   *)
(* is asked for a bound SD-JWT it reports an expiry, or a date to come,    *)
(* only of one that its holder presented here, so and lately.              *)
(***************************************************************************)
THEOREM ExpiryIsToldOfTheBound == Spec => []ExpiredMeansBound
<1>1. VpInv => ExpiredMeansBound
  <2> DEFINE q == call.dcql.queries[Head(todo).id]
             ps == Head(todo).ps
  <2> SUFFICES ASSUME VpInv, verdict \in Temporal, q.format = "dc+sd-jwt", q.binding,
                      NEW i \in DOMAIN ps, VerifyOne(q, ps[i], now) \in Temporal,
                      NEW c \in Carried(ps[i])
               PROVE  PresentedBy(c, now)
    BY Zenon DEF ExpiredMeansBound
  <2>1. todo # None /\ todo # <<>> /\ todo \in Seq(Range(todo)) /\ \A a \in Range(todo) : EntryOK(a)
    BY Zenon DEF VpInv
  <2>2. Head(todo) = todo[1] /\ 1 \in DOMAIN todo
    BY <2>1
  <2>3. EntryOK(Head(todo))
    BY <2>1, <2>2, Zenon DEF Range
  <2>4. Arrived(ps[i])
    BY <2>3, Zenon DEF EntryOK
  <2> HIDE DEF q, ps
  <2> QED BY <2>4, ExpiredIsPresented
<1> QED BY <1>1, VpInvHolds, PTL
=============================================================================
