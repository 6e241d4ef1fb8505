------------------------- MODULE WalletTrustProofs --------------------------
(***************************************************************************)
(* For every set of lists, of calls and of certificates, and however the   *)
(* lists change while they are read: a walk trusts only what a list that   *)
(* stands names, and accounts for every list; a wallet that adopted its    *)
(* anchors answers only a party they stand behind, and only within what is *)
(* registered for it.                                                      *)
(***************************************************************************)
EXTENDS WalletTrust, ChecksProofs

\* What may be served, and understood, at some location.
Publishable == (UNION {Pool[l] : l \in Locations}) \ {None}

LEMMA PublishableShape ==
  ASSUME NEW list \in Publishable
  PROVE  /\ list # None
         /\ list.next.at \in Int
         /\ list.lane = "lotl" => list.next.form # "null"
         /\ list.pointers \in Seq(Range(list.pointers))
         /\ \A n \in DOMAIN list.pointers : list.pointers[n].loc \in Locations \cup {None}
BY ListsAssumption DEF Publishable

----------------------------------------------------------------------------
(***************************************************************************)
(* One list.                                                               *)
(***************************************************************************)
LEMMA ConsumeTrustListOK ==
  ASSUME NEW list, NEW expected, NEW verifier, ConsumeTrustList(list, expected, verifier) = "ok"
  PROVE  list.lane = "lotl" /\ "tampered" \notin list.flaws /\ list.signer \in expected
<1> DEFINE row == << Check(verifier /\ list.lane = "lotl" /\ XadesOK(list, expected), "signature"),
                     Check(ParseTrustListOK(list), "parse") >>
<1>1. DOMAIN row = 1..2 /\ \A i \in 1..2 : row[i].err # "ok"
  BY DEF Check
<1>2. FirstError(row) = "ok"
  BY DEF ConsumeTrustList
<1>3. row[1].ok = (verifier /\ list.lane = "lotl" /\ XadesOK(list, expected))
  BY DEF Check
<1> HIDE DEF row
<1>4. 2 \in Nat /\ 1 \in 1..2
  OBVIOUS
<1>5. \A i \in 1..2 : row[i].ok
  BY <1>1, <1>2, <1>4, FirstErrorOK, Zenon
<1>6. list.lane = "lotl" /\ XadesOK(list, expected)
  BY <1>3, <1>4, <1>5, Zenon
<1> QED BY <1>6 DEF XadesOK

LEMMA ConsumeLoteOK ==
  ASSUME NEW list, NEW expected, NEW profile, NEW at,
         ConsumeLote(list, expected, profile, at) = "ok"
  PROVE  /\ list.lane = "lote" /\ "tampered" \notin list.flaws
         /\ AuthenticateSigner(list, expected, at)
         /\ list.next.form \in {"utc", "null"}
         /\ ProfileOK(list, profile)
<1> DEFINE row == << Check(list.lane = "lote" /\ {"size", "form"} \cap list.flaws = {}, "parse"),
                Check("algorithm" \notin list.flaws, "signature"),
                Check(CritOK(list.crit, JadesParams, {"alg", "x5c"}), "signature"),
                Check(list.signer # None, "signature"),
                Check(list.signer # None => AuthenticateSigner(list, expected, at), "signature"),
                Check(list.signer # None => UsableKey(list.signer), "signature"),
                Check("tampered" \notin list.flaws, "signature"),
                Check(ParseLoteOK(list), "parse"),
                Check(list.signer # None => SignerDnOK(list), "signature"),
                Check(ProfileOK(list, profile), "profile") >>
<1>1. DOMAIN row = 1..10 /\ \A i \in 1..10 : row[i].err # "ok"
  BY DEF Check
<1>2. FirstError(row) = "ok"
  BY DEF ConsumeLote
<1>3. /\ row[1].ok = (list.lane = "lote" /\ {"size", "form"} \cap list.flaws = {})
      /\ row[4].ok = (list.signer # None)
      /\ row[5].ok = (list.signer # None => AuthenticateSigner(list, expected, at))
      /\ row[7].ok = ("tampered" \notin list.flaws)
      /\ row[8].ok = ParseLoteOK(list)
      /\ row[10].ok = ProfileOK(list, profile)
  BY DEF Check
<1> HIDE DEF row
<1>4. 10 \in Nat /\ 1 \in 1..10 /\ 4 \in 1..10 /\ 5 \in 1..10 /\ 7 \in 1..10 /\ 8 \in 1..10
      /\ 10 \in 1..10
  OBVIOUS
<1>7. \A i \in 1..10 : row[i].ok
  BY <1>1, <1>2, <1>4, FirstErrorOK, Zenon
<1>5. ParseLoteOK(list)
  BY <1>3, <1>4, <1>7, Zenon
<1>6. list.next.form \in {"utc", "null"}
  BY <1>5 DEF ParseLoteOK
<1> QED BY <1>3, <1>4, <1>6, <1>7, Zenon

\* A path to one of several anchors is a path to that one.
LEMMA PathToOne ==
  ASSUME NEW leaf, NEW inter, NEW anchors, NEW at,
         PathValid(leaf, inter, anchors, at), leaf \notin anchors
  PROVE  \E a \in anchors : PathValid(leaf, inter, {a}, at)
BY Zenon DEF PathValid

\* A list that the walk reads stands: it is signed for a key that was given,
\* it is in force, and it is of the profile that was asked for.
LEMMA ReadOK ==
  ASSUME NEW call \in Calls, NEW list \in Publishable \cup {None}, NEW expected, NEW at \in Int,
         Read(call, list, expected, at) = "ok"
  PROVE  /\ list \in Publishable
         /\ Authentic(list, expected, at) /\ InForce(list, at)
         /\ call.lane = "lote" /\ call.profile # None => list.type = call.profile.type
<1>1. list # None /\ list \in Publishable
  BY DEF Read
<1>2. call.lane \in {"lotl", "lote"}
  BY ListsAssumption
<1>3. list.next.at \in Int /\ (list.lane = "lotl" => list.next.form # "null")
  BY <1>1, PublishableShape
<1>4. CASE call.lane = "lotl"
  <2>1. /\ ConsumeTrustList(list, expected, call.verifier) = "ok"
        /\ ~ LotlUncomparable(list) /\ ~ LotlExpired(list, at)
    BY <1>1, <1>4 DEF Read
  <2>2. list.lane = "lotl"
    BY <2>1, ConsumeTrustListOK
  <2>3. Authentic(list, expected, at)
    BY <1>1, <2>1, ConsumeTrustListOK DEF Authentic
  <2>4. InForce(list, at)
    BY <1>3, <2>1, <2>2 DEF InForce, LotlExpired
  <2> QED BY <1>1, <1>4, <2>3, <2>4
<1>5. CASE call.lane = "lote"
  <2>1. ConsumeLote(list, expected, call.profile, at) = "ok" /\ ~ Staleness(list, at)
    BY <1>1, <1>5 DEF Read
  <2>2. /\ list.lane = "lote" /\ "tampered" \notin list.flaws
        /\ AuthenticateSigner(list, expected, at)
        /\ list.next.form \in {"utc", "null"}
        /\ ProfileOK(list, call.profile)
    BY <2>1, ConsumeLoteOK
  <2>3. list.signer \in expected \/ \E v \in expected : PathValid(list.signer, list.chain, {v}, at)
    BY <2>2, PathToOne, Zenon DEF AuthenticateSigner, ValidateCertChain
  <2>4. Authentic(list, expected, at)
    BY <1>1, <2>2, <2>3 DEF Authentic
  <2>5. InForce(list, at)
    BY <1>3, <2>1, <2>2 DEF InForce, Staleness
  <2>6. call.profile # None => list.type = call.profile.type
    BY <2>2 DEF ProfileOK
  <2> QED BY <1>1, <2>4, <2>5, <2>6
<1> QED BY <1>2, <1>4, <1>5

\* What a call selects of a list is fit to be trusted by it.
LEMMA SelectedIsFit ==
  ASSUME NEW call \in Calls, NEW list, NEW a \in Selected(call, list),
         call.lane = "lote" /\ call.profile # None => list.type = call.profile.type
  PROVE  \E s \in FitServices(call, list) : s.cert = a.cert
<1>1. PICK s \in list.services : /\ a = [cert |-> s.cert, type |-> s.type, status |-> s.status,
                                         territory |-> list.territory]
  BY DEF Selected, Anchors
<1>2. a.cert = s.cert /\ a.type = s.type /\ a.status = s.status
  BY <1>1
<1>3. call.lane \in {"lotl", "lote"}
  BY ListsAssumption
<1>4. Matches(Selection(call), a)
  BY DEF Selected
<1>5. CASE call.select # Default
  BY <1>2, <1>5 DEF FitServices
<1>6. CASE call.select = Default /\ call.lane = "lotl"
  <2>1. Selection(call) = Select({"CA/QC"}, {"granted"}, None)
    BY <1>6 DEF Selection
  <2>2. a.type \in {"CA/QC"} /\ a.status \in {"granted"}
    BY <1>4, <2>1, NoneIsNoSelection DEF Matches, Admits, Select
  <2> QED BY <1>2, <1>6, <2>2 DEF FitServices
<1>7. CASE call.select = Default /\ call.lane = "lote" /\ call.profile = None
  BY <1>2, <1>7 DEF FitServices
<1>8. CASE call.select = Default /\ call.lane = "lote" /\ call.profile # None
  <2>1. Selection(call) = Select(call.profile.anchors, None, None)
    BY <1>8 DEF Selection
  <2>2. a.type \in call.profile.anchors
    BY <1>4, <1>8, <2>1, NoneIsNoSelection DEF Matches, Admits, Select
  <2> QED BY <1>2, <1>8, <2>2 DEF FitServices
<1> QED BY <1>3, <1>5, <1>6, <1>7, <1>8

----------------------------------------------------------------------------
(***************************************************************************)
(* The walk.  What is inductive: the root list that was read stands, what  *)
(* is left to do are pointers of it, each of its other pointers is         *)
(* accounted for, and so is each location that was visited.                *)
(***************************************************************************)
WalkFields ==
  {"pc", "call", "at", "todo", "visited", "consumed", "root", "anchors", "problems", "fetched"}

WalkShape(w) ==
  /\ DOMAIN w = WalkFields
  /\ w.pc \in {"root", "pointers", "done"}
  /\ w.call \in Calls /\ w.at \in Int
  /\ w.root \in Publishable \cup {None}
  /\ w.problems \in Seq(Range(w.problems))

Reported(w, l) == \E m \in DOMAIN w.problems : w.problems[m].loc = l

Taken(w, l) ==
  \E f \in w.fetched : f.loc = l /\ f.list # None /\ Selected(w.call, f.list) \subseteq w.anchors

\* Passed over by a rule that does not depend on the walk so far.
ByRule(call, p) ==
  \/ p.loc \in {None, Root}
  \/ p.type \in WrongScheme /\ call.lane = "lotl"
  \/ call.select \notin {Default, None} /\ ~ Admits(call.select.territories, p.territory)

Accounted(w, p) == ByRule(w.call, p) \/ Reported(w, p.loc) \/ Taken(w, p.loc)

RootStands(w) ==
  \E f \in w.fetched : f.loc = Root /\ f.list = w.root /\ Stands(f, w.call.pinned, w.at)

Trusts(w) == {a.cert : a \in w.anchors}

TodoOK(w) ==
  /\ w.todo \in Seq(Range(w.root.pointers))
  /\ \A n \in DOMAIN w.root.pointers :
       Accounted(w, w.root.pointers[n]) \/ \E m \in DOMAIN w.todo : w.todo[m] = w.root.pointers[n]
  /\ \A l \in w.visited : l = Root \/ Reported(w, l) \/ Taken(w, l)

WalkOK(w) ==
  /\ WalkShape(w)
  /\ w.root # None => RootStands(w)
  /\ w.pc = "root" => w.root = None /\ w.anchors = {} /\ w.problems = <<>>
  /\ w.pc = "pointers" => w.root # None /\ TodoOK(w)
  /\ w.pc = "done" => IF w.root = None THEN Reported(w, Root)
                      ELSE \A n \in DOMAIN w.root.pointers : Accounted(w, w.root.pointers[n])
  /\ Trusts(w) \subseteq Lawful(w)

WalkInv == Walking => WalkOK(walk)

ServedOK == served \in [Locations -> Publishable \cup {None}] /\ now \in Int

\* w2 is w after more has been read: what w justifies, w2 does.
Extends(w, w2) ==
  /\ w2.call = w.call /\ w2.at = w.at /\ w2.root = w.root
  /\ w.fetched \subseteq w2.fetched /\ w.anchors \subseteq w2.anchors
  /\ \A l : Reported(w, l) => Reported(w2, l)

LEMMA LawfulGrows ==
  ASSUME NEW w, NEW w2, Extends(w, w2)
  PROVE  Lawful(w) \subseteq Lawful(w2)
<1>1. RootsRead(w) \subseteq RootsRead(w2)
  BY DEF RootsRead, Extends
<1>2. PointedRead(w) \subseteq PointedRead(w2)
  BY <1>1 DEF PointedRead, Extends
<1> QED BY <1>1, <1>2, Zenon DEF Lawful, Extends

LEMMA AccountedGrows ==
  ASSUME NEW w, NEW w2, Extends(w, w2)
  PROVE  /\ \A l : Taken(w, l) => Taken(w2, l)
         /\ \A p : Accounted(w, p) => Accounted(w2, p)
         /\ RootStands(w) => RootStands(w2)
<1>1. \A l : Taken(w, l) => Taken(w2, l)
  BY DEF Extends, Taken
<1>2. RootStands(w) => RootStands(w2)
  BY DEF Extends, RootStands
<1>3. \A p : Accounted(w, p) => Accounted(w2, p)
  BY <1>1, Zenon DEF Extends, Accounted
<1> QED BY <1>1, <1>2, <1>3

\* A list that a walk reads, at a location that is the root or one that the
\* root points to, adds only certificates that it may trust.
LEMMA SelectedIsLawful ==
  ASSUME NEW w, w.call \in Calls, NEW f \in w.fetched,
         w.call.lane = "lote" /\ w.call.profile # None => f.list.type = w.call.profile.type,
         f \in PointedRead(w) \/ (w.call.lane # "lotl" /\ f \in RootsRead(w))
  PROVE  {a.cert : a \in Selected(w.call, f.list)} \subseteq Lawful(w)
<1> SUFFICES ASSUME NEW a \in Selected(w.call, f.list) PROVE a.cert \in Lawful(w)
  OBVIOUS
<1>1. PICK s \in FitServices(w.call, f.list) : s.cert = a.cert
  BY SelectedIsFit
<1>2. f \in PointedRead(w) \cup (IF w.call.lane = "lotl" THEN {} ELSE RootsRead(w))
  OBVIOUS
<1> QED BY <1>1, <1>2 DEF Lawful

\* A problem that is added is reported, and the earlier ones stay reported.
LEMMA ReportedGrows ==
  ASSUME NEW w, NEW w2, NEW q, w.problems \in Seq(Range(w.problems)),
         w2.problems = Append(w.problems, q)
  PROVE  /\ w2.problems \in Seq(Range(w2.problems))
         /\ Reported(w2, q.loc)
         /\ \A l : Reported(w, l) => Reported(w2, l)
<1> DEFINE S == Range(w.problems) \cup {q}
           n == Len(w.problems)
<1>1. /\ w2.problems \in Seq(S) /\ DOMAIN w.problems = 1..n /\ n \in Nat
      /\ DOMAIN w2.problems = 1..n + 1
      /\ w2.problems[n + 1] = q
      /\ \A i \in 1..n : w2.problems[i] = w.problems[i]
  BY DEF Range
<1>2. w2.problems \in Seq(Range(w2.problems))
  BY <1>1 DEF Range
<1>3. 1..n \subseteq 1..n + 1 /\ n + 1 \in 1..n + 1
  BY <1>1
<1> HIDE DEF n
<1> QED BY <1>1, <1>2, <1>3, Zenon DEF Reported

\* walk_lotl, walk_lote are called.
LEMMA CallOK ==
  ASSUME NEW c \in Calls, NEW t \in Int, NEW w2,
         w2 = [pc |-> "root", call |-> c, at |-> t, todo |-> <<>>, visited |-> {}, consumed |-> 0,
               root |-> None, anchors |-> {}, problems |-> <<>>, fetched |-> {}]
  PROVE  WalkOK(w2)
<1>1. WalkShape(w2)
  BY DEF WalkShape, WalkFields, Range
<1> QED BY <1>1 DEF WalkOK, Trusts

\* The root list cannot be used: it is reported, and nothing is trusted.
LEMMA RootFailsOK ==
  ASSUME NEW w, NEW w2, NEW stage, NEW f, WalkOK(w), w.pc = "root",
         w2 = [w EXCEPT !.pc = "done", !.problems = <<Problem(Root, stage)>>, !.fetched = {f}]
  PROVE  WalkOK(w2)
<1>1. DOMAIN w = WalkFields
  BY DEF WalkOK, WalkShape
<1>2. /\ DOMAIN w2 = WalkFields
      /\ w2.pc = "done" /\ w2.problems = <<Problem(Root, stage)>>
      /\ w2.call = w.call /\ w2.at = w.at /\ w2.root = w.root /\ w2.anchors = w.anchors
  BY <1>1, Zenon DEF WalkFields
<1>3. w2.problems \in Seq(Range(w2.problems)) /\ Reported(w2, Root)
  BY <1>2 DEF Range, Reported, Problem
<1>4. w2.root = None /\ w2.anchors = {}
  BY <1>2 DEF WalkOK
<1>5. WalkShape(w2)
  BY <1>2, <1>3, Zenon DEF WalkOK, WalkShape
<1> QED BY <1>2, <1>3, <1>4, <1>5 DEF WalkOK, Trusts

\* The root list is read: all of its pointers are left to do.
ReadsRoot(w, w2, list, f) ==
  /\ w.pc = "root" /\ list \in Publishable \cup {None}
  /\ f = [loc |-> Root, list |-> list]
  /\ Read(w.call, list, w.call.pinned, w.at) = "ok"
  /\ w2 = [w EXCEPT !.pc = "pointers", !.visited = {Root}, !.consumed = 1,
                    !.root = list, !.todo = list.pointers, !.fetched = {f},
                    !.anchors = IF w.call.lane = "lotl" THEN {} ELSE Selected(w.call, list)]

LEMMA RootReadOK ==
  ASSUME NEW w, NEW w2, NEW list, NEW f, WalkOK(w), ReadsRoot(w, w2, list, f)
  PROVE  WalkOK(w2)
<1> USE DEF ReadsRoot
<1>1. DOMAIN w = WalkFields /\ w.call \in Calls /\ w.at \in Int /\ w.problems = <<>>
  BY DEF WalkOK, WalkShape
<1>2. /\ DOMAIN w2 = WalkFields
      /\ w2.pc = "pointers" /\ w2.visited = {Root} /\ w2.root = list /\ w2.todo = list.pointers
      /\ w2.fetched = {f}
      /\ w2.anchors = IF w.call.lane = "lotl" THEN {} ELSE Selected(w.call, list)
      /\ w2.call = w.call /\ w2.at = w.at /\ w2.problems = w.problems
  BY <1>1, Zenon DEF WalkFields
<1>3. /\ list \in Publishable
      /\ Authentic(list, w.call.pinned, w.at) /\ InForce(list, w.at)
      /\ w.call.lane = "lote" /\ w.call.profile # None => list.type = w.call.profile.type
  BY <1>1, ReadOK
<1>10. <<>> \in Seq(Range(<<>>))
  BY DEF Range
<1>4. WalkShape(w2)
  BY <1>1, <1>2, <1>3, <1>10, Zenon DEF WalkShape
<1>5. f.loc = Root /\ f.list = list
  OBVIOUS
<1>6. f \in RootsRead(w2) /\ RootStands(w2)
  BY <1>2, <1>3, <1>5 DEF RootsRead, RootStands, Stands
<1>7. list # None /\ list.pointers \in Seq(Range(list.pointers))
  BY <1>3, PublishableShape
<1>8. TodoOK(w2)
  BY <1>2, <1>7 DEF TodoOK
<1>9. Trusts(w2) \subseteq Lawful(w2)
  <2>1. CASE w.call.lane = "lotl"
    BY <1>2, <2>1 DEF Trusts
  <2>2. CASE w.call.lane # "lotl"
    <3>1. {a.cert : a \in Selected(w2.call, f.list)} \subseteq Lawful(w2)
      BY <1>1, <1>2, <1>3, <1>5, <1>6, <2>2, SelectedIsLawful
    <3> QED BY <1>2, <1>5, <2>2, <3>1 DEF Trusts
  <2> QED BY <2>1, <2>2
<1> QED BY <1>2, <1>4, <1>6, <1>7, <1>8, <1>9 DEF WalkOK

\* The pointer at the head is one of the root list's, and the others stay.
LEMMA HeadOfTodo ==
  ASSUME NEW w, WalkOK(w), w.pc = "pointers", w.todo # <<>>
  PROVE  /\ w.root \in Publishable /\ w.root # None
         /\ \E n \in DOMAIN w.root.pointers : w.root.pointers[n] = Head(w.todo)
         /\ Head(w.todo).loc \in Locations \cup {None}
         /\ Tail(w.todo) \in Seq(Range(w.root.pointers))
         /\ \A m \in DOMAIN w.todo :
              w.todo[m] = Head(w.todo) \/ \E k \in DOMAIN Tail(w.todo) : Tail(w.todo)[k] = w.todo[m]
<1>1. w.root \in Publishable /\ w.root # None /\ w.todo \in Seq(Range(w.root.pointers))
  BY DEF WalkOK, WalkShape, TodoOK
<1>2. Head(w.todo) \in Range(w.root.pointers) /\ Tail(w.todo) \in Seq(Range(w.root.pointers))
  <2> DEFINE S == Range(w.root.pointers)
             todo == w.todo
  <2>1. todo \in Seq(S) /\ todo # <<>>
    BY <1>1
  <2> HIDE DEF S, todo
  <2>2. Head(todo) \in S /\ Tail(todo) \in Seq(S)
    BY <2>1
  <2> QED BY <2>2 DEF S, todo
<1>3. \E n \in DOMAIN w.root.pointers : w.root.pointers[n] = Head(w.todo)
  BY <1>2 DEF Range
<1>4. Head(w.todo).loc \in Locations \cup {None}
  BY <1>1, <1>3, PublishableShape
<1>5. ASSUME NEW m \in DOMAIN w.todo
      PROVE  w.todo[m] = Head(w.todo) \/ \E k \in DOMAIN Tail(w.todo) : Tail(w.todo)[k] = w.todo[m]
  <2>1. CASE m = 1
    BY <1>1, <2>1
  <2>2. CASE m # 1
    <3>1. m - 1 \in DOMAIN Tail(w.todo) /\ Tail(w.todo)[m - 1] = w.todo[m]
      BY <1>1, <2>2
    <3> QED BY <3>1
  <2> QED BY <2>1, <2>2
<1> QED BY <1>1, <1>2, <1>3, <1>4, <1>5

\* The head is done with: it is accounted for, and so is all that was.
LEMMA NextPointer ==
  ASSUME NEW w, NEW w2, WalkOK(w), w.pc = "pointers", w.todo # <<>>, Extends(w, w2),
         w2.todo = Tail(w.todo), Accounted(w2, Head(w.todo)),
         \A l \in w2.visited : l \in w.visited \/ Reported(w2, l) \/ Taken(w2, l)
  PROVE  TodoOK(w2)
<1>1. w2.root = w.root /\ \A l : Reported(w, l) => Reported(w2, l)
  BY DEF Extends
<1>2. /\ \A n \in DOMAIN w.root.pointers :
           Accounted(w, w.root.pointers[n]) \/ \E m \in DOMAIN w.todo : w.todo[m] = w.root.pointers[n]
      /\ \A l \in w.visited : l = Root \/ Reported(w, l) \/ Taken(w, l)
  BY DEF WalkOK, TodoOK
<1>3. \A l \in w2.visited : l = Root \/ Reported(w2, l) \/ Taken(w2, l)
  BY <1>1, <1>2, AccountedGrows, Zenon
<1>4. ASSUME NEW n \in DOMAIN w2.root.pointers
      PROVE  \/ Accounted(w2, w2.root.pointers[n])
             \/ \E m \in DOMAIN w2.todo : w2.todo[m] = w2.root.pointers[n]
  <2>1. CASE Accounted(w, w.root.pointers[n])
    <3>1. Accounted(w2, w.root.pointers[n])
      BY <2>1, AccountedGrows
    <3> QED BY <1>1, <3>1, Zenon
  <2>2. CASE \E m \in DOMAIN w.todo : w.todo[m] = w.root.pointers[n]
    <3>1. PICK m \in DOMAIN w.todo : w.todo[m] = w.root.pointers[n]
      BY <2>2
    <3>2. w.todo[m] = Head(w.todo) \/ \E k \in DOMAIN Tail(w.todo) : Tail(w.todo)[k] = w.todo[m]
      BY <3>1, HeadOfTodo, Zenon
    <3> QED BY <1>1, <3>1, <3>2, Zenon
  <2> QED BY <1>1, <1>2, <2>1, <2>2
<1> QED BY <1>1, <1>3, <1>4, HeadOfTodo, Zenon DEF TodoOK

\* What is passed over is so by a rule, or because its location was visited.
LEMMA SkippedIsAccounted ==
  ASSUME NEW w, WalkOK(w), w.pc = "pointers", NEW p, Skips(w, p)
  PROVE  Accounted(w, p)
<1> DEFINE select == Selection(w.call)
<1>1. w.call \in Calls /\ \A l \in w.visited : l = Root \/ Reported(w, l) \/ Taken(w, l)
  BY DEF WalkOK, WalkShape, TodoOK
<1>2. CASE p.loc = None \/ (w.call.lane = "lotl" /\ p.type \in WrongScheme)
  BY <1>2 DEF Accounted, ByRule
<1>3. CASE p.loc \in w.visited
  BY <1>1, <1>3 DEF Accounted, ByRule
<1>4. CASE select # None /\ ~ Admits(select.territories, p.territory)
  <2>1. w.call.select # Default
    <3> SUFFICES ASSUME w.call.select = Default PROVE FALSE
      OBVIOUS
    <3>1. \E types, statuses : select = Select(types, statuses, None)
      BY <1>4 DEF Selection
    <3>2. select.territories = None
      BY <3>1 DEF Select
    <3> QED BY <1>4, <3>2 DEF Admits
  <2>2. select = w.call.select
    BY <2>1 DEF Selection
  <2> QED BY <1>4, <2>1, <2>2 DEF Accounted, ByRule
<1> QED BY <1>2, <1>3, <1>4 DEF Skips

LEMMA SkipOK ==
  ASSUME NEW w, NEW w2, WalkOK(w), w.pc = "pointers", w.todo # <<>>, Skips(w, Head(w.todo)),
         w2 = [w EXCEPT !.todo = Tail(@)]
  PROVE  WalkOK(w2)
<1>1. DOMAIN w = WalkFields
  BY DEF WalkOK, WalkShape
<1>2. /\ DOMAIN w2 = WalkFields /\ w2.todo = Tail(w.todo)
      /\ w2.pc = w.pc /\ w2.call = w.call /\ w2.at = w.at /\ w2.visited = w.visited
      /\ w2.root = w.root /\ w2.anchors = w.anchors /\ w2.problems = w.problems
      /\ w2.fetched = w.fetched
  BY <1>1, Zenon DEF WalkFields
<1>3. Extends(w, w2)
  BY <1>2 DEF Extends, Reported
<1>4. Accounted(w2, Head(w.todo))
  BY <1>3, SkippedIsAccounted, AccountedGrows
<1>5. TodoOK(w2)
  BY <1>2, <1>3, <1>4, NextPointer
<1>6. WalkShape(w2)
  BY <1>2, Zenon DEF WalkOK, WalkShape
<1>7. Trusts(w2) \subseteq Lawful(w2)
  BY <1>2, <1>3, LawfulGrows DEF WalkOK, Trusts
<1>8. RootStands(w2)
  BY <1>3, AccountedGrows DEF WalkOK
<1> QED BY <1>2, <1>5, <1>6, <1>7, <1>8 DEF WalkOK

\* A pointer that is refused is reported.
LEMMA RefuseOK ==
  ASSUME NEW w, NEW w2, NEW stage, WalkOK(w), w.pc = "pointers", w.todo # <<>>,
         w2 = [w EXCEPT !.todo = Tail(@), !.problems = Append(@, Problem(Head(w.todo).loc, stage))]
  PROVE  WalkOK(w2)
<1>0. PICK q : q = Problem(Head(w.todo).loc, stage)
  OBVIOUS
<1>1. DOMAIN w = WalkFields /\ w.problems \in Seq(Range(w.problems))
  BY DEF WalkOK, WalkShape
<1>2. /\ DOMAIN w2 = WalkFields /\ w2.todo = Tail(w.todo)
      /\ w2.problems = Append(w.problems, q)
      /\ w2.pc = w.pc /\ w2.call = w.call /\ w2.at = w.at /\ w2.visited = w.visited
      /\ w2.root = w.root /\ w2.anchors = w.anchors
      /\ w2.fetched = w.fetched
  BY <1>0, <1>1, Zenon DEF WalkFields
<1>3. q.loc = Head(w.todo).loc
  BY <1>0 DEF Problem
<1>4. /\ w2.problems \in Seq(Range(w2.problems))
      /\ Reported(w2, q.loc)
      /\ \A l : Reported(w, l) => Reported(w2, l)
  <2>1. w.problems \in Seq(Range(w.problems))
    BY <1>1
  <2>2. w2.problems = Append(w.problems, q)
    BY <1>2
  <2> QED BY ONLY <2>1, <2>2, ReportedGrows
<1>5. Extends(w, w2)
  BY <1>2, <1>4 DEF Extends
<1>6. Accounted(w2, Head(w.todo))
  BY <1>3, <1>4 DEF Accounted
<1>7. TodoOK(w2)
  BY <1>2, <1>5, <1>6, NextPointer
<1>8. WalkShape(w2)
  BY <1>2, <1>4, Zenon DEF WalkOK, WalkShape
<1>9. Trusts(w2) \subseteq Lawful(w2)
  BY <1>2, <1>5, LawfulGrows DEF WalkOK, Trusts
<1>10. RootStands(w2)
  BY <1>5, AccountedGrows DEF WalkOK
<1> QED BY <1>2, <1>7, <1>8, <1>9, <1>10 DEF WalkOK

\* All pointers are done with.
LEMMA ReturnOK ==
  ASSUME NEW w, NEW w2, WalkOK(w), w.pc = "pointers", w.todo = <<>>, w2 = [w EXCEPT !.pc = "done"]
  PROVE  WalkOK(w2)
<1>1. DOMAIN w = WalkFields
  BY DEF WalkOK, WalkShape
<1>2. /\ DOMAIN w2 = WalkFields /\ w2.pc = "done"
      /\ w2.call = w.call /\ w2.at = w.at
      /\ w2.root = w.root /\ w2.anchors = w.anchors /\ w2.problems = w.problems
      /\ w2.fetched = w.fetched
  BY <1>1, Zenon DEF WalkFields
<1>3. Extends(w, w2)
  BY <1>2 DEF Extends, Reported
<1>4. w.root # None /\ \A n \in DOMAIN w.root.pointers : Accounted(w, w.root.pointers[n])
  BY DEF WalkOK, TodoOK
<1>5. \A n \in DOMAIN w2.root.pointers : Accounted(w2, w2.root.pointers[n])
  <2>1. \A n \in DOMAIN w.root.pointers : Accounted(w2, w.root.pointers[n])
    BY <1>3, <1>4, AccountedGrows
  <2> QED BY <1>2, <2>1, Zenon
<1>6. WalkShape(w2)
  BY <1>2, Zenon DEF WalkOK, WalkShape
<1>7. Trusts(w2) \subseteq Lawful(w2)
  BY <1>2, <1>3, LawfulGrows DEF WalkOK, Trusts
<1>8. RootStands(w2)
  BY <1>3, <1>4, AccountedGrows DEF WalkOK
<1> QED BY <1>2, <1>4, <1>5, <1>6, <1>7, <1>8 DEF WalkOK

\* A list that is read because a root that stands points to it is one whose
\* services may be trusted.
LEMMA FollowedIsPointed ==
  ASSUME NEW w, NEW w2, WalkOK(w), w.pc = "pointers", w.todo # <<>>, Extends(w, w2),
         NEW f \in w2.fetched, f.loc = Head(w.todo).loc,
         Stands(f, Vouchers(w, Head(w.todo)), w.at)
  PROVE  f \in PointedRead(w2)
<1>1. PICK n \in DOMAIN w.root.pointers : w.root.pointers[n] = Head(w.todo)
  BY HeadOfTodo
<1>2. PICK r \in w.fetched : r.loc = Root /\ r.list = w.root /\ Stands(r, w.call.pinned, w.at)
  BY HeadOfTodo DEF WalkOK, RootStands
<1>3. r \in RootsRead(w2)
  BY <1>2 DEF RootsRead, Extends
<1>4. Vouchers(w, Head(w.todo)) = r.list.pointers[n].certs \ {None}
  BY <1>1, <1>2 DEF Vouchers
<1>5. r.list.pointers[n].loc = f.loc /\ n \in DOMAIN r.list.pointers
  BY <1>1, <1>2
<1>6. Stands(f, r.list.pointers[n].certs \ {None}, w2.at)
  BY <1>4, Zenon DEF Extends
<1> QED BY <1>3, <1>5, <1>6 DEF PointedRead

\* A list is fetched for the pointer at the head: its services are selected,
\* or it is reported.
Follows(w, w2, p, stage, list, f) ==
  /\ w.pc = "pointers" /\ w.todo # <<>> /\ p = Head(w.todo)
  /\ list \in Publishable \cup {None}
  /\ f = [loc |-> p.loc, list |-> list]
  /\ stage = Read(w.call, list, Vouchers(w, p), w.at)
  /\ w2 = [w EXCEPT !.todo = AfterList(@, stage), !.consumed = @ + 1,
                    !.visited = @ \cup {p.loc}, !.fetched = @ \cup {f},
                    !.anchors = IF stage = "ok" THEN @ \cup Selected(w.call, list) ELSE @,
                    !.problems = IF stage = "ok" THEN @ ELSE Append(@, Problem(p.loc, stage))]

LEMMA FollowOK ==
  ASSUME NEW w, NEW w2, NEW p, NEW stage, NEW list, NEW f,
         WalkOK(w), Follows(w, w2, p, stage, list, f)
  PROVE  WalkOK(w2)
<1> USE DEF Follows
<1>1. /\ DOMAIN w = WalkFields /\ w.call \in Calls /\ w.at \in Int
      /\ w.problems \in Seq(Range(w.problems)) /\ w.root # None
  BY DEF WalkOK, WalkShape
<1>2. PICK q : q = Problem(p.loc, stage)
  OBVIOUS
<1>3. /\ DOMAIN w2 = WalkFields /\ w2.todo = Tail(w.todo)
      /\ w2.visited = w.visited \cup {p.loc} /\ w2.fetched = w.fetched \cup {f}
      /\ w2.anchors = IF stage = "ok" THEN w.anchors \cup Selected(w.call, list) ELSE w.anchors
      /\ w2.problems = IF stage = "ok" THEN w.problems ELSE Append(w.problems, q)
      /\ w2.pc = w.pc /\ w2.call = w.call /\ w2.at = w.at /\ w2.root = w.root
  BY <1>1, <1>2, Zenon DEF WalkFields, AfterList
<1>4. f.loc = p.loc /\ f.list = list /\ q.loc = p.loc
  BY <1>2 DEF Problem
<1>5. /\ w2.problems \in Seq(Range(w2.problems))
      /\ \A l : Reported(w, l) => Reported(w2, l)
      /\ stage # "ok" => Reported(w2, q.loc)
  <2>1. CASE stage = "ok"
    <3>1. w2.problems = w.problems
      BY <1>3, <2>1
    <3> QED BY <1>1, <2>1, <3>1 DEF Reported
  <2>2. CASE stage # "ok"
    <3>1. w.problems \in Seq(Range(w.problems))
      BY <1>1
    <3>2. w2.problems = Append(w.problems, q)
      BY <1>3, <2>2
    <3> QED BY ONLY <3>1, <3>2, ReportedGrows
  <2> QED BY <2>1, <2>2
<1>6. w.fetched \subseteq w2.fetched /\ w.anchors \subseteq w2.anchors /\ f \in w2.fetched
  BY <1>3
<1>7. Extends(w, w2)
  BY <1>3, <1>5, <1>6 DEF Extends
<1>8. stage = "ok" => /\ list \in Publishable
                      /\ Authentic(list, Vouchers(w, p), w.at) /\ InForce(list, w.at)
                      /\ w.call.lane = "lote" /\ w.call.profile # None =>
                           list.type = w.call.profile.type
  BY <1>1, ReadOK
<1>9. Reported(w2, p.loc) \/ Taken(w2, p.loc)
  <2>1. CASE stage = "ok"
    <3>1. list # None
      BY <1>8, <2>1 DEF Publishable
    <3>2. Selected(w2.call, f.list) \subseteq w2.anchors
      BY <1>3, <1>4, <2>1
    <3> QED BY <1>4, <1>6, <3>1, <3>2 DEF Taken
  <2>2. CASE stage # "ok"
    BY <1>4, <1>5, <2>2
  <2> QED BY <2>1, <2>2
<1>10. TodoOK(w2)
  <2>1. Accounted(w2, Head(w.todo))
    BY <1>9 DEF Accounted
  <2>2. \A l \in w2.visited : l \in w.visited \/ Reported(w2, l) \/ Taken(w2, l)
    BY <1>3, <1>9
  <2> QED BY <1>3, <1>7, <2>1, <2>2, NextPointer
<1>11. Trusts(w2) \subseteq Lawful(w2)
  <2>1. Trusts(w) \subseteq Lawful(w2)
    BY <1>7, LawfulGrows DEF WalkOK
  <2>2. CASE stage # "ok"
    BY <1>3, <2>1, <2>2 DEF Trusts
  <2>3. CASE stage = "ok"
    <3>1. Stands(f, Vouchers(w, Head(w.todo)), w.at)
      BY <1>4, <1>8, <2>3 DEF Stands
    <3>2. f \in PointedRead(w2)
      BY <1>4, <1>6, <1>7, <3>1, FollowedIsPointed
    <3>3. {a.cert : a \in Selected(w2.call, f.list)} \subseteq Lawful(w2)
      BY <1>1, <1>3, <1>4, <1>6, <1>8, <2>3, <3>2, SelectedIsLawful
    <3> QED BY <1>3, <1>4, <2>1, <2>3, <3>3 DEF Trusts
  <2> QED BY <2>2, <2>3
<1>12. WalkShape(w2)
  BY <1>3, <1>5, Zenon DEF WalkOK, WalkShape
<1>13. RootStands(w2)
  BY <1>1, <1>7, AccountedGrows DEF WalkOK
<1> QED BY <1>1, <1>3, <1>10, <1>11, <1>12, <1>13 DEF WalkOK

----------------------------------------------------------------------------
(***************************************************************************)
(* The answer to a relying party.                                          *)
(***************************************************************************)
LEMMA RegistrationOK ==
  ASSUME NEW reg, NEW policy, NEW anchors, NEW at,
         VerifyRegistration(reg, policy, anchors, at) = "ok"
  PROVE  /\ \E inter : PathValid(reg.signedBy, inter, anchors, at)
         /\ DatesOK(reg) /\ TemporalOK(reg, policy, at)
<1> DEFINE leaf == reg.chain[1]
           rest == {reg.chain[n] : n \in 2..Len(reg.chain)} \cup policy.intermediates
           row == << Check(anchors # {}, "anchors"),
                    Check(EnvelopeOK(reg), "envelope"),
                    Check(reg.chain # <<>>, "chain"),
                    Check(reg.chain # <<>> => ValidateCertChain(leaf, rest, anchors, at), "path"),
                    Check(reg.chain # <<>> /\ policy.eku # None => policy.eku \in Certs[leaf].eku, "eku"),
                    Check(reg.chain # <<>> => UsableKey(leaf), "key"),
                    Check(reg.chain # <<>> => SignatureOK(reg, leaf), "signature"),
                    Check(DatesOK(reg), "dates"),
                    Check(DatesOK(reg) => TemporalOK(reg, policy, at), "temporal"),
                    Check(policy.requireEntitlement => reg.entitled, "entitlement") >>
<1>1. FirstError(row) = "ok"
  BY DEF VerifyRegistration
<1> HIDE DEF rest
<1>2. DOMAIN row = 1..10 /\ \A i \in 1..10 : row[i].err # "ok"
  BY DEF Check
<1>3. /\ row[3].ok = (reg.chain # <<>>)
      /\ row[4].ok = (reg.chain # <<>> => ValidateCertChain(leaf, rest, anchors, at))
      /\ row[7].ok = (reg.chain # <<>> => SignatureOK(reg, leaf))
      /\ row[8].ok = DatesOK(reg)
      /\ row[9].ok = (DatesOK(reg) => TemporalOK(reg, policy, at))
  BY DEF Check
<1> HIDE DEF row, leaf
<1>4. 10 \in Nat /\ 3 \in 1..10 /\ 4 \in 1..10 /\ 7 \in 1..10 /\ 8 \in 1..10 /\ 9 \in 1..10
  OBVIOUS
<1>5. \A i \in 1..10 : row[i].ok
  BY <1>1, <1>2, <1>4, FirstErrorOK, Zenon
<1>6. /\ ValidateCertChain(leaf, rest, anchors, at) /\ reg.signedBy = leaf
      /\ DatesOK(reg) /\ TemporalOK(reg, policy, at)
  BY <1>3, <1>4, <1>5, Zenon DEF SignatureOK
<1> QED BY <1>6, Zenon DEF ValidateCertChain

LEMMA AccessOK ==
  ASSUME NEW cert, NEW inter, NEW anchors, NEW eku, NEW at,
         VerifyAccess(cert, inter, anchors, eku, at) = "ok"
  PROVE  Len(Certs[cert].ids) <= 1
<1> DEFINE row == << Check(ValidateCertChain(cert, inter, anchors, at), "path"),
                Check(SingleValued(cert), "subject"),
                Check(eku # None => eku \in Certs[cert].eku, "eku") >>
<1>1. FirstError(row) = "ok"
  BY DEF VerifyAccess
<1>2. DOMAIN row = 1..3 /\ \A i \in 1..3 : row[i].err # "ok"
  BY DEF Check
<1>3. row[2].ok = SingleValued(cert)
  BY DEF Check
<1> HIDE DEF row
<1>4. 3 \in Nat /\ 2 \in 1..3
  OBVIOUS
<1>5. \A i \in 1..3 : row[i].ok
  BY <1>1, <1>2, <1>4, FirstErrorOK, Zenon
<1> QED BY <1>3, <1>4, <1>5, Zenon DEF SingleValued

\* What the four checks of an answer establish together.
LEMMA AuthorizeOK ==
  ASSUME NEW r, NEW policy, NEW at, Authorize(r, policy, at) = "ok"
  PROVE  /\ VerifyAccess(r.access, policy.intermediates, AccessAnchors, policy.accessEku, at) = "ok"
         /\ VerifyRegistration(r.reg, policy, trusted, at) = "ok"
         /\ MatchesAccess(r.reg, AccessOf(r.access), policy)
         /\ WithinRegistration(r.reg, r.queries, policy.use)
<1> DEFINE A == VerifyAccess(r.access, policy.intermediates, AccessAnchors, policy.accessEku, at)
           B == VerifyRegistration(r.reg, policy, trusted, at)
           row == << Check(A = "ok", "access"), Check(B = "ok", "registration"),
                     Check(MatchesAccess(r.reg, AccessOf(r.access), policy), "party"),
                     Check(WithinRegistration(r.reg, r.queries, policy.use), "scope") >>
<1>1. FirstError(row) = "ok"
  BY DEF Authorize
<1> HIDE DEF A, B
<1>2. DOMAIN row = 1..4 /\ \A i \in 1..4 : row[i].err # "ok"
  BY DEF Check
<1>3. /\ row[1].ok = (A = "ok") /\ row[2].ok = (B = "ok")
      /\ row[3].ok = MatchesAccess(r.reg, AccessOf(r.access), policy)
      /\ row[4].ok = WithinRegistration(r.reg, r.queries, policy.use)
  BY DEF Check
<1> HIDE DEF row
<1>4. 4 \in Nat /\ 1 \in 1..4 /\ 2 \in 1..4 /\ 3 \in 1..4 /\ 4 \in 1..4
  OBVIOUS
<1>5. \A i \in 1..4 : row[i].ok
  BY <1>1, <1>2, <1>4, FirstErrorOK, Zenon
<1> QED BY <1>3, <1>4, <1>5, Zenon DEF A, B

\* A registrar's certificate that a path leads to is one of the anchors, or
\* was issued under one.
LEMMA PathLeadsToAnchor ==
  ASSUME NEW leaf, NEW inter, NEW anchors, NEW L, NEW at, anchors \subseteq L,
         PathValid(leaf, inter, anchors, at)
  PROVE  /\ InWindow(leaf, at)
         /\ \/ leaf \in L
            \/ Certs[leaf].by \in L
            \/ Certs[Certs[leaf].by].by \in L /\ Certs[Certs[leaf].by].ca
BY Zenon DEF PathValid

ListedParty(r, at, L) ==
  LET leaf == r.reg.signedBy
  IN  /\ InWindow(leaf, at)
      /\ \/ leaf \in L
         \/ Certs[leaf].by \in L
         \/ Certs[Certs[leaf].by].by \in L /\ Certs[Certs[leaf].by].ca
      /\ Certs[r.access].ids = <<r.reg.sub>>
      /\ r.reg.exp # None => at <= r.reg.exp + Leeway

LEMMA PartyIsListed ==
  ASSUME NEW r \in Requests, NEW policy, NEW at \in Int, NEW L, trusted \subseteq L,
         Authorize(r, policy, at) = "ok"
  PROVE  ListedParty(r, at, L)
<1> DEFINE ids == Certs[r.access].ids
<1>1. /\ VerifyAccess(r.access, policy.intermediates, AccessAnchors, policy.accessEku, at) = "ok"
      /\ VerifyRegistration(r.reg, policy, trusted, at) = "ok"
      /\ MatchesAccess(r.reg, AccessOf(r.access), policy)
  BY AuthorizeOK
<1>2. PICK inter : PathValid(r.reg.signedBy, inter, trusted, at)
  BY <1>1, RegistrationOK
<1>3. DatesOK(r.reg) /\ TemporalOK(r.reg, policy, at)
  BY <1>1, RegistrationOK
<1>4. r.reg.exp # None => at <= r.reg.exp + Leeway
  <2>1. r.reg.exp \in Int \cup {None} /\ Leeway \in Int
    BY <1>3, WalletAssumption DEF DatesOK
  <2>2. r.reg.exp # None => at - r.reg.exp <= Leeway
    BY <1>3 DEF TemporalOK
  <2> QED BY <2>1, <2>2
<1>5. ids = <<r.reg.sub>>
  <2>1. ids \in Seq(Range(ids)) /\ Len(ids) <= 1
    BY <1>1, AccessOK, WalletAssumption
  <2>2. r.reg.sub = SubjectValue(ids) /\ SubjectValue(ids) # None
    BY <1>1 DEF MatchesAccess, AccessOf
  <2> HIDE DEF ids
  <2>3. ids # <<>> /\ ids[1] = r.reg.sub
    BY <2>2 DEF SubjectValue
  <2>4. PICK S : ids \in Seq(S)
    BY <2>1
  <2>6. Len(ids) \in Nat /\ (Len(ids) = 0 => ids = <<>>)
    BY ONLY <2>4
  <2>7. PICK n : n = Len(ids)
    OBVIOUS
  <2>8. n \in Nat /\ n # 0 /\ n <= 1
    BY <2>1, <2>3, <2>6, <2>7, Zenon
  <2>9. n = 1
    BY ONLY <2>8
  <2>5. Len(ids) = 1
    BY ONLY <2>7, <2>9
  <2> QED BY <2>3, <2>4, <2>5
<1> QED BY <1>2, <1>4, <1>5, PathLeadsToAnchor DEF ListedParty

(***************************************************************************)
(* The scope.                                                              *)
(***************************************************************************)
\* A registered path that covers a requested one selects all that it selects.
LEMMA CoveringSelectsMore ==
  ASSUME NEW g, NEW p, NEW type \in DOMAIN Leaves, NEW leaf \in Selects(p, type),
         g \in Seq(Range(g)), p \in Seq(Range(p)), PathCovered(g, p)
  PROVE  leaf \in Selects(g, type)
<1>1. /\ leaf \in Leaves[type] /\ leaf \in Seq(Range(leaf)) /\ Len(p) <= Len(leaf)
      /\ \A n \in DOMAIN p : p[n] = None \/ p[n] = leaf[n]
  BY WalletAssumption DEF Selects
<1>2. /\ Len(g) <= Len(p)
      /\ \A n \in DOMAIN g : g[n] # None => g[n] = p[n]
  BY DEF PathCovered
<1>3. /\ Len(g) \in Nat /\ Len(p) \in Nat /\ Len(leaf) \in Nat
      /\ DOMAIN g = 1..Len(g) /\ DOMAIN p = 1..Len(p)
  BY <1>1
<1>4. Len(g) <= Len(leaf) /\ DOMAIN g \subseteq DOMAIN p
  BY <1>1, <1>2, <1>3
<1>5. \A n \in DOMAIN g : g[n] = None \/ g[n] = leaf[n]
  BY <1>1, <1>2, <1>4
<1> QED BY <1>1, <1>4, <1>5 DEF Selects

\* The type of a credential that the query admits is one that the entry does,
\* as far as the two are compared.
LEMMA CoveredMetaAdmits ==
  ASSUME NEW e, NEW q, NEW type \in TypesOf(q.meta),
         MetaCovered(e.meta, IF q.meta = Malformed THEN NoMeta ELSE q.meta)
  PROVE  e.meta # Malformed /\ type \in TypesOf(Compared(e.meta, q.meta))
<1>1. e.meta # Malformed /\ type \in DOMAIN Leaves
  BY DEF MetaCovered, TypesOf
<1>2. CASE q.meta = Malformed
  <2>1. DOMAIN e.meta = {} /\ Compared(e.meta, q.meta) = e.meta
    BY <1>2 DEF MetaCovered, NoMeta, Compared
  <2> QED BY <1>1, <2>1 DEF TypesOf
<1>3. CASE q.meta # Malformed /\ DOMAIN q.meta = {}
  <2>1. DOMAIN e.meta = {} /\ Compared(e.meta, q.meta) = e.meta
    BY <1>3 DEF MetaCovered, Compared
  <2> QED BY <1>1, <2>1 DEF TypesOf
<1>4. CASE q.meta # Malformed /\ DOMAIN q.meta # {}
  <2> DEFINE c == Compared(e.meta, q.meta)
  <2>1. c = [k \in DOMAIN e.meta \cap DOMAIN q.meta |-> e.meta[k]]
    BY <1>4, Zenon DEF Compared
  <2> HIDE DEF c
  <2>2. \A k \in DOMAIN q.meta : q.meta[k].vals \subseteq e.meta[k].vals
    BY <1>4 DEF MetaCovered
  <2>3. \A k \in DOMAIN q.meta : type \in q.meta[k].vals
    BY <1>4 DEF TypesOf
  <2>4. \A k \in DOMAIN c : c[k] = e.meta[k] /\ k \in DOMAIN q.meta
    BY <2>1
  <2>5. \A k \in DOMAIN c : type \in c[k].vals
    BY <2>2, <2>3, <2>4
  <2> QED BY <1>1, <2>5, Zenon DEF TypesOf, c
<1> QED BY <1>2, <1>3, <1>4

WithinScope(r) ==
  \A q \in r.queries : \A type \in TypesOf(q.meta) :
    StaysWithin(q, type, {e \in r.reg.credentials :
                            /\ e.format = q.format /\ e.meta # Malformed
                            /\ type \in TypesOf(Compared(e.meta, q.meta))})

LEMMA RequestIsInScope ==
  ASSUME NEW r \in Requests, NEW use, WithinRegistration(r.reg, r.queries, use)
  PROVE  WithinScope(r)
<1> SUFFICES ASSUME NEW q \in r.queries, NEW type \in TypesOf(q.meta)
             PROVE  StaysWithin(q, type, {e \in r.reg.credentials :
                      /\ e.format = q.format /\ e.meta # Malformed
                      /\ type \in TypesOf(Compared(e.meta, q.meta))})
  BY Zenon DEF WithinScope
<1> DEFINE E == {e \in r.reg.credentials :
                   /\ e.format = q.format /\ e.meta # Malformed
                   /\ type \in TypesOf(Compared(e.meta, q.meta))}
<1>1. QueryCovered(r.reg, q) /\ type \in DOMAIN Leaves
  BY DEF WithinRegistration, TypesOf
<1>2. ASSUME NEW p \in AskedFor(q), NEW leaf \in Selects(p, type)
      PROVE  \E g \in GrantedBy(E) : leaf \in Selects(g, type)
  <2>1. p \in RequestedPaths(q)
    BY DEF RequestedPaths, AskedFor
  <2>2. PICK e \in r.reg.credentials :
          /\ e.format = q.format
          /\ MetaCovered(e.meta, IF q.meta = Malformed THEN NoMeta ELSE q.meta)
          /\ \E g \in RegisteredPaths(e) : PathCovered(g, p)
    BY <1>1, <2>1 DEF QueryCovered
  <2>3. PICK g \in RegisteredPaths(e) : PathCovered(g, p)
    BY <2>2
  <2>4. g \in Seq(Range(g)) /\ p \in Seq(Range(p))
    BY <2>1, <2>3, WalletAssumption
  <2>5. leaf \in Selects(g, type)
    BY <1>1, <2>3, <2>4, CoveringSelectsMore
  <2>6. e \in E
    BY <2>2, CoveredMetaAdmits
  <2>7. g # <<>>
    BY <2>3 DEF PathCovered
  <2>8. g \in IF e.claim # None THEN e.claim ELSE IF e.claims # None THEN e.claims ELSE {}
    BY <2>3 DEF RegisteredPaths
  <2> HIDE DEF E
  <2>9. g \in GrantedBy(E)
    BY <2>6, <2>7, <2>8 DEF GrantedBy
  <2> QED BY <2>5, <2>9
<1> HIDE DEF E
<1>3. StaysWithin(q, type, E)
  BY <1>2 DEF StaysWithin
<1> QED BY <1>3 DEF E

----------------------------------------------------------------------------
(***************************************************************************)
(* The specification.  What a wallet has adopted the lists justified, and  *)
(* it does not walk them again.                                            *)
(***************************************************************************)
AnswerOK ==
  answer # None =>
    /\ trusted # None
    /\ answer.result = "ok" => ListedParty(answer.request, answer.at, lawful) /\ WithinScope(answer.request)

AdoptedOK == trusted # None => trusted \subseteq lawful /\ walk.pc = "adopted"

WalletInv == ServedOK /\ WalkInv /\ AdoptedOK /\ AnswerOK

LEMMA InitWalletInv == Init => WalletInv
<1> SUFFICES ASSUME Init PROVE WalletInv
  OBVIOUS
<1>1. served \in [Locations -> Publishable \cup {None}]
  BY DEF Init, ListInit, Publishable
<1>2. WalkInv
  BY DEF Init, ListInit, WalkInv, Walking, Idle
<1> QED BY <1>1, <1>2 DEF Init, ListInit, WalletInv, ServedOK, AdoptedOK, AnswerOK

\* The steps of a walk, and the call.
LEMMA WalkStepInv ==
  ASSUME WalletInv, (\E c \in Calls : Call(c)) \/ WalkStep
  PROVE  WalkInv' /\ walk.pc # "adopted"
<1>1. /\ \A l \in Locations : served[l] \in Publishable \cup {None}
      /\ Walking => WalkOK(walk)
      /\ now \in Int /\ Root \in Locations
  BY ListsAssumption DEF WalletInv, ServedOK, WalkInv
<1>2. CASE \E c \in Calls : Call(c)
  BY <1>1, <1>2, CallOK DEF Call, WalkInv, Idle
<1>3. CASE RootFails
  <2>1. WalkOK(walk')
    BY <1>1, <1>3, RootFailsOK DEF RootFails, Walking
  <2> QED BY <1>3, <2>1 DEF RootFails, WalkInv
<1>4. CASE RootRead
  <2>2. PICK list \in Publishable \cup {None} : list = served[Root]
    BY <1>1
  <2>3. PICK f : f = [loc |-> Root, list |-> list]
    OBVIOUS
  <2>4. /\ WalkOK(walk) /\ walk.pc = "root"
        /\ Read(walk.call, list, walk.call.pinned, walk.at) = "ok"
        /\ list \in Publishable \cup {None}
    BY <1>1, <1>4, <2>2 DEF RootRead, Walking
  <2>5. walk' = [walk EXCEPT !.pc = "pointers", !.visited = {Root}, !.consumed = 1,
                   !.root = list, !.todo = list.pointers, !.fetched = {f},
                   !.anchors = IF walk.call.lane = "lotl" THEN {} ELSE Selected(walk.call, list)]
    BY <1>4, <2>2, <2>3, Zenon DEF RootRead, Fetched
  <2>6. ReadsRoot(walk, walk', list, f)
    BY <2>3, <2>4, <2>5, Zenon DEF ReadsRoot
  <2>1. WalkOK(walk')
    BY <2>4, <2>6, RootReadOK
  <2> QED BY <1>4, <2>1 DEF RootRead, WalkInv
<1>5. CASE Skip
  <2>1. WalkOK(walk')
    BY <1>1, <1>5, SkipOK DEF Skip, Walking
  <2> QED BY <1>5, <2>1 DEF Skip, WalkInv
<1>6. CASE Refuse
  <2>1. WalkOK(walk')
    BY <1>1, <1>6, RefuseOK DEF Refuse, Walking
  <2> QED BY <1>6, <2>1 DEF Refuse, WalkInv
<1>7. CASE Follow
  <2> DEFINE p == Head(walk.todo)
  <2>1. /\ walk.pc = "pointers" /\ walk.todo # <<>> /\ WalkOK(walk) /\ ~ Skips(walk, p)
    BY <1>1, <1>7 DEF Follow, Walking
  <2>2. p.loc \in Locations
    BY <2>1, HeadOfTodo DEF Skips
  <2>3. served[p.loc] \in Publishable \cup {None}
    BY <1>1, <2>2
  <2>5. PICK list \in Publishable \cup {None} : list = served[p.loc]
    BY <2>3
  <2>6. PICK f : f = [loc |-> p.loc, list |-> list]
    OBVIOUS
  <2>7. PICK stage : stage = Read(walk.call, list, Vouchers(walk, p), walk.at)
    OBVIOUS
  <2>9. list \in Publishable \cup {None}
    OBVIOUS
  <2>8. walk' = [walk EXCEPT !.todo = AfterList(@, stage), !.consumed = @ + 1,
                   !.visited = @ \cup {p.loc}, !.fetched = @ \cup {f},
                   !.anchors = IF stage = "ok" THEN @ \cup Selected(walk.call, list) ELSE @,
                   !.problems = IF stage = "ok" THEN @ ELSE Append(@, Problem(p.loc, stage))]
    BY <1>7, <2>5, <2>6, <2>7, Zenon DEF Follow, Fetched
  <2>10. Follows(walk, walk', p, stage, list, f)
    BY <2>1, <2>6, <2>7, <2>8, <2>9, Zenon DEF Follows
  <2>4. WalkOK(walk')
    BY <2>1, <2>10, FollowOK
  <2> QED BY <2>1, <2>4 DEF WalkInv
<1>8. CASE Return
  <2>1. WalkOK(walk')
    BY <1>1, <1>8, ReturnOK DEF Return, Walking
  <2> QED BY <1>8, <2>1 DEF Return, WalkInv
<1>9. CASE Raise
  BY <1>9 DEF Raise, WalkInv, Walking
<1> QED BY <1>2, <1>3, <1>4, <1>5, <1>6, <1>7, <1>8, <1>9 DEF WalkStep

\* The lists change, or time passes: the walk is where it was.
LEMMA OutsideStepInv ==
  ASSUME WalletInv, Publish \/ Tick
  PROVE  ServedOK' /\ walk' = walk
<1>1. served \in [Locations -> Publishable \cup {None}] /\ now \in Int
  BY DEF WalletInv, ServedOK
<1>2. CASE Publish
  <2>1. PICK loc \in Locations : \E list \in Pool[loc] \ {served[loc]} :
          served' = [served EXCEPT ![loc] = list]
    BY <1>2 DEF Publish
  <2>2. served' \in [Locations -> Publishable \cup {None}]
    BY <1>1, <2>1 DEF Publishable
  <2> QED BY <1>1, <1>2, <2>2 DEF Publish, ServedOK
<1>3. CASE Tick
  BY <1>1, <1>3 DEF Tick, ServedOK
<1> QED BY <1>2, <1>3

\* What a walk accepted stands: the wallet adopts nothing else.
LEMMA AdoptInv == WalletInv /\ Adopt => WalletInv'
<1> SUFFICES ASSUME WalletInv, Adopt PROVE WalletInv'
  OBVIOUS
<1>1. WalkOK(walk) /\ trusted = None
  BY DEF WalletInv, WalkInv, Walking, AdoptedOK, Adopt
<1>2. trusted' \subseteq lawful' /\ walk'.pc = "adopted"
  BY <1>1 DEF Adopt, WalkOK, Trusts
<1>3. answer' = None
  BY <1>1 DEF WalletInv, AnswerOK, Adopt
<1>4. ServedOK'
  BY DEF WalletInv, ServedOK, Adopt
<1> QED BY <1>2, <1>3, <1>4 DEF WalletInv, AdoptedOK, AnswerOK, WalkInv, Walking

LEMMA AnswerInv ==
  ASSUME WalletInv, NEW r \in Requests, NEW policy \in Policies, Answer(r, policy)
  PROVE  WalletInv'
<1>1. /\ trusted # None /\ trusted \subseteq lawful /\ now \in Int
  BY DEF WalletInv, AdoptedOK, ServedOK, Answer
<1>2. /\ answer'.request = r /\ answer'.at = now /\ answer'.result = Authorize(r, policy, now)
      /\ trusted' = trusted /\ lawful' = lawful /\ walk' = walk /\ served' = served /\ now' = now
  BY DEF Answer
<1>3. ASSUME Authorize(r, policy, now) = "ok"
      PROVE  ListedParty(r, now, lawful) /\ WithinScope(r)
  <2>1. ListedParty(r, now, lawful)
    BY <1>1, <1>3, PartyIsListed
  <2>2. WithinRegistration(r.reg, r.queries, policy.use)
    BY <1>3, AuthorizeOK
  <2> QED BY <2>1, <2>2, RequestIsInScope
<1>4. AnswerOK'
  BY <1>1, <1>2, <1>3, Zenon DEF AnswerOK
<1>5. (ServedOK /\ WalkInv /\ AdoptedOK)'
  BY <1>2 DEF WalletInv, ServedOK, WalkInv, Walking, AdoptedOK
<1> QED BY <1>4, <1>5 DEF WalletInv

LEMMA NextWalletInv == WalletInv /\ [Next]_vars => WalletInv'
<1> SUFFICES ASSUME WalletInv, [Next]_vars PROVE WalletInv'
  OBVIOUS
<1>1. CASE (\E c \in Calls : Call(c)) \/ WalkStep
  <2>1. WalkInv' /\ walk.pc # "adopted"
    BY <1>1, WalkStepInv
  <2>2. UNCHANGED <<now, served, changes>>
    BY <1>1 DEF Call, WalkStep, RootFails, RootRead, Skip, Refuse, Follow, Return, Raise
  <2>3. trusted = None /\ answer = None
    BY <2>1 DEF WalletInv, AdoptedOK, AnswerOK
  <2>4. CASE UNCHANGED <<trusted, lawful, answer>>
    BY <2>1, <2>2, <2>3, <2>4 DEF WalletInv, ServedOK, AdoptedOK, AnswerOK
  <2>5. CASE UNCHANGED vars
    BY <2>1, <2>2, <2>3, <2>5 DEF WalletInv, ServedOK, AdoptedOK, AnswerOK, vars
  <2>6. CASE Adopt
    BY <2>6, AdoptInv
  <2>7. CASE \E r \in Requests, policy \in Policies : Answer(r, policy)
    BY <2>7, AnswerInv
  <2> QED BY <2>4, <2>5, <2>6, <2>7 DEF Next
<1>2. CASE (Publish \/ Tick) /\ UNCHANGED <<trusted, lawful, answer>>
  <2>1. ServedOK' /\ walk' = walk
    BY <1>2, OutsideStepInv
  <2> QED BY <1>2, <2>1 DEF WalletInv, WalkInv, Walking, AdoptedOK, AnswerOK
<1>3. CASE Adopt
  BY <1>3, AdoptInv
<1>4. CASE \E r \in Requests, policy \in Policies : Answer(r, policy)
  BY <1>4, AnswerInv
<1>5. CASE UNCHANGED vars
  BY <1>5 DEF vars, WalletInv, ServedOK, WalkInv, Walking, AdoptedOK, AnswerOK
<1> QED BY <1>1, <1>2, <1>3, <1>4, <1>5 DEF Next, ListNext

LEMMA SpecWalletInv == Spec => []WalletInv
BY InitWalletInv, NextWalletInv, PTL DEF Spec

(***************************************************************************)
(* However the lists change while a walk reads them, each certificate it   *)
(* trusts is of a service of a list that is signed for the pinned key, or  *)
(* for a key that such a root list gives for that location, and that is in *)
(* force (walk_lotl, walk_lote).                                           *)
(***************************************************************************)
THEOREM TrustIsVouchedFor == Spec => []AnchorsAreVouchedFor
<1>1. WalletInv => AnchorsAreVouchedFor
  BY DEF WalletInv, WalkInv, WalkOK, Trusts, AnchorsAreVouchedFor
<1> QED BY <1>1, SpecWalletInv, PTL

(***************************************************************************)
(* A walk that returns has an account of every list that the root points   *)
(* to, whatever became of the others (walk_lotl, walk_lote).               *)
(***************************************************************************)
THEOREM WalkAccountsForLists == Spec => []EveryListIsAccountedFor
<1>1. WalletInv => EveryListIsAccountedFor
  <2> SUFFICES ASSUME WalletInv, walk.pc = "done" PROVE EveryListIsAccountedFor
    BY DEF EveryListIsAccountedFor
  <2>1. IF walk.root = None THEN Reported(walk, Root)
        ELSE \A n \in DOMAIN walk.root.pointers : Accounted(walk, walk.root.pointers[n])
    BY DEF WalletInv, WalkInv, Walking, WalkOK
  <2> QED BY <2>1, Zenon DEF EveryListIsAccountedFor, Accounted, ByRule, Reported, Taken
<1> QED BY <1>1, SpecWalletInv, PTL

(***************************************************************************)
(* A wallet answers only a party whose registration a registrar signed     *)
(* that the lists justified when they were adopted, in date, for the party *)
(* that the access certificate names (verify_rp_registration_certificate,  *)
(* check_matches_access_certificate).                                      *)
(***************************************************************************)
THEOREM PartiesAreListed == Spec => []ServedOnlyIfListed
<1>1. WalletInv => ServedOnlyIfListed
  BY Zenon DEF WalletInv, AnswerOK, Accepted, ServedOnlyIfListed, ListedParty
<1> QED BY <1>1, SpecWalletInv, PTL

(***************************************************************************)
(* For every registration and every request: each value that an accepted   *)
(* request selects, in any credential that can satisfy it, is one that the *)
(* registration grants, for the type of that credential as far as the      *)
(* constraints tell that the request names                                 *)
(* (check_request_within_registration).                                    *)
(***************************************************************************)
THEOREM RequestsAreRegistered == Spec => []ReleasedOnlyAsRegistered
<1>1. WalletInv => ReleasedOnlyAsRegistered
  <2> SUFFICES ASSUME WalletInv, Accepted, NEW q \in answer.request.queries,
                      NEW type \in TypesOf(q.meta)
               PROVE  StaysWithin(q, type, {e \in EntriesFor(q) :
                                              type \in TypesOf(Compared(e.meta, q.meta))})
    BY Zenon DEF ReleasedOnlyAsRegistered
  <2>1. WithinScope(answer.request)
    BY Zenon DEF WalletInv, AnswerOK, Accepted
  <2>2. {e \in EntriesFor(q) : type \in TypesOf(Compared(e.meta, q.meta))}
          = {e \in answer.request.reg.credentials :
               /\ e.format = q.format /\ e.meta # Malformed
               /\ type \in TypesOf(Compared(e.meta, q.meta))}
    BY DEF EntriesFor
  <2> QED BY <2>1, <2>2, Zenon DEF WithinScope
<1> QED BY <1>1, SpecWalletInv, PTL
=============================================================================
