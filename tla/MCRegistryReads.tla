--------------------------- MODULE MCRegistryReads --------------------------
(***************************************************************************)
(* The two readers of the registry: the trust chain over what records say  *)
(* while they change, and the walk of one issuer's record page by page.    *)
(* They share nothing, and a behaviour follows one of them.                *)
(*                                                                         *)
(* The chain: an issuer, two TAOs and a root.  The catalogue holds, for    *)
(* each, a good accreditation and the near misses: none or another         *)
(* accreditor, a narrower scope, a token that names somebody else, an      *)
(* unsigned one, a TI that accredits, and one that closes a cycle.         *)
(*                                                                         *)
(* The walk: a registry that answers anything at any time, and an honest   *)
(* one that pages through four attributes and repeats its last page in     *)
(* links.next, as the production registry does.                            *)
(***************************************************************************)
EXTENDS TrustChain, TirWalk

CONSTANTS ti, tao, other, root, t1, t2, p1, p2, p3

VARIABLE followed    \* "chain" or "walk"

Acc(by, role, kinds, types, names, signed) ==
  [by |-> by, role |-> role, kinds |-> kinds, types |-> types, names |-> names, signed |-> signed]

LeafAccs ==
  {Acc(tao, "TI", {"attest"}, {t1}, ti, TRUE),
   Acc(other, "TI", {"attest"}, {t1, t2}, ti, TRUE),
   Acc(None, "TI", {"attest"}, {t1}, ti, TRUE)}

TaoAccs ==
  {Acc(root, "TAO", {"accredit"}, {t1, t2}, tao, TRUE),
   Acc(root, "TAO", {"accredit"}, {t2}, tao, TRUE),
   Acc(root, "TAO", {"accredit"}, {t1, t2}, other, TRUE),
   Acc(root, "TI", {"accredit", "attest"}, {t1, t2}, tao, TRUE),
   Acc(ti, "TAO", {"accredit"}, {t1, t2}, tao, TRUE)}

OtherAccs ==
  {Acc(tao, "TAO", {"accredit"}, {t1, t2}, other, TRUE),
   Acc(root, "TAO", {"accredit"}, {t1, t2}, other, FALSE)}

NearMisses ==
  [d \in Dids |-> CASE d = ti -> LeafAccs [] d = tao -> TaoAccs [] d = other -> OtherAccs
                    [] OTHER -> {}]

\* The issuer's record may hold two accreditations to pick from.
TwoForTheIssuer == [d \in Dids |-> IF d = ti THEN 2 ELSE 1]

\* A badge of both types; an accreditation for one narrows what is delegated.
BothTypes == {{t1, t2}}

\* Every combination of records; the root needs none.  A record that lists
\* nothing, or one accreditation twice, comes about by a Change.
AtFirst(d) == {r \in Record(d) : r = Absent \/ (r # <<>> /\ \A i, j \in DOMAIN r : i # j => r[i] # r[j])}

AnyRecords ==
  {[d \in Dids |-> CASE d = ti -> a [] d = tao -> b [] d = other -> c [] OTHER -> Absent] :
     a \in AtFirst(ti), b \in AtFirst(tao), c \in AtFirst(other)}
----------------------------------------------------------------------------
Item(n, l) == [id |-> n, link |-> l]

AnyItems ==
  {<<>>, <<Item(1, "junk"), Item(2, "none")>>,
   <<Item(1, "off"), Item(2, "other")>>, <<Item(1, "own"), Item(2, "off"), Item(3, "none")>>}

To(page) == [page |-> page, names |-> "none"]

AnyNext == {To(p1), To(p2), [page |-> p1, names |-> "own"], [page |-> p3, names |-> "other"], Off, Missing}

AnyPage == [items : AnyItems, total : {-1, 0, 2, Missing}, next : AnyNext]

Anything == [u \in Urls |-> AnyPage]

Four == [n \in 1..4 |-> Item(n, "none")]

HonestPage(from, to, nexts) ==
  [items : {SubSeq(Four, from, to)}, total : {4, Missing}, next : nexts]

\* The two instances the links can lead to; on another one nothing is listed.
Honest ==
  [u \in Urls |->
     CASE u.names = "other" -> [items : {<<>>}, total : {0}, next : {Missing}]
       [] u.page = p1 -> HonestPage(1, 2, {To(p2)})
       [] u.page = p2 -> HonestPage(3, 3, {To(p3)})
       [] OTHER       -> HonestPage(4, 4, {To(p3), Missing})]

Both == [hostile |-> Anything, honest |-> Honest]

ThreePages == <<p1, p2, p3>>
EndOf == [k \in 0..3 |-> IF k = 0 THEN 0 ELSE k + 1]
----------------------------------------------------------------------------
\* The reader that is not followed has one initial state.
McInit ==
  /\ followed \in {"chain", "walk"}
  /\ Init /\ TirInit
  /\ followed = "walk" => records = CHOOSE r \in Registries : TRUE
  /\ followed = "chain" => registry = "honest" /\ pinned

ChainNext == followed = "chain" /\ Next /\ UNCHANGED <<followed, tirVars>>

WalkNext == followed = "walk" /\ TirNext /\ UNCHANGED <<followed, vars>>

McNext == ChainNext \/ WalkNext

McSpec ==
  McInit /\ [][McNext]_<<followed, vars, tirVars>> /\ WF_vars(Verify) /\ WF_tirVars(Step)
=============================================================================
