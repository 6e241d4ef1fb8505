----------------------------- MODULE TrustLists -----------------------------
(***************************************************************************)
(* openvc.trustlist: the two walks from a pinned root list to the trust    *)
(* anchors of the lists it points to.  The "lotl" lane reads XML lists     *)
(* (TS 119 612, walk_lotl), the "lote" lane signed JSON ones (TS 119 602,  *)
(* walk_lote).                                                             *)
(*                                                                         *)
(* A list is a record; what a parser or a signature check would refuse in  *)
(* it for its form alone is a name in its `flaws`.  Lists are published,   *)
(* withdrawn and replaced while a walk is reading them; the walk compares  *)
(* their dates with the instant at which it was called.                    *)
(***************************************************************************)
EXTENDS X509

CONSTANTS
  Default,       \* no selection given
  Root,          \* the location the caller names
  Calls,         \* the calls a caller may make: records, see Call
  Pool,          \* what may be served at each location
  WrongScheme,   \* list types that are themselves lists of lists
  MaxLists,      \* max_lists
  MaxChanges, MaxTime

VARIABLES
  now,
  served,        \* location |-> the list a fetch would return, None: no answer
  changes,       \* how often an operator has replaced a list
  walk           \* the walk under way

listVars == <<now, served, changes, walk>>

Locations == DOMAIN Pool

\* A location that answers nothing serves None.  The null date is JSON's: an
\* XML list has a date or one that does not parse.
ASSUME ListsAssumption ==
  /\ Root \in Locations /\ None \notin Locations
  /\ \A c \in Calls : c.lane \in {"lotl", "lote"}
  /\ \A l \in Locations : \A list \in Pool[l] \ {None} :
       /\ list.next.at \in Int
       /\ list.lane = "lotl" => list.next.form # "null"
       /\ list.pointers \in Seq(Range(list.pointers))
       /\ \A n \in DOMAIN list.pointers : list.pointers[n].loc \in Locations \cup {None}

----------------------------------------------------------------------------
(***************************************************************************)
(* Selection.                                                              *)
(***************************************************************************)
Select(types, statuses, territories) ==
  [types |-> types, statuses |-> statuses, territories |-> territories]

\* None is no selection and no facet of one.
ASSUME NoneIsNoSelection ==
  /\ None \notin {{"CA/QC"}, {"granted"}, Select({"CA/QC"}, {"granted"}, None)}
  /\ \A c \in Calls :
       c.profile # None => None \notin {c.profile.anchors, Select(c.profile.anchors, None, None)}

\* A profiled walk keeps every service of the profile.
SelectionWide(call) ==
  IF call.select # Default THEN call.select
  ELSE CASE call.lane = "lotl" -> Select({"CA/QC"}, {"granted"}, None)
         [] OTHER -> None

\* The default of each lane: granted qualified CAs; the profile's issuance
\* services, or everything when there is no profile.
Selection(call) ==
  IF call.select # Default THEN call.select
  ELSE CASE call.lane = "lotl" -> Select({"CA/QC"}, {"granted"}, None)
         [] call.lane = "lote" /\ call.profile # None -> Select(call.profile.anchors, None, None)
         [] OTHER -> None

Admits(facet, value) == facet # None => value \in facet

Matches(select, anchor) ==
  select # None => /\ Admits(select.types, anchor.type)
                   /\ Admits(select.statuses, anchor.status)
                   /\ Admits(select.territories, anchor.territory)

\* The anchors of a parsed list: a certificate that does not load is dropped.
Anchors(list) ==
  { [cert |-> s.cert, type |-> s.type, status |-> s.status, territory |-> list.territory] :
      s \in {t \in list.services : t.cert # None} }

Selected(call, list) == {a \in Anchors(list) : Matches(Selection(call), a)}

----------------------------------------------------------------------------
(***************************************************************************)
(* The XML lane: verify_xades_enveloped, then a lenient parse.             *)
(***************************************************************************)
\* _check_signed_references: one reference to the whole document, and else only
\* to parts of the signature itself.
CoversDocument(references) ==
  \E n \in DOMAIN references :
    /\ references[n] = "document"
    /\ \A m \in DOMAIN references \ {n} : references[m] \in {"SignedProperties", "KeyInfo"}

XadesOK(list, expected) ==
  /\ expected # {}
  /\ {"size", "form", "algorithm", "tampered"} \cap list.flaws = {}
  /\ list.signer \in expected
  /\ CoversDocument(list.covers)

\* parse_trust_list: hardened, else lenient.
ParseTrustListOK(list) == "doctype" \notin list.flaws

ConsumeTrustList(list, expected, verifier) ==
  FirstError(<< Check(verifier /\ list.lane = "lotl" /\ XadesOK(list, expected), "signature"),
                Check(ParseTrustListOK(list), "parse") >>)

\* A date that does not parse is no date, and no date never expires.  A date
\* without a zone parses, and comparing it with the instant raises TypeError.
LotlExpired(list, at) == list.next.form = "utc" /\ list.next.at < at

LotlUncomparable(list) == list.next.form = "naive"

----------------------------------------------------------------------------
(***************************************************************************)
(* The JSON lane: consume_lote.                                            *)
(***************************************************************************)
AuthenticateSigner(list, expected, at) ==
  IF list.signer \in expected THEN InWindow(list.signer, at)
  ELSE ValidateCertChain(list.signer, list.chain, expected, at)

\* Clause 6.8: the signing certificate names the operator and the territory.
SignerDnOK(list) ==
  /\ Certs[list.signer].org \in list.operators
  /\ list.territory # None => Certs[list.signer].country = list.territory

\* Every member is known and of its type, and no extension is critical.
StrictMembers(list) == {"member", "critical"} \cap list.flaws = {}

\* The strict parse: dates are UTC and present, NextUpdate may be null.
ParseLoteOK(list) == StrictMembers(list) /\ list.next.form \in {"utc", "null"}

ProfileOK(list, profile) ==
  profile # None =>
    /\ list.version = 1
    /\ list.type = profile.type
    /\ list.determination \in profile.determination
    /\ profile.rules \in list.rules
    /\ list.territory = profile.territory
    /\ ~ list.history
    /\ list.next.form = "utc" => list.next.at <= list.issue + profile.maxUpdate
    /\ \A s \in list.services : s.type \in profile.services /\ s.status = None

ConsumeLote(list, expected, profile, at) ==
  FirstError(<< Check(list.lane = "lote" /\ {"size", "form"} \cap list.flaws = {}, "parse"),
                Check("algorithm" \notin list.flaws, "signature"),
                Check(CritOK(list.crit, JadesParams, {"alg", "x5c"}), "signature"),
                Check(list.signer # None, "signature"),
                Check(list.signer # None => AuthenticateSigner(list, expected, at), "signature"),
                Check(list.signer # None => UsableKey(list.signer), "signature"),
                Check("tampered" \notin list.flaws, "signature"),
                Check(ParseLoteOK(list), "parse"),
                Check(list.signer # None => SignerDnOK(list), "signature"),
                Check(ProfileOK(list, profile), "profile") >>)

\* A closed list (NextUpdate null) is stale as well.
Staleness(list, at) == list.next.form = "null" \/ list.next.at < at

----------------------------------------------------------------------------
(***************************************************************************)
(* One list of a walk: "ok", the stage at which it fails, or "raises".     *)
(***************************************************************************)
Read(call, list, expected, at) ==
  IF list = None THEN "fetch"
  ELSE LET err == IF call.lane = "lotl"
                  THEN ConsumeTrustList(list, expected, call.verifier)
                  ELSE ConsumeLote(list, expected, call.profile, at)
       IN  CASE err # "ok" -> err
             [] err = "ok" /\ call.lane = "lotl" /\ LotlUncomparable(list) -> "raises"
             [] err = "ok" /\ call.lane = "lotl" /\ LotlExpired(list, at) -> "expired"
             [] err = "ok" /\ call.lane = "lote" /\ Staleness(list, at) -> "expired"
             [] OTHER -> "ok"

Problem(loc, stage) == [loc |-> loc, stage |-> stage]

Idle == [pc |-> "idle"]

\* walk_lotl, walk_lote: the instant is taken once.
Call(c) ==
  /\ walk = Idle
  /\ walk' = [pc |-> "root", call |-> c, at |-> now, todo |-> <<>>, visited |-> {}, consumed |-> 0,
              root |-> None, anchors |-> {}, problems |-> <<>>, fetched |-> {}]
  /\ UNCHANGED <<now, served, changes>>

Fetched(loc) == [loc |-> loc, list |-> served[loc]]

\* Nothing is trusted when the root list is not.
RootFails ==
  LET stage == Read(walk.call, served[Root], walk.call.pinned, walk.at)
  IN  /\ walk.pc = "root"
      /\ stage \notin {"ok", "raises"}
      /\ walk' = [walk EXCEPT !.pc = "done", !.problems = <<Problem(Root, stage)>>,
                              !.fetched = {Fetched(Root)}]
      /\ UNCHANGED <<now, served, changes>>

RootRead ==
  /\ walk.pc = "root"
  /\ Read(walk.call, served[Root], walk.call.pinned, walk.at) = "ok"
  /\ walk' = [walk EXCEPT !.pc = "pointers", !.visited = {Root}, !.consumed = 1,
                          !.root = served[Root], !.todo = served[Root].pointers,
                          !.fetched = {Fetched(Root)},
                          !.anchors = IF walk.call.lane = "lotl" THEN {}
                                      ELSE Selected(walk.call, served[Root])]
  /\ UNCHANGED <<now, served, changes>>

OfProfile(w, p) == w.call.profile # None => p.type = w.call.profile.type

\* A pointer the walk passes over without a word: one without a location (the
\* XML parser leaves it out), a pivot to another list of lists, a location
\* already read, a territory nobody asked for.
Skips(w, p) ==
  LET select == Selection(w.call)
  IN  \/ p.loc = None
      \/ w.call.lane = "lotl" /\ p.type \in WrongScheme
      \/ w.call.lane = "lote" /\ p.loc \in w.visited
      \/ /\ OfProfile(w, p)
         /\ select # None
         /\ ~ Admits(select.territories, p.territory)

\* Why a pointer that is not passed over is not followed either.
Refusal(w, p) ==
  CASE ~ OfProfile(w, p) -> "profile"
    [] OfProfile(w, p) /\ w.call.lane = "lote" /\ w.consumed >= MaxLists -> "consume"
    [] OTHER -> "none"

\* The root's signers may also sign the lists it points to.
VouchersOfTheRoot(w, p) == {c \in p.certs : c # None} \cup w.call.pinned

Vouchers(w, p) == {c \in p.certs : c # None}

Skip ==
  /\ walk.pc = "pointers" /\ walk.todo # <<>>
  /\ Skips(walk, Head(walk.todo))
  /\ walk' = [walk EXCEPT !.todo = Tail(@)]
  /\ UNCHANGED <<now, served, changes>>

Refuse ==
  LET p == Head(walk.todo)
  IN  /\ walk.pc = "pointers" /\ walk.todo # <<>>
      /\ ~ Skips(walk, p) /\ Refusal(walk, p) # "none"
      /\ walk' = [walk EXCEPT !.todo = Tail(@), !.problems = Append(@, Problem(p.loc, Refusal(walk, p)))]
      /\ UNCHANGED <<now, served, changes>>

\* The first list that fails ends the walk.
AfterListAbort(todo, stage) == IF stage = "ok" THEN Tail(todo) ELSE <<>>

\* What is left to do after a list: the others, whatever became of it.
AfterList(todo, stage) == Tail(todo)

Follow ==
  LET p     == Head(walk.todo)
      stage == Read(walk.call, served[p.loc], Vouchers(walk, p), walk.at)
      good  == stage = "ok"
  IN  /\ walk.pc = "pointers" /\ walk.todo # <<>>
      /\ ~ Skips(walk, p) /\ Refusal(walk, p) = "none"
      /\ stage # "raises"
      /\ walk' = [walk EXCEPT !.todo = AfterList(@, stage), !.consumed = @ + 1,
                              !.visited = @ \cup {p.loc},
                              !.fetched = @ \cup {Fetched(p.loc)},
                              !.anchors = IF good THEN @ \cup Selected(walk.call, served[p.loc]) ELSE @,
                              !.problems = IF good THEN @ ELSE Append(@, Problem(p.loc, stage))]
      /\ UNCHANGED <<now, served, changes>>

Return ==
  /\ walk.pc = "pointers" /\ walk.todo = <<>>
  /\ walk' = [walk EXCEPT !.pc = "done"]
  /\ UNCHANGED <<now, served, changes>>

\* TypeError out of the walk: the anchors and the problems so far are lost.
Raise ==
  /\ \/ walk.pc = "root" /\ Read(walk.call, served[Root], walk.call.pinned, walk.at) = "raises"
     \/ /\ walk.pc = "pointers" /\ walk.todo # <<>>
        /\ LET p == Head(walk.todo)
           IN  /\ ~ Skips(walk, p) /\ Refusal(walk, p) = "none"
               /\ Read(walk.call, served[p.loc], Vouchers(walk, p), walk.at) = "raises"
  /\ walk' = [pc |-> "raised"]
  /\ UNCHANGED <<now, served, changes>>

----------------------------------------------------------------------------
(***************************************************************************)
(* The operators of the lists, and the clock.                              *)
(***************************************************************************)
Publish ==
  /\ changes < MaxChanges /\ walk.pc \in {"root", "pointers"}
  /\ \E loc \in Locations : \E list \in Pool[loc] \ {served[loc]} :
       served' = [served EXCEPT ![loc] = list]
  /\ changes' = changes + 1
  /\ UNCHANGED <<now, walk>>

Tick ==
  /\ now < MaxTime /\ now' = now + 1
  /\ UNCHANGED <<served, changes, walk>>

ListInit ==
  /\ now = 0 /\ changes = 0 /\ walk = Idle
  /\ served \in {f \in [Locations -> UNION {Pool[l] : l \in Locations}] :
                   \A l \in Locations : f[l] \in Pool[l]}

WalkStep == RootFails \/ RootRead \/ Skip \/ Refuse \/ Follow \/ Return \/ Raise

ListNext == (\E c \in Calls : Call(c)) \/ WalkStep \/ Publish \/ Tick

----------------------------------------------------------------------------
\* An operator's key signed the list, and the keys given vouch for that operator.
Authentic(list, vouchers, at) ==
  /\ list # None
  /\ "tampered" \notin list.flaws
  /\ \/ list.signer \in vouchers
     \/ \E v \in vouchers : list.lane = "lote" /\ PathValid(list.signer, list.chain, {v}, at)

InForce(list, at) ==
  CASE list.next.form = "utc" -> at <= list.next.at
    [] list.next.form = "null" -> FALSE
    [] OTHER -> list.lane = "lotl"

\* Signed for one of these keys, and in force at the instant of the walk.
Stands(f, vouchers, at) == Authentic(f.list, vouchers, at) /\ InForce(f.list, at)

RootsRead(w) == {f \in w.fetched : f.loc = Root /\ Stands(f, w.call.pinned, w.at)}

PointedRead(w) ==
  {f \in w.fetched : \E r \in RootsRead(w) : \E n \in DOMAIN r.list.pointers :
     /\ r.list.pointers[n].loc = f.loc
     /\ Stands(f, r.list.pointers[n].certs \ {None}, w.at)}

\* What a call selects, where it says so, and what is fit for issuing otherwise.
FitServices(call, list) ==
  {s \in list.services :
     \/ call.select # Default
     \/ call.lane = "lotl" /\ s.type = "CA/QC" /\ s.status = "granted"
     \/ call.lane = "lote" /\ call.profile = None
     \/ /\ call.lane = "lote" /\ call.profile # None
        /\ list.type = call.profile.type
        /\ s.type \in call.profile.anchors}

\* The certificates a call may end up trusting, given what it has fetched.
Lawful(w) ==
  UNION {{s.cert : s \in FitServices(w.call, f.list)} :
           f \in PointedRead(w) \cup (IF w.call.lane = "lotl" THEN {} ELSE RootsRead(w))}

Walking == walk.pc \in {"root", "pointers", "done"}

(***************************************************************************)
(* However the lists change while they are read, a walk trusts only a      *)
(* service of a list that was in force when the walk began and was signed  *)
(* for the pinned key, or for a key that such a root list vouches for at   *)
(* that very location (walk_lotl, walk_lote).                              *)
(***************************************************************************)
AnchorsAreVouchedFor == Walking => {a.cert : a \in walk.anchors} \subseteq Lawful(walk)

(***************************************************************************)
(* A walk that returns accounts for the root list, and for every list that *)
(* one points to: it was skipped by rule, or it is among the problems, or  *)
(* all of its selected services are anchors, whatever became of the other  *)
(* lists (ADR-0003 D6).                                                    *)
(***************************************************************************)
EveryListIsAccountedFor ==
  walk.pc = "done" =>
    IF walk.root = None THEN \E m \in DOMAIN walk.problems : walk.problems[m].loc = Root
    ELSE \A n \in DOMAIN walk.root.pointers :
           LET p == walk.root.pointers[n]
           IN  \/ p.loc \in {None, Root}
               \/ p.type \in WrongScheme /\ walk.call.lane = "lotl"
               \/ walk.call.select \notin {Default, None} /\ ~ Admits(walk.call.select.territories, p.territory)
               \/ \E m \in DOMAIN walk.problems : walk.problems[m].loc = p.loc
               \/ \E f \in walk.fetched : /\ f.loc = p.loc /\ f.list # None
                                          /\ Selected(walk.call, f.list) \subseteq walk.anchors

(***************************************************************************)
(* consume.py: a list that cannot be used is recorded, "never aborting the *)
(* walk".                                                                  *)
(***************************************************************************)
NeverAborts == walk.pc # "raised"

=============================================================================
