------------------------------ MODULE TirWalk -------------------------------
(***************************************************************************)
(* openvc_ebsi.versioning: DidEbsiResolver.issuer_record over the shared   *)
(* attribute walk (_TirAttributeWalk, the v5 and core-v1 adapters): the    *)
(* issuer response, the paginated attributes listing and one revision per  *)
(* item, each a request whose answer the registry chooses when it is made. *)
(*                                                                         *)
(* A URL on the listing's origin is a page and what its query names as     *)
(* contract address: none, the adapter's own, or something the adapter     *)
(* must not read as its own (another address, another spelling of the      *)
(* parameter, a query with a ';').  Off is a link off that origin, or one  *)
(* that does not parse.                                                    *)
(***************************************************************************)
EXTENDS Integers, Sequences, FiniteSets, SequencesExt

CONSTANTS
  Pages,         \* the pages of the listing
  Default,       \* the one an issuer response that names none stands for
  Off,           \* a link off the origin
  Listing,       \* per kind of registry and URL, the pages it may answer with
  Attributes,    \* what the honest registry has of the issuer, in order,
  Book,          \* the pages on which it lists them
  Ends,          \* and the number of attributes up to the end of each
  MaxPages,      \* _MAX_ATTRIBUTE_PAGES
  MaxItems,      \* _MAX_ATTRIBUTE_ITEMS
  Missing        \* None: no link, no total, no result

\* What a query names as contract address.
Names == {"none", "own", "other"}

Urls == [page : Pages, names : Names]

ASSUME TirAssumption ==
  /\ Default \in Pages
  /\ Off \notin Urls /\ Missing \notin Urls \cup {Off}
  /\ MaxPages \in Nat \ {0} /\ MaxItems \in Nat \ {0}

\* An honest registry lists something on each page, links each to the next one
\* and the last to itself or to none, keeps within the caps, and echoes no
\* contract address in its links, whatever the request named.
ASSUME HonestAssumption ==
  /\ Attributes \in Seq(Range(Attributes)) /\ \A j \in DOMAIN Attributes : Attributes[j].link = "none"
  /\ Book \in Seq(Pages) /\ \A j, k \in DOMAIN Book : Book[j] = Book[k] => j = k
  /\ 1 <= Len(Book) /\ Len(Book) <= MaxPages /\ Len(Attributes) <= MaxItems /\ Missing \notin Nat \cup {"record"}
  /\ Ends \in [0..Len(Book) -> Nat] /\ Ends[0] = 0 /\ Ends[Len(Book)] = Len(Attributes)
  /\ \A k \in 1..Len(Book) : Ends[k - 1] < Ends[k] /\ Ends[k] <= Len(Attributes)
  /\ \A k \in 1..Len(Book), n \in {"none", "own"} : \A p \in Listing["honest"][[page |-> Book[k], names |-> n]] :
       /\ p = [items |-> p.items, total |-> p.total, next |-> p.next]
       /\ p.items = [j \in 1..(Ends[k] - Ends[k - 1]) |-> Attributes[Ends[k - 1] + j]]
       /\ p.total \in {Len(Attributes), Missing}
       /\ p.next \in IF k < Len(Book) THEN {[page |-> Book[k + 1], names |-> "none"]}
                      ELSE {[page |-> Book[k], names |-> "none"], Missing}

VARIABLES
  registry,      \* which kind of registry is behind the URLs
  pinned,        \* whether the adapter has a contract address
  stage,         \* which answer the walk waits for
  url,           \* the next page to read
  seen,          \* the URLs read
  collected,     \* how many items the generator has yielded
  total,         \* the listing's total, from the first page that has one
  todo,          \* what is left of the page, and its links.next
  accs,          \* the accreditations of the record so far
  ended,         \* how issuer_record ended
  listed,        \* history: the URLs of the listing that were requested
  fetched        \* history: the items whose revision was requested, and what the URL named

tirVars == <<registry, pinned, stage, url, seen, collected, total, todo, accs, ended, listed, fetched>>

Links == Urls \cup {Off, Missing}

\* The node reads a URL that names no contract address on its default instance.
Instance(names) == IF names = "none" THEN "default" ELSE names

----------------------------------------------------------------------------
TirInit ==
  /\ registry \in DOMAIN Listing
  /\ pinned \in BOOLEAN
  /\ stage = "idle" /\ url = Missing /\ seen = {} /\ collected = 0 /\ total = Missing
  /\ todo = Missing /\ accs = <<>> /\ ended = Missing
  /\ listed = <<>> /\ fetched = <<>>

End(r) == stage' = "done" /\ ended' = r

\* _require_did_ebsi: nothing but a did:ebsi identifier reaches a URL.
IssuerRecord ==
  /\ stage = "idle"
  /\ \/ End("notDid")
     \/ stage' = "issuer" /\ UNCHANGED ended
  /\ UNCHANGED <<registry, pinned, url, seen, collected, total, todo, accs, listed, fetched>>

\* A link is followed as the registry wrote it.
BoundAsIs(names) == names

\* _on_contract_address: what the query of a followed link names, once an
\* adapter with a contract address has put its own where there was none,
Bound(names) == IF pinned /\ names = "none" THEN "own" ELSE names

\* and the links it refuses.
Refused(names) == pinned /\ names \notin {"none", "own"}

\* The listing an issuer response stands for that names none: with the query.
DefaultUrl == [page |-> Default, names |-> IF pinned THEN "own" ELSE "none"]

\* _follow, for a link on the origin: what becomes of the walk.
Follow(l) ==
  IF Refused(l.names) THEN End("malformed") /\ UNCHANGED url
  ELSE stage' = "page" /\ url' = [page |-> l.page, names |-> Bound(l.names)] /\ UNCHANGED ended

\* The issuer response: bound to the DID before any of its links is read.
IssuerAnswer ==
  /\ stage = "issuer"
  /\ \/ \E e \in {"http", "malformed"} : End(e) /\ UNCHANGED url
     \/ End("record") /\ UNCHANGED url
     \/ \E l \in Links :
          \/ l = Missing /\ Follow(DefaultUrl)
          \/ l = Off /\ End("malformed") /\ UNCHANGED url
          \/ l \notin {Missing, Off} /\ Follow(l)
  /\ UNCHANGED <<registry, pinned, seen, collected, total, todo, accs, listed, fetched>>

\* The first page is all there is.
WantsPageOnce == url # Missing /\ seen = {}

\* The condition of the page loop.
WantsPage == url # Missing /\ url \notin seen /\ Cardinality(seen) < MaxPages

\* A page that cannot be read starts the walk over, as often as it takes.
ReadPageRetries ==
  \/ /\ stage = "page" /\ WantsPage
     /\ stage' = "issuer" /\ url' = Missing /\ seen' = {} /\ collected' = 0 /\ total' = Missing
     /\ accs' = <<>> /\ listed' = <<>> /\ fetched' = <<>>
     /\ UNCHANGED <<registry, pinned, todo, ended>>
  \/ /\ stage = "page"
     /\ \/ ~ WantsPage /\ End("record") /\ UNCHANGED <<seen, todo, listed>>
        \/ /\ WantsPage
           /\ seen' = seen \cup {url}
           /\ listed' = Append(listed, url)
           /\ \E p \in Listing[registry][url] : stage' = "item" /\ todo' = p /\ UNCHANGED ended
     /\ UNCHANGED <<registry, pinned, url, collected, total, accs, fetched>>

ReadPage ==
  /\ stage = "page"
  /\ \/ ~ WantsPage /\ End("record") /\ UNCHANGED <<seen, todo, listed>>
     \/ /\ WantsPage
        /\ seen' = seen \cup {url}
        /\ listed' = Append(listed, url)
        /\ \/ \E e \in {"http", "malformed"} : End(e) /\ UNCHANGED todo
           \/ \E p \in Listing[registry][url] :
                IF p.items = <<>> THEN End("record") /\ UNCHANGED todo
                ELSE stage' = "item" /\ todo' = p /\ UNCHANGED ended
  /\ UNCHANGED <<registry, pinned, url, collected, total, accs, fetched>>

\* The generator goes on after it yielded an item: the item cap.
Yielded ==
  /\ collected' = collected + 1
  /\ IF collected + 1 >= MaxItems THEN End("record") ELSE stage' = "item" /\ UNCHANGED ended

\* The next item of the page; one that is no object is passed over, one without
\* a link on the origin is counted, one that is refused rejects the record.
NextItem ==
  /\ stage = "item"
  /\ todo.items # <<>>
  /\ todo' = [todo EXCEPT !.items = Tail(@)]
  /\ LET item == Head(todo.items)
     IN  \/ item.link = "junk" /\ UNCHANGED <<stage, ended, collected, fetched>>
         \/ item.link = "off" /\ Yielded /\ UNCHANGED fetched
         \/ /\ item.link \in Names /\ Refused(item.link)
            /\ End("malformed") /\ UNCHANGED <<collected, fetched>>
         \/ /\ item.link \in Names /\ ~ Refused(item.link)
            /\ stage' = "revision"
            /\ fetched' = Append(fetched, [item |-> item, names |-> Bound(item.link)])
            /\ UNCHANGED <<collected, ended>>
  /\ UNCHANGED <<registry, pinned, url, seen, total, accs, listed>>

\* The revision: an accreditation, or one malformed reply for the record.
ReadRevision ==
  /\ stage = "revision"
  /\ \/ \E e \in {"http", "malformed"} : End(e) /\ UNCHANGED <<collected, accs>>
     \/ Yielded /\ accs' = Append(accs, Last(fetched).item)
  /\ UNCHANGED <<registry, pinned, url, seen, total, todo, listed, fetched>>

\* The total of the first page that has one; a page's -1 stands for what is
\* not a count (a negative number, true, a string).
Total ==
  IF total # Missing THEN total
  ELSE IF todo.total # Missing /\ todo.total >= 0 THEN todo.total ELSE Missing

\* The page is read: its total, then where links.next leads.
EndOfPage ==
  /\ stage = "item"
  /\ todo.items = <<>>
  /\ total' = Total
  /\ LET l == todo.next
     IN  \/ total' # Missing /\ collected >= total' /\ End("record") /\ UNCHANGED url
         \/ /\ total' # Missing => collected < total'
            /\ \/ l \in {Missing, Off} /\ stage' = "page" /\ url' = Missing /\ UNCHANGED ended
               \/ l \notin {Missing, Off} /\ Follow(l)
  /\ UNCHANGED <<registry, pinned, seen, collected, todo, accs, listed, fetched>>

Step == IssuerAnswer \/ ReadPage \/ NextItem \/ ReadRevision \/ EndOfPage

TirNext == IssuerRecord \/ Step

\* Every request ends, in an answer or an error.
TirSpec == TirInit /\ [][TirNext]_tirVars /\ WF_tirVars(Step)

----------------------------------------------------------------------------
TirOutcomes == {"record", "malformed", "http", "notDid", Missing}

TirTypeOK ==
  /\ stage \in {"idle", "issuer", "page", "item", "revision", "done"}
  /\ url \in Urls \cup {Missing}
  /\ seen \subseteq Urls
  /\ collected \in Nat
  /\ total \in Nat \cup {Missing}
  /\ ended \in TirOutcomes

(***************************************************************************)
(* "A walk never mixes registry instances": with a contract address, every *)
(* page and every revision is read on the configured instance, although    *)
(* the links the nodes hand out name none, which a node reads on its       *)
(* default one.                                                            *)
(***************************************************************************)
StaysOnInstance ==
  pinned => /\ \A i \in DOMAIN listed : Instance(listed[i].names) = "own"
            /\ \A i \in DOMAIN fetched : Instance(fetched[i].names) = "own"

(***************************************************************************)
(* An issuer with more accreditations than one page has all of them read,  *)
(* each once and in order, when the listing holds still and the caps are   *)
(* not met ("the old code read only the first page"): the page that links  *)
(* to itself ends the walk, whatever the address put on its link.          *)
(***************************************************************************)
FirstUrl == [page |-> Book[1], names |-> IF pinned THEN "own" ELSE "none"]

HonestIsComplete ==
  registry = "honest" /\ ended = "record" /\ listed # <<>> /\ listed[1] = FirstUrl => accs = Attributes

\* Every walk ends, on a listing that cycles too.
EveryWalkEnds == stage = "issuer" ~> stage = "done"

=============================================================================
