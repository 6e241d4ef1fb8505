---------------------------- MODULE MCResolvers -----------------------------
(***************************************************************************)
(* A resolver of DIDs, and the cache that CachingDidResolver and           *)
(* cached_resolve put before one.  The cache takes what a resolver returns *)
(* or raises as it is, so the two share nothing, and a behaviour follows   *)
(* one of them.                                                            *)
(*                                                                         *)
(* The resolver: two keys of the controller's and one of somebody else's;  *)
(* logs of three lines that rotate, commit, commit again, give a           *)
(* commitment up, deactivate, undo that, or break a rule.                  *)
(*                                                                         *)
(* The cache: two threads and less room than there are names, and as many  *)
(* versions and clock values as an entry needs to be written, superseded,  *)
(* rewritten and evicted, and to expire.                                   *)
(***************************************************************************)
EXTENDS DidWebvh, TtlCache, TLC

CONSTANTS k1, k2, m, public, private

VARIABLE followed    \* "resolver" or "cache"



Webvh == [method |-> "webvh", scid |-> None, host |-> "domain", ascii |-> TRUE]

Version == [method |-> TRUE, scid |-> None, about |-> None, moved |-> FALSE, parameters |-> TRUE,
            keys |-> None, next |-> None, time |-> 2, witness |-> None, deactivated |-> None,
            state |-> "plain"]

Genesis ==
  [Version EXCEPT !.scid = Placeholder, !.about = [Webvh EXCEPT !.scid = Placeholder],
                  !.keys = {k1}, !.time = 1]

\* With and without a commitment.
Plain == Genesis
Committed == [Genesis EXCEPT !.next = {k2}]
Firsts == {Plain, Committed}

OthersFirst == {[Genesis EXCEPT !.keys = {m}]}

Laters ==
  {Version,
   [Version EXCEPT !.keys = {k2}],
   [Version EXCEPT !.keys = {m}],
   [Version EXCEPT !.keys = {k2, m}],
   [Version EXCEPT !.keys = {k2}, !.next = {}],
   [Version EXCEPT !.next = {k2}],
   [Version EXCEPT !.keys = {k2}, !.next = {k1}],
   [Version EXCEPT !.keys = {}],
   [Version EXCEPT !.time = 1],
   [Version EXCEPT !.deactivated = TRUE],
   [Version EXCEPT !.deactivated = FALSE],
   [Version EXCEPT !.witness = TRUE],
   [Version EXCEPT !.moved = TRUE],
   [Version EXCEPT !.state = "wrapped"],
   [Version EXCEPT !.state = "absent"]}

Replacements == {[Version EXCEPT !.keys = {m}], [Version EXCEPT !.next = {m}]}

Web == [Webvh EXCEPT !.method = "web"]

\* What is asked for: either controller's identifier, a did:web, and what no
\* resolver, URL or fetch takes.
Asked ==
  {[Webvh EXCEPT !.scid = g] : g \in Firsts}
  \cup {Web, [Web EXCEPT !.method = "other"], [Web EXCEPT !.host = "ip"], Webvh,
        [Web EXCEPT !.ascii = FALSE]}

Documents ==
  {[id |-> i, body |-> None, inner |-> n] :
     i \in {Web, Webvh}, n \in {None} \cup {Document(j, None) : j \in {Web, Webvh}}}

DnsAnswers == {<<public>>, <<public, private>>, <<private, public>>, <<>>}

----------------------------------------------------------------------------
\* The one that is not followed has one initial state.
McInit ==
  /\ followed \in {"resolver", "cache"}
  /\ Init /\ CacheInit
  /\ followed = "cache" => asked = Web

ResolverNext == followed = "resolver" /\ Next /\ UNCHANGED <<followed, cacheVars>>

CachedNext == followed = "cache" /\ CacheNext /\ UNCHANGED <<followed, vars>>

McNext == ResolverNext \/ CachedNext

McSpec == McInit /\ [][McNext]_<<followed, vars, cacheVars>>

Symmetric == Permutations(Threads) \cup Permutations(Names \ Rotating)
=============================================================================
