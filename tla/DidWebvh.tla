------------------------------ MODULE DidWebvh ------------------------------
(***************************************************************************)
(* openvc.did: the resolution of a did:webvh identifier, whose log is      *)
(* fetched through GuardedFetch and replayed line by line, and of a did:web *)
(* one, whose document is fetched the same way.                            *)
(*                                                                         *)
(* The log is written by its controller and by whoever holds one of the    *)
(* keys or makes up new ones, and is then served by a host that may alter  *)
(* it.  Writers and host act until the body is read, which is the last     *)
(* time the resolver looks at anything outside: acting earlier or later    *)
(* makes no difference to it.                                              *)
(*                                                                         *)
(* A hash is the value it is the hash of.  A key and its pre-rotation hash *)
(* are the key.  A proof is the key it names and whether it was made over  *)
(* the line as it stands.                                                  *)
(***************************************************************************)
EXTENDS GuardedFetch, FiniteSets

CONSTANTS
  Keys,          \* the update keys there are
  Own,           \* the controller's
  Geneses,       \* first versions the controller may write
  Foreign,       \* first versions somebody else may write for the identifier
  Versions,      \* later versions anybody may write
  Edits,         \* what the host may put in the place of a version
  WebDocuments,  \* what the host of a did:web may serve
  Requests,      \* the identifiers that are asked for
  MaxLogEntries, \* _MAX_LOG_ENTRIES
  MaxLines,      \* bound on the lines that are written
  MaxThefts,     \* bound on the keys that get into other hands
  MaxChanges,    \* bound on what the host alters
  Placeholder    \* {SCID}

ASSUME WebvhAssumption ==
  /\ Own \subseteq Keys
  /\ MaxLogEntries \in Nat /\ MaxLines \in Nat /\ MaxThefts \in Nat /\ MaxChanges \in Nat

\* A genesis has the placeholder where its SCID is to stand; no later version
\* declares one.
ASSUME VersionAssumption ==
  /\ \A v \in Geneses \cup Versions :
       v = [method |-> v.method, scid |-> v.scid, about |-> v.about, moved |-> v.moved,
            parameters |-> v.parameters, keys |-> v.keys, next |-> v.next, time |-> v.time,
            witness |-> v.witness, deactivated |-> v.deactivated, state |-> v.state]
  /\ \A g \in Geneses :
       /\ g.scid = Placeholder /\ g.time \in Nat
       /\ g.about = [method |-> g.about.method, scid |-> Placeholder, host |-> g.about.host,
                     ascii |-> g.about.ascii]
  /\ \A b \in Versions : b.scid = None

VARIABLES
  asked,         \* the identifier that is resolved
  log,           \* the lines of the log, as the host has them
  stolen,        \* the controller's keys that others hold as well
  changed,       \* what the host has altered
  written,       \* history: the versions that were really written, and by whom
  replay,        \* the locals of _replay
  outcome,       \* "open", "refused" or "resolved"
  document       \* the document resolve returned

vars == <<fetch, contacted, asked, log, stolen, changed, written, replay, outcome, document>>

world == <<asked, log, stolen, changed, written>>

----------------------------------------------------------------------------
(***************************************************************************)
(* The identifiers.  did:webvh:{scid}:{host} is [method, scid, host]; the  *)
(* host is the rest of it, as did:web maps it to a URL.                    *)
(***************************************************************************)
\* _check_host and _did_web_url, _did_webvh_url.
MapsToUrl(d) == d.host = "domain" /\ (d.method = "webvh" => d.scid # None)

Url(d) == [ascii |-> d.ascii, wellFormed |-> TRUE, scheme |-> "https", host |-> d.host]

\* The genesis with its scid put out wherever it stands: the hash of this is
\* the SCID.
Inception(v) ==
  [v EXCEPT !.scid = Placeholder,
            !.about.scid = IF v.about.scid = v.scid THEN Placeholder ELSE @]

\* The controller's genesis, which says its SCID is the hash of itself.
Incepted(g) == [g EXCEPT !.scid = g, !.about.scid = g]

\* A genesis of somebody else that is about the identifier asked for: with
\* its own hash for a SCID, and with the SCID that is asked for.
Forged(g) ==
  LET f == [g EXCEPT !.about = asked]
  IN  {[f EXCEPT !.scid = f], [f EXCEPT !.scid = asked.scid]}

\* A later version, about the identifier asked for or one it has moved to.
Later(b) == [b EXCEPT !.about = IF b.moved THEN [asked EXCEPT !.host = "moved"] ELSE asked]

\* The version id {n}-{hash}, the hash being of the version and what precedes.
VersionId(n, v, predecessor) == [number |-> n, hash |-> <<v, predecessor>>]

Line(n, v, predecessor, key, who) ==
  [version |-> v, id |-> VersionId(n, v, predecessor), key |-> key, sealed |-> TRUE, by |-> who]

Contents(lines) == [n \in DOMAIN lines |-> lines[n].version]

\* The abstract history this log should be: `replay.n` lines of it so far.
History == INSTANCE DidHistory WITH
  history <- SubSeq(Contents(log), 1, replay.n),
  outcome <- IF asked.method = "webvh" THEN outcome ELSE "open"

----------------------------------------------------------------------------
Fresh == [n |-> 0, predecessor |-> None, time |-> 0, keys |-> {}, next |-> {},
          witness |-> FALSE, deactivated |-> FALSE]

Init ==
  /\ FetchInit
  /\ asked \in Requests
  /\ log = <<>> /\ stolen = {} /\ changed = 0 /\ written = {}
  /\ replay = Fresh /\ outcome = "open" /\ document = None

Stop(result) == outcome' = result /\ UNCHANGED <<replay, document>>

\* DidResolverRegistry.resolve: the first resolver that supports the method.
Ask ==
  /\ fetch.pc = "idle" /\ outcome = "open"
  /\ IF asked.method \in {"web", "webvh"} /\ MapsToUrl(asked)
     THEN StartFetch(Url(asked)) /\ UNCHANGED <<replay, outcome, document>>
     ELSE Stop("refused") /\ UNCHANGED <<fetch, contacted>>
  /\ UNCHANGED world

FetchStep ==
  /\ Lookup \/ Connect \/ Response \/ ReadUnit \/ EndFetch
  /\ UNCHANGED <<world, replay, outcome, document>>

\* https_text_fetch, https_json_fetch raised.
FetchRaises ==
  /\ fetch.pc \in {"unsafe", "transport", "deadline", "status", "oversize", "decode"} /\ outcome = "open"
  /\ Stop("refused")
  /\ UNCHANGED <<world, fetch, contacted>>

----------------------------------------------------------------------------
(***************************************************************************)
(* The writers (external) and the host (external).                         *)
(***************************************************************************)
Served == fetch.pc = "done" /\ replay.n = 0 /\ outcome = "open" /\ asked.method = "webvh"

Predecessor(n) == IF n = 0 THEN None ELSE log[n].id

Put(v, key, who) ==
  LET n == Len(log)
      p == IF n = 0 THEN v.scid ELSE Predecessor(n)
  IN  /\ log' = Append(log, Line(n + 1, v, p, key, who))
      /\ written' = written \cup {[history |-> Append(Contents(log), v), by |-> key]}

\* The controller keeps the rules: it writes the identifier's own genesis,
\* and later versions with a key in control, in time, of itself.
Lawful(v, key) ==
  LET h == Contents(log)
  IN  /\ key \in Own /\ key \in History!InControl(h, v)
      /\ h # <<>> => v.time >= h[Len(h)].time

ControllerWrites ==
  /\ Served /\ changed = 0 /\ Len(log) < MaxLines
  /\ \A n \in DOMAIN log : log[n].by = "controller"
  /\ \E v \in {Incepted(g) : g \in Geneses} \cup {Later(b) : b \in Versions}, k \in Own :
       /\ (log = <<>>) = (v.scid # None)
       /\ log = <<>> => v.about = asked
       /\ Lawful(v, k)
       /\ Put(v, k, "controller")
  /\ UNCHANGED <<fetch, contacted, asked, stolen, changed, replay, outcome, document>>

KeyIsStolen ==
  /\ Served /\ changed = 0
  /\ Cardinality(stolen) < MaxThefts
  /\ \E k \in Own \ stolen : stolen' = stolen \cup {k}
  /\ UNCHANGED <<fetch, contacted, asked, log, changed, written, replay, outcome, document>>

OthersWrite ==
  /\ Served /\ changed = 0 /\ Len(log) < MaxLines
  /\ \E v \in UNION {Forged(g) : g \in Foreign} \cup {Later(b) : b \in Versions},
        k \in stolen \cup (Keys \ Own) :
       (log = <<>>) = (v.scid # None) /\ Put(v, k, "others")
  /\ UNCHANGED <<fetch, contacted, asked, stolen, changed, replay, outcome, document>>

\* A line with another version in it, whose proof is then over other bytes.
Edited(line, v, id) ==
  [version |-> v, id |-> id, key |-> line.key, sealed |-> FALSE, by |-> line.by]

\* Lines dropped, repeated, exchanged, or edited with the hash made good.
Altered ==
  LET cut == {SubSeq(log, 1, n - 1) \o SubSeq(log, n + 1, Len(log)) : n \in DOMAIN log}
      twice == {SubSeq(log, 1, n) \o SubSeq(log, n, Len(log)) : n \in DOMAIN log}
      swapped == {[log EXCEPT ![n] = log[n + 1], ![n + 1] = log[n]] : n \in 1..(Len(log) - 1)}
      edited == {[log EXCEPT ![n] = Edited(log[n], v, log[n].id)] :
                   n \in DOMAIN log, v \in {Later(b) : b \in Edits}}
      rehashed == {[log EXCEPT ![n] = Edited(log[n], v, VersionId(n, v, Predecessor(n - 1)))] :
                     n \in 2..Len(log), v \in {Later(b) : b \in Edits}}
  IN  (cut \cup twice \cup swapped \cup edited \cup rehashed) \ {log}

HostAlters ==
  /\ Served /\ changed < MaxChanges
  /\ log' \in Altered
  /\ changed' = changed + 1
  /\ UNCHANGED <<fetch, contacted, asked, stolen, written, replay, outcome, document>>

----------------------------------------------------------------------------
(***************************************************************************)
(* _replay, one line a step: the checks in their order, then what is       *)
(* carried forward.                                                        *)
(***************************************************************************)
\* One entry too few is taken.
ParsesFewer(lines) == lines # <<>> /\ Len(lines) < MaxLogEntries

\* _parse_lines, which raises before any line is looked at.
Parses(lines) == lines # <<>> /\ Len(lines) <= MaxLogEntries

\* It is enough that one of the keys is committed to.
AuthorizedSome(v, r) ==
  IF r.n = 0 \/ r.next # {}
  THEN IF v.keys \in {None, {}} THEN None
       ELSE IF r.n > 0 /\ v.keys \cap r.next = {} THEN None
       ELSE v.keys
  ELSE r.keys

\* Who may sign a line, given what is in force; None where that raises.
Authorized(v, r) ==
  IF r.n = 0 \/ r.next # {}
  THEN IF v.keys \in {None, {}} THEN None
       ELSE IF r.n > 0 /\ ~ v.keys \subseteq r.next THEN None
       ELSE v.keys
  ELSE r.keys

\* The key the proof names is looked up, the line is not hashed.
ProofNamed(line, authorized) == line.key \in authorized

\* _verify_entry_proof.
ProofOK(line, authorized) == line.key \in authorized /\ line.sealed

GenesisChecks(v) ==
  << Check(v.method,                   "method"),
     Check(v.scid # None,              "scid"),
     Check(Inception(v) = v.scid,      "inception") >>

InOrder(before, time) == time >= before

LineChecks(line, r) ==
  LET v == line.version
      authorized == Authorized(v, r)
      p == IF r.n = 0 THEN v.scid ELSE r.predecessor
  IN  << Check(v.parameters,                                          "parameters"),
         Check(authorized # None,                                     "keys"),
         Check(r.n = 0 => FirstError(GenesisChecks(v)) = "ok",        "genesis"),
         Check(line.id.number = r.n + 1,                              "number"),
         Check(line.id.hash = <<v, p>>,                               "hash"),
         Check(InOrder(r.time, v.time),                               "time"),
         Check(authorized # None => ProofOK(line, authorized),        "proof") >>

Declared(x, before) == IF x = None THEN before ELSE x

Carried(line, r) ==
  LET v == line.version
  IN  [n |-> r.n + 1, predecessor |-> line.id, time |-> v.time,
       keys |-> Declared(v.keys, r.keys), next |-> Declared(v.next, r.next),
       witness |-> Declared(v.witness, r.witness),
       deactivated |-> Declared(v.deactivated, r.deactivated)]

\* _witness_policy_active, and the state of the line.
AfterChecks(v, r) ==
  << Check(~ r.witness,           "witness"),
     Check(v.state # "absent",    "state") >>

ReplayLine ==
  /\ Served \/ (outcome = "open" /\ replay.n > 0)
  /\ replay.n < Len(log)
  /\ LET line == log[replay.n + 1]
         r == Carried(line, replay)
     IN  IF /\ Parses(log)
            /\ FirstError(LineChecks(line, replay)) = "ok"
            /\ FirstError(AfterChecks(line.version, r)) = "ok"
         THEN replay' = r /\ UNCHANGED <<outcome, document>>
         ELSE Stop("refused")
  /\ UNCHANGED <<fetch, contacted, world>>

Document(id, body) == [id |-> id, body |-> body]

\* parse_did_document, which takes the document out of a wrapper.
Parsed(raw) == IF raw.inner = None THEN Document(raw.id, raw.body) ELSE raw.inner

IsAskedFor(raw) == Parsed(raw).id = asked

\* The state of a version, as the document it is; a wrapper holds another
\* document of the same identifier.
State(v) ==
  [id |-> v.about, body |-> v,
   inner |-> IF v.state = "wrapped" THEN Document(asked, None) ELSE None]

LastChecks(r) ==
  LET v == log[r.n].version
  IN  << Check(v.about = asked,              "id"),
         Check(v.state # "wrapped",          "wrapper"),
         Check(~ r.deactivated,              "deactivated"),
         Check(IsAskedFor(State(v)),         "id") >>

ReplayEnds ==
  /\ Served \/ (outcome = "open" /\ replay.n > 0)
  /\ replay.n = Len(log)
  /\ IF Parses(log) /\ FirstError(LastChecks(replay)) = "ok"
     THEN /\ outcome' = "resolved"
          /\ document' = Parsed(State(log[replay.n].version))
          /\ UNCHANGED replay
     ELSE Stop("refused")
  /\ UNCHANGED <<fetch, contacted, world>>

\* _validated_document.
WebDocument ==
  /\ fetch.pc = "done" /\ asked.method = "web" /\ outcome = "open"
  /\ \E raw \in WebDocuments :
       IF IsAskedFor(raw)
       THEN outcome' = "resolved" /\ document' = Parsed(raw) /\ UNCHANGED replay
       ELSE Stop("refused")
  /\ UNCHANGED <<fetch, contacted, world>>

----------------------------------------------------------------------------
Next ==
  \/ Ask \/ FetchStep \/ FetchRaises
  \/ ControllerWrites \/ KeyIsStolen \/ OthersWrite \/ HostAlters
  \/ ReplayLine \/ ReplayEnds \/ WebDocument

Spec == Init /\ [][Next]_vars

----------------------------------------------------------------------------
(***************************************************************************)
(* The replay implements DidHistory: whatever the host made of the lines,  *)
(* what has been accepted is a history that was really written, version by *)
(* version, each after exactly those before it, no earlier than they, and  *)
(* by a key then in control, and a deactivated identifier is not resolved. *)
(* Whose history it is, it does not say: GenesisIsTheDids would.           *)
(***************************************************************************)
ReplaysAHistory == History!Spec

(***************************************************************************)
(* "A compromised current key cannot rotate to an attacker key": where     *)
(* others take a log over from its controller, past a commitment the       *)
(* controller has made, they hold a key that is committed to.  It is not   *)
(* enough to hold the keys in force, whatever versions in between declare. *)
(***************************************************************************)
TheftNeedsACommittedKey ==
  outcome = "resolved" /\ asked.method = "webvh" =>
    \A n \in 2..Len(log) :
      /\ log[n].by = "others"
      /\ \A m \in 1..(n - 1) : log[m].by = "controller"
      => LET c == History!Commitment(SubSeq(Contents(log), 1, n - 1))
         IN  c = {} \/ c \cap (stolen \cup (Keys \ Own)) # {}

WitnessInForce(h) == History!InForce(h, LAMBDA v : v.witness, FALSE)

\* The controller leaves the log in a state that resolves.
InGoodOrder ==
  /\ log # <<>> /\ Len(log) <= MaxLogEntries /\ changed = 0
  /\ \A n \in DOMAIN log :
       /\ log[n].by = "controller" /\ log[n].version.method /\ log[n].version.parameters
       /\ log[n].version.state # "absent"
       /\ ~ WitnessInForce(SubSeq(Contents(log), 1, n))
  /\ log[Len(log)].version.about = asked /\ log[Len(log)].version.state = "plain"
  /\ ~ History!Deactivated(Contents(log))

(***************************************************************************)
(* A log its controller wrote by the rules, up to the entries the resolver *)
(* takes, however it rotates its keys, commits or not, and undoes a        *)
(* deactivation, is not refused; and what is resolved is a document of the *)
(* identifier that was asked for: of a log, the one its last line holds,   *)
(* and nothing that is wrapped into it.                                    *)
(***************************************************************************)
LawfulLogsResolve ==
  /\ InGoodOrder /\ fetch.pc = "done" => outcome # "refused"
  /\ outcome = "resolved" =>
       /\ document.id = asked
       /\ asked.method = "webvh" => document = Document(asked, log[Len(log)].version)

(***************************************************************************)
(* "A forged genesis cannot keep the same SCID": what a log starts with is *)
(* the genesis that the SCID of the identifier asked for is the hash of.   *)
(* The code does not keep this: _replay compares the SCID the parameters   *)
(* declare with the hash of the genesis, and never with the identifier.    *)
(***************************************************************************)
GenesisIsTheDids ==
  outcome = "resolved" /\ asked.method = "webvh" => Inception(log[1].version) = asked.scid
=============================================================================
