----------------------------- MODULE DidHistory -----------------------------
(***************************************************************************)
(* What a replayed did:webvh log promises, without hashes, lines or        *)
(* proofs: a history, every version of which was written, after exactly    *)
(* the versions before it and no earlier than they, by a key that was then *)
(* in control.                                                             *)
(*                                                                         *)
(* A version declares, or does not declare (None), the keys in control     *)
(* from then on, the keys committed to for the next version, and whether   *)
(* the identifier is deactivated.                                          *)
(***************************************************************************)
EXTENDS Integers, Sequences, FiniteSetsExt

CONSTANTS
  Keys,          \* the keys there are
  None

VARIABLES
  written,       \* [history, by]: who wrote the last version of a history
  history,       \* the versions accepted so far
  outcome        \* "open", "refused" or "resolved"

vars == <<written, history, outcome>>

\* What the last version that declares it declares; `default` if none does.
InForce(h, declared(_), default) ==
  LET at == {n \in DOMAIN h : declared(h[n]) # None}
  IN  IF at = {} THEN default ELSE declared(h[Max(at)])

KeysInForce(h) == InForce(h, LAMBDA v : v.keys, {})
Commitment(h)  == InForce(h, LAMBDA v : v.next, {})
Deactivated(h) == InForce(h, LAMBDA v : v.deactivated, FALSE)

\* The keys that may write version v after history h.  The first version is
\* written by the keys it declares; where there is a commitment, by the keys
\* it declares, which are all committed to; else by the keys in force.
InControl(h, v) ==
  LET own == IF v.keys = None THEN {} ELSE v.keys
  IN  IF h = <<>> THEN own
      ELSE IF Commitment(h) = {} THEN KeysInForce(h)
      ELSE IF own \subseteq Commitment(h) THEN own ELSE {}

Init == written = {} /\ history = <<>> /\ outcome = "open"

\* Anybody writes anything, after anything; nothing is unwritten.
Write == written \subseteq written' /\ UNCHANGED <<history, outcome>>

Extend ==
  /\ outcome = "open"
  /\ \E w \in written :
       /\ w.history # <<>> /\ history = SubSeq(w.history, 1, Len(w.history) - 1)
       /\ w.by \in InControl(history, w.history[Len(w.history)])
       /\ history # <<>> => history[Len(history)].time <= w.history[Len(w.history)].time
       /\ history' = w.history
  /\ UNCHANGED <<written, outcome>>

Refuse == outcome = "open" /\ outcome' = "refused" /\ UNCHANGED <<written, history>>

Resolve ==
  /\ outcome = "open" /\ history # <<>> /\ ~ Deactivated(history)
  /\ outcome' = "resolved"
  /\ UNCHANGED <<written, history>>

Next == Write \/ Extend \/ Refuse \/ Resolve

Spec == Init /\ [][Next]_vars
=============================================================================
