----------------------------- MODULE MCNodeList -----------------------------
(***************************************************************************)
(* The node list, and the HTTP client its files are read with.  NodeList   *)
(* takes a file that arrives or fails to, so the two share nothing, and a  *)
(* behaviour follows one of them.                                          *)
(***************************************************************************)
EXTENDS EbsiHttpClient, NodeList

CONSTANTS a, b, ann, bob, pilot

VARIABLE followed    \* "http" or "list"

\* A host with two addresses behind a resolver that rotates its answer.
Rotating == {<<a, b>>, <<b, a>>}

\* Custody moves between ann and bob, and a list may name one of them twice.
Rings ==
  {[keys |-> <<ann>>,      threshold |-> 1],
   [keys |-> <<bob>>,      threshold |-> 1],
   [keys |-> <<ann, ann>>, threshold |-> 2]}

\* Every node list covers the environment that is asked for.
PilotOnly == {{pilot}}

----------------------------------------------------------------------------
\* The one that is not followed has one initial state.
McInit ==
  /\ followed \in {"http", "list"}
  /\ Init /\ TnlInit
  /\ followed = "http" => \A l \in keyLists : l.keys = <<ann>>

HttpNext == followed = "http" /\ Next /\ UNCHANGED <<followed, tnlVars>>

ListNext == followed = "list" /\ TnlNext /\ UNCHANGED <<followed, vars>>

McNext == HttpNext \/ ListNext

\* The fairness of the two, where they are followed.
McSpec ==
  /\ McInit /\ [][McNext]_<<followed, vars, tnlVars>>
  /\ WF_vars(followed = "http" /\ Tick)
  /\ \A c \in Callers : WF_vars(Loop(c))
  /\ WF_tnlVars(followed = "list" /\ Progress)
  /\ WF_tnlVars(followed = "list" /\ MirrorCatchesUp)
=============================================================================
