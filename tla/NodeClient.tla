----------------------------- MODULE NodeClient -----------------------------
(***************************************************************************)
(* openvc_ebsi.node_client: EbsiNodeClient.run, which runs a caller's walk *)
(* on one node of a verified list and, when that node fails, again from    *)
(* the start on the next; check_health; and NodeSession.get_json, the only *)
(* read a walk has.  Threads share the client and its memo of health       *)
(* verdicts, a TtlCache with room for every node.                          *)
(*                                                                         *)
(* A read of the HTTP client is a step that sends and a step that answers, *)
(* and its results are the classes of errors EbsiHttpClient ends a read    *)
(* with.  A walk is any code that makes reads, may swallow their errors,   *)
(* and then returns or raises.                                             *)
(***************************************************************************)
EXTENDS Integers, Sequences, FiniteSets, SequencesExt

CONSTANTS
  Callers,       \* threads that call run
  Checkers,      \* threads that call check_health, of those or others
  Nodes,         \* the origins of the verified list
  Stranger,      \* an origin that is not in it
  MaxNodes,      \* max_nodes
  HealthTtl,     \* health_ttl_s
  Expires,       \* the list's expires
  MaxReads,      \* bound on the reads of one walk
  MaxTime,       \* bound on the clock
  None

ASSUME NodeClientAssumption ==
  /\ IsFiniteSet(Nodes) /\ Nodes # {}
  /\ Stranger \notin Nodes
  /\ MaxNodes \in Nat \ {0}
  /\ HealthTtl \in Nat /\ Expires \in Nat /\ MaxReads \in Nat /\ MaxTime \in Nat

\* None is no node, no verdict of the memo and no way a run ends.
ASSUME NoneIsNothing ==
  /\ None \notin Nodes /\ None \notin {"value", "expired", "forbiddenHost"}
  /\ None \notin [bad : BOOLEAN, expires : Nat]

VARIABLES
  now,
  health,        \* the memo: per node None or the verdict and its expiry
  pc,            \* where each caller is
  run,           \* the locals of its run
  out,           \* how its last run ended
  failedAt       \* history: when a run last marked the node unhealthy, until
                 \* a good verdict is recorded after that

vars == <<now, health, pc, run, out, failedAt>>

Threads == Callers \cup Checkers

----------------------------------------------------------------------------
(***************************************************************************)
(* How a read ends, and what classify and _is_terminal make of it.         *)
(***************************************************************************)
Answered  == {"value", "notFound", "malformed", "encoding", "otherStatus"}
Failures  == {"unreachable", "unavailable", "limits", "forbiddenAddress", "status403", "redirect"}
Terminals == {"expired", "forbiddenHost"}

Listed(n) == n \in Nodes

\* _order: at least one node, each of the list, none twice.
OrderOK(o) ==
  /\ o # <<>>
  /\ \A i \in DOMAIN o : Listed(o[i])
  /\ IsInjective(o)

\* What a policy may answer, cut by islice one past the number of nodes.
PolicyOutputs ==
  UNION {[1..n -> Nodes \cup {Stranger}] : n \in 0..(Cardinality(Nodes) + 1)}

Verdict(bad) == [bad |-> bad, expires |-> now + HealthTtl]

Remembered(n) == health[n] # None /\ health[n].expires >= now

KnownBad(n) == Remembered(n) /\ health[n].bad

Expired == now >= Expires

Marked(n) == failedAt' = [failedAt EXCEPT ![n] = now]

Overruled(n) == failedAt' = [failedAt EXCEPT ![n] = None]

----------------------------------------------------------------------------
Init ==
  /\ now = 0
  /\ health = [n \in Nodes |-> None]
  /\ pc = [c \in Threads |-> "idle"]
  /\ run = [c \in Threads |-> None]
  /\ out = [c \in Threads |-> None]
  /\ failedAt = [n \in Nodes |-> None]

Finish(c, r) ==
  /\ pc' = [pc EXCEPT ![c] = "idle"]
  /\ run' = [run EXCEPT ![c] = None]
  /\ out' = [out EXCEPT ![c] = r]

(***************************************************************************)
(* run: the gate, then the policy's order.  `session` is what the current  *)
(* NodeSession noted; `heard` and `broken` are history: whose bodies the   *)
(* current attempt was given, and whether a read of it failed.             *)
(***************************************************************************)
Begin(c) ==
  /\ pc[c] = "idle"
  /\ \/ /\ Expired
        /\ Finish(c, "expired")
     \/ /\ ~ Expired
        /\ \E o \in PolicyOutputs :
             IF OrderOK(o)
             THEN /\ pc' = [pc EXCEPT ![c] = "next"]
                  /\ run' = [run EXCEPT ![c] =
                       [queue |-> o, node |-> None, spent |-> 0,
                        failure |-> FALSE, terminal |-> None, reads |-> 0,
                        heard |-> {}, broken |-> FALSE]]
                  /\ out' = [out EXCEPT ![c] = None]
             ELSE Finish(c, "config")
  /\ UNCHANGED <<now, health, failedAt>>

\* No candidate is left: NoHealthyNode.
NoneLeft(c) ==
  /\ pc[c] = "next"
  /\ run[c].queue = <<>>
  /\ Finish(c, "noHealthyNode")
  /\ UNCHANGED <<now, health, failedAt>>

\* A skip that leaves the candidate at the head of the queue.
SkipStays(c) ==
  /\ pc[c] = "next" /\ run[c].queue # <<>>
  /\ KnownBad(Head(run[c].queue))
  /\ UNCHANGED vars

\* A node known to be bad within its TTL is skipped without a request.
Skip(c) ==
  LET n == Head(run[c].queue)
  IN  /\ pc[c] = "next" /\ run[c].queue # <<>>
      /\ KnownBad(n)
      /\ run' = [run EXCEPT ![c].queue = Tail(@)]
      /\ UNCHANGED <<now, health, pc, out, failedAt>>

\* max_nodes candidates have cost a request: the loop breaks.
OutOfNodes(c) ==
  /\ pc[c] = "next" /\ run[c].queue # <<>>
  /\ ~ KnownBad(Head(run[c].queue))
  /\ run[c].spent >= MaxNodes
  /\ Finish(c, "noHealthyNode")
  /\ UNCHANGED <<now, health, failedAt>>

\* The run as it is once node n has been taken on, in a fresh session.
Taken(r, n) ==
  [r EXCEPT !.queue = Tail(@), !.node = n, !.spent = @ + 1, !.failure = FALSE,
            !.terminal = None, !.reads = 0,
            !.heard = {}, !.broken = FALSE]

\* The next candidate: walked on a good verdict, probed first without one.
Take(c) ==
  LET n == Head(run[c].queue)
  IN  /\ pc[c] = "next" /\ run[c].queue # <<>>
      /\ ~ KnownBad(n)
      /\ run[c].spent < MaxNodes
      /\ \/ /\ Remembered(n)
            /\ pc' = [pc EXCEPT ![c] = "walk"]
            /\ run' = [run EXCEPT ![c] = Taken(run[c], n)]
            /\ UNCHANGED out
         \/ /\ ~ Remembered(n) /\ ~ Expired
            /\ pc' = [pc EXCEPT ![c] = "probe"]
            /\ run' = [run EXCEPT ![c] = Taken(run[c], n)]
            /\ UNCHANGED out
         \/ /\ ~ Remembered(n) /\ Expired
            /\ Finish(c, "expired")
      /\ UNCHANGED <<now, health, failedAt>>

\* A run that fails over without remembering why.
MoveOnUnmarked(c) ==
  LET n == run[c].node
  IN  /\ pc' = [pc EXCEPT ![c] = "next"]
      /\ Marked(n)
      /\ UNCHANGED <<now, health, run, out>>

\* The run moves on from its node, which is marked unhealthy.
MarkAndMoveOn(c) ==
  LET n == run[c].node
  IN  /\ pc' = [pc EXCEPT ![c] = "next"]
      /\ health' = [health EXCEPT ![n] = Verdict(TRUE)]
      /\ Marked(n)
      /\ UNCHANGED <<now, run, out>>

(***************************************************************************)
(* The probe answers: alive, or anything else, which is unhealthy; or the  *)
(* gate of its one attempt finds the list expired.                         *)
(***************************************************************************)
ProbeAnswer(c) ==
  /\ pc[c] = "probe"
  /\ \/ /\ health' = [health EXCEPT ![run[c].node] = Verdict(FALSE)]
        /\ pc' = [pc EXCEPT ![c] = "walk"]
        /\ Overruled(run[c].node)
        /\ UNCHANGED <<now, run, out>>
     \/ MarkAndMoveOn(c)
     \/ /\ Expired
        /\ Finish(c, "expired")
        /\ UNCHANGED <<now, health, failedAt>>

----------------------------------------------------------------------------
\* NodeSession._note: the first failure and the first terminal error stay.
Noted(r, e) ==
  [r EXCEPT !.terminal = IF @ = None /\ e \in Terminals THEN e ELSE @,
            !.failure = @ \/ e \in Failures,
            !.broken = @ \/ e \in Failures \cup Terminals]

(***************************************************************************)
(* The walk reads a URL on `target`.  The session gates, pins the URL to   *)
(* its own node and only then asks the client.                             *)
(***************************************************************************)
Read(c, target) ==
  /\ pc[c] = "walk"
  /\ run[c].reads < MaxReads
  /\ \/ /\ Expired
        /\ run' = [run EXCEPT ![c] = [Noted(run[c], "expired") EXCEPT !.reads = @ + 1]]
        /\ UNCHANGED pc
     \/ /\ ~ Expired /\ target # run[c].node
        /\ run' = [run EXCEPT ![c] = [Noted(run[c], "forbiddenHost") EXCEPT !.reads = @ + 1]]
        /\ UNCHANGED pc
     \/ /\ ~ Expired /\ target = run[c].node
        /\ pc' = [pc EXCEPT ![c] = "read"]
        /\ run' = [run EXCEPT ![c].reads = @ + 1, ![c].heard = @ \cup {target}]
  /\ UNCHANGED <<now, health, out, failedAt>>

\* The client's read ends; a retry of it may have met the end of the list.
ReadAnswer(c) ==
  /\ pc[c] = "read"
  /\ \E e \in Answered \cup Failures \cup Terminals :
       /\ e = "expired" => Expired
       /\ run' = [run EXCEPT ![c] = Noted(run[c], e)]
  /\ pc' = [pc EXCEPT ![c] = "walk"]
  /\ UNCHANGED <<now, health, out, failedAt>>

(***************************************************************************)
(* The walk ends: it returns a value, raises an EbsiError of its own or of *)
(* a read (terminal by its class or not), or raises something else.        *)
(***************************************************************************)
WalkEnds == {"returns", "raises", "raisesTerminal"}

\* A run that hands over whatever value the walk returned.
SettleTrusting(c, end) ==
  \/ /\ run[c].terminal # None
     /\ Finish(c, run[c].terminal) /\ UNCHANGED <<now, health, failedAt>>
  \/ /\ run[c].terminal = None /\ end = "raisesTerminal"
     /\ Finish(c, "raised") /\ UNCHANGED <<now, health, failedAt>>
  \/ /\ run[c].terminal = None /\ end = "returns"
     /\ Finish(c, "value") /\ UNCHANGED <<now, health, failedAt>>
  \/ /\ run[c].terminal = None /\ end = "raises"
     /\ IF run[c].failure THEN MarkAndMoveOn(c)
        ELSE Finish(c, "raised") /\ UNCHANGED <<now, health, failedAt>>

Settle(c, end) ==
  \/ /\ run[c].terminal # None
     /\ Finish(c, run[c].terminal) /\ UNCHANGED <<now, health, failedAt>>
  \/ /\ run[c].terminal = None /\ end = "raisesTerminal"
     /\ Finish(c, "raised") /\ UNCHANGED <<now, health, failedAt>>
  \/ /\ run[c].terminal = None /\ end # "raisesTerminal"
     /\ ~ run[c].failure
     /\ Finish(c, IF end = "returns" THEN "value" ELSE "raised")
     /\ UNCHANGED <<now, health, failedAt>>
  \/ /\ run[c].terminal = None /\ end # "raisesTerminal"
     /\ run[c].failure
     /\ MarkAndMoveOn(c)

WalkDone(c) ==
  /\ pc[c] = "walk"
  /\ \/ \E end \in WalkEnds : Settle(c, end)
     \/ Finish(c, "raised") /\ UNCHANGED <<now, health, failedAt>>

----------------------------------------------------------------------------
\* check_health: always a fresh probe; what it returns is the verdict recorded.
CheckHealth(c, n) ==
  /\ pc[c] = "idle" /\ ~ Expired
  /\ pc' = [pc EXCEPT ![c] = "check"]
  /\ run' = [run EXCEPT ![c] = n]
  /\ UNCHANGED <<now, health, out, failedAt>>

CheckAnswer(c) ==
  /\ pc[c] = "check"
  /\ \/ \E bad \in BOOLEAN :
          /\ health' = [health EXCEPT ![run[c]] = Verdict(bad)]
          /\ Finish(c, None)
          /\ IF bad THEN UNCHANGED failedAt ELSE Overruled(run[c])
     \/ Expired /\ Finish(c, None) /\ UNCHANGED <<health, failedAt>>
  /\ UNCHANGED now

(***************************************************************************)
(* Time passes.  A verdict past its expiry reads as none at all, so it is  *)
(* forgotten here and not by the next get; the history of failures goes    *)
(* with the instant from which FailureIsRemembered asks nothing of it.     *)
(***************************************************************************)
Tick ==
  /\ now < MaxTime
  /\ now' = now + 1
  /\ health' = [n \in Nodes |->
                  IF health[n] # None /\ health[n].expires < now' THEN None ELSE health[n]]
  /\ failedAt' = [n \in Nodes |->
                    IF failedAt[n] # None /\ now' > failedAt[n] + HealthTtl
                    THEN None ELSE failedAt[n]]
  /\ UNCHANGED <<pc, run, out>>

Step(c) ==
  \/ NoneLeft(c) \/ Skip(c) \/ OutOfNodes(c) \/ Take(c) \/ ProbeAnswer(c)
  \/ \E target \in Nodes \cup {Stranger} : Read(c, target)
  \/ ReadAnswer(c)
  \/ WalkDone(c)
  \/ CheckAnswer(c)

Next ==
  \/ \E c \in Callers : Begin(c)
  \/ \E c \in Threads : Step(c)
  \/ \E c \in Checkers, n \in Nodes : CheckHealth(c, n)
  \/ Tick

\* Threads run, reads end (EbsiHttpClient's EveryReadEnds), walks are finite.
Spec == Init /\ [][Next]_vars /\ \A c \in Threads : WF_vars(Step(c))

----------------------------------------------------------------------------
Runs ==
  [queue : Seq(Nodes), node : Nodes \cup {None}, spent : Nat, 
   failure : BOOLEAN, terminal : Terminals \cup {None}, reads : 0..MaxReads,
   heard : SUBSET (Nodes \cup {Stranger}), broken : BOOLEAN]

Outcomes ==
  Terminals \cup {"value", "raised", "config", "noHealthyNode", None}

TypeOK ==
  /\ now \in 0..MaxTime
  /\ health \in [Nodes -> [bad : BOOLEAN, expires : Nat] \cup {None}]
  /\ pc \in [Threads -> {"idle", "next", "probe", "walk", "read", "check"}]
  /\ \A c \in Threads :
       /\ pc[c] = "idle" => run[c] = None
       /\ pc[c] \in {"next", "probe", "walk", "read"} => run[c] \in Runs
       /\ pc[c] = "check" => run[c] \in Nodes
  /\ out \in [Threads -> Outcomes]
  /\ failedAt \in [Nodes -> Nat \cup {None}]

Ends(c, r) == pc[c] # "idle" /\ pc'[c] = "idle" /\ out'[c] = r

(***************************************************************************)
(* The value run returns was computed from one node's answers alone, and   *)
(* every read of that attempt was answered: an attempt that lost a read is *)
(* discarded even when the walk swallowed the exception.                   *)
(***************************************************************************)
OneNodePerValue ==
  [][\A c \in Threads : Ends(c, "value") =>
       run[c].heard \subseteq {run[c].node} /\ ~ run[c].broken]_vars

(***************************************************************************)
(* A node that failed under a run costs no run another request for         *)
(* health_ttl_s, unless a probe answered well after that.                  *)
(***************************************************************************)
Spends(c, n) ==
  pc[c] = "next" /\ pc'[c] \in {"probe", "walk"} /\ n = Head(run[c].queue)

FailureIsRemembered ==
  [][\A c \in Threads, n \in Nodes :
       Spends(c, n) /\ failedAt[n] # None => now > failedAt[n] + HealthTtl]_vars

\* Every run ends.
EveryRunEnds == \A c \in Threads : pc[c] # "idle" ~> pc[c] = "idle"
=============================================================================
