--------------------------- MODULE EbsiHttpClient ---------------------------
(***************************************************************************)
(* openvc_ebsi.http: EbsiHttpClient's three readers (get_json, get_bytes,  *)
(* probe) over the one request loop _request, with the expiry gate, the    *)
(* caller's deadline, the retry sleeps, the response cache and the address *)
(* guard's choice of one validated address per attempt.                    *)
(*                                                                         *)
(* A call is cut where time passes or another caller may run: the entry of *)
(* the reader, the gate at the top of each attempt, the name resolution    *)
(* and connect, the wait for the reply, the sleep.  What a server sends is *)
(* abstracted to the classes the loop tells apart.  One clock stands for   *)
(* the wall clock of the gate and the monotonic one of deadlines and cache.*)
(***************************************************************************)
EXTENDS Integers, Sequences, FiniteSets, SequencesExt

CONSTANTS
  Callers,       \* threads that share the client
  Urls,          \* the URLs they ask for
  Allowed,       \* those _guard_host admits
  Answers,       \* what the resolver may answer: sequences of addresses
  Attempts,      \* RetryPolicy.attempts
  MaxSleep,      \* the ceiling of one sleep (retry_after_max_s, backoff_max_s)
  Budget,        \* deadline_s of a get_bytes call
  CacheTtl,      \* the response cache's TTL
  ValidUntil,    \* the instant the client stops working
  MaxTime,       \* bound on the clock
  None

AddressSet == UNION {Range(ans) : ans \in Answers}

ASSUME HttpAssumption ==
  /\ Allowed \subseteq Urls
  /\ Answers # {} /\ <<>> \notin Answers
  /\ \A ans \in Answers : ans \in Seq(AddressSet)
  /\ Attempts \in Nat /\ MaxSleep \in Nat /\ Budget \in Nat
  /\ CacheTtl \in Nat /\ ValidUntil \in Nat /\ MaxTime \in Nat

\* The bound on the clock lies past the expiry: what it cuts short is the
\* sleep of a call the gate then refuses.
ASSUME HorizonAssumption == ValidUntil <= MaxTime

\* The resolver may rotate its answer, and does not change its mind.
ASSUME ResolverAssumption == \A ans \in Answers : Range(ans) = AddressSet

VARIABLES
  now,           \* the clock
  cache,         \* response cache: per URL the expiry and the kind of body
  pc,            \* where each caller is
  call,          \* the locals of its call
  out            \* how its last call ended

vars == <<now, cache, pc, call, out>>

(***************************************************************************)
(* The calls: "cond" is get_bytes with an etag.  `last` is last_exc, `log` *)
(* (a history variable) the address of each request that was sent.         *)
(***************************************************************************)
Kinds == {"json", "bytes", "cond", "probe"}

\* A body that is a JSON object, and one that is not.
Bodies == {"object", "other"}

\* Statuses: in retry_statuses, 404, 304, and every other that is not 200.
Statuses == {"busy", "missing", "notModified", "odd"}

Results ==
  {"value", "cached", "body", "notModified", "status", "expired", "forbiddenHost",
   "forbiddenAddress", "notFound", "httpError", "malformed", "limits", "encoding",
   "unreachable", "unavailable"}

\* None is no instant and no outcome.
ASSUME AbsenceAssumption == None \notin Nat \cup Results

Expired == now >= ValidUntil

Fresh(u) == cache[u] # None /\ cache[u].expires >= now

First(k) == IF k = "probe" /\ Attempts > 0 THEN Attempts - 1 ELSE 0

----------------------------------------------------------------------------
Init ==
  /\ now = 0
  /\ cache = [u \in Urls |-> None]
  /\ pc = [c \in Callers |-> "idle"]
  /\ call = [c \in Callers |-> None]
  /\ out = [c \in Callers |-> None]

\* The call ends in the entry point, before the loop.
Refuse(c, r) ==
  /\ out' = [out EXCEPT ![c] = r]
  /\ UNCHANGED <<now, cache, pc, call>>

Enter(c, k, u, until) ==
  /\ pc' = [pc EXCEPT ![c] = "gate"]
  /\ call' = [call EXCEPT ![c] =
       [kind |-> k, url |-> u, attempt |-> First(k), until |-> until, gate |-> 0,
        wake |-> 0, tried |-> <<>>, last |-> None, log |-> <<>>]]
  /\ out' = [out EXCEPT ![c] = None]
  /\ UNCHANGED <<now, cache>>

\* get_json: the gate, the host guard, the cache, and only then the loop.
GetJson(c, u) ==
  /\ pc[c] = "idle"
  /\ \/ Expired /\ Refuse(c, "expired")
     \/ ~ Expired /\ u \notin Allowed /\ Refuse(c, "forbiddenHost")
     \/ ~ Expired /\ u \in Allowed /\ Fresh(u) /\ Refuse(c, "cached")
     \/ ~ Expired /\ u \in Allowed /\ ~ Fresh(u) /\ Enter(c, "json", u, None)

\* get_bytes: with or without a validator, with or without deadline_s.
GetBytes(c, u) ==
  /\ pc[c] = "idle"
  /\ \/ Expired /\ Refuse(c, "expired")
     \/ ~ Expired /\ u \notin Allowed /\ Refuse(c, "forbiddenHost")
     \/ /\ ~ Expired /\ u \in Allowed
        /\ \E k \in {"bytes", "cond"}, until \in {None, now + Budget} : Enter(c, k, u, until)

Probe(c, u) ==
  /\ pc[c] = "idle"
  /\ \/ Expired /\ Refuse(c, "expired")
     \/ ~ Expired /\ u \notin Allowed /\ Refuse(c, "forbiddenHost")
     \/ ~ Expired /\ u \in Allowed /\ Enter(c, "probe", u, None)

----------------------------------------------------------------------------
\* The call ends inside the loop.
Finish(c, r) ==
  /\ pc' = [pc EXCEPT ![c] = "idle"]
  /\ call' = [call EXCEPT ![c] = None]
  /\ out' = [out EXCEPT ![c] = r]
  /\ UNCHANGED now

\* The loop is exhausted: HttpTransientExhausted, told apart by its status.
GiveUp(c) ==
  /\ pc[c] = "gate"
  /\ call[c].attempt >= Attempts
  /\ Finish(c, IF call[c].last = "busy" THEN "unavailable" ELSE "unreachable")
  /\ UNCHANGED cache

TimeLeft(c) == call[c].until # None => call[c].until > now

\* A loop that reads the clock once, before its first attempt.
GateOnce(c) ==
  /\ pc[c] = "gate"
  /\ call[c].attempt < Attempts
  /\ \/ Expired /\ call[c].log = <<>> /\ Finish(c, "expired") /\ UNCHANGED cache
     \/ ~ Expired /\ ~ TimeLeft(c) /\ Finish(c, "limits") /\ UNCHANGED cache
     \/ /\ ~ Expired \/ call[c].log # <<>>
        /\ TimeLeft(c)
        /\ pc' = [pc EXCEPT ![c] = "open"]
        /\ call' = [call EXCEPT ![c] = [call[c] EXCEPT !.gate = now]]
        /\ UNCHANGED <<now, cache, out>>

\* The top of an attempt: the expiry gate, then what is left of the budget.
Gate(c) ==
  /\ pc[c] = "gate"
  /\ call[c].attempt < Attempts
  /\ \/ Expired /\ Finish(c, "expired") /\ UNCHANGED cache
     \/ ~ Expired /\ ~ TimeLeft(c) /\ Finish(c, "limits") /\ UNCHANGED cache
     \/ /\ ~ Expired /\ TimeLeft(c)
        /\ pc' = [pc EXCEPT ![c] = "open"]
        /\ call' = [call EXCEPT ![c] = [call[c] EXCEPT !.gate = now]]
        /\ UNCHANGED <<now, cache, out>>

(***************************************************************************)
(* What an attempt that may be retried does next: _sleep_before_retry (no  *)
(* sleep after the last attempt, never past the budget) and the next       *)
(* iteration.  `why` becomes last_exc.                                     *)
(***************************************************************************)
\* Retry-After is slept in full, whatever is left of the budget.
ClampNot(c, d) == d

Clamp(c, d) ==
  IF call[c].until = None THEN d
  ELSE IF call[c].until <= now THEN 0
  ELSE IF d > call[c].until - now THEN call[c].until - now ELSE d

Failed(c, why) ==
  /\ \/ /\ call[c].attempt >= Attempts - 1
        /\ pc' = [pc EXCEPT ![c] = "gate"]
        /\ call' = [call EXCEPT ![c] = [call[c] EXCEPT !.last = why, !.attempt = @ + 1]]
     \/ /\ call[c].attempt < Attempts - 1
        /\ pc' = [pc EXCEPT ![c] = "sleep"]
        /\ \E d \in 0..MaxSleep :
             call' = [call EXCEPT ![c] =
                        [call[c] EXCEPT !.last = why, !.wake = now + Clamp(c, d)]]
  /\ UNCHANGED <<now, cache, out>>

(***************************************************************************)
(* _open_stream under an address guard: resolve, validate, take the first  *)
(* address this call has not used, starting over when all have been.  No   *)
(* answer is retried; an address that is not public, or a URL the HTTP     *)
(* library reads otherwise than the guard did, ends the call.              *)
(***************************************************************************)
Untried(c, ans) == {i \in DOMAIN ans : ans[i] \notin Range(call[c].tried)}

\* Always the first address of the answer.
PickFirst(c, ans) == [addr |-> Head(ans), tried |-> call[c].tried]

Pick(c, ans) ==
  LET fresh == Untried(c, ans)
      first == ans[Min(fresh)]
  IN  IF fresh # {}
      THEN [addr |-> first, tried |-> Append(call[c].tried, first)]
      ELSE [addr |-> Head(ans), tried |-> <<Head(ans)>>]

Open(c) ==
  /\ pc[c] = "open"
  /\ \/ \E ans \in Answers :
          LET p == Pick(c, ans)
          IN  /\ pc' = [pc EXCEPT ![c] = "wire"]
              /\ call' = [call EXCEPT ![c] =
                         [call[c] EXCEPT !.tried = p.tried, !.log = Append(@, p.addr)]]
              /\ UNCHANGED <<now, cache, out>>
     \/ Failed(c, "unresolved")
     \/ \E r \in {"forbiddenAddress", "forbiddenHost"} : Finish(c, r) /\ UNCHANGED cache

\* A connect, handshake, read or write that fails: retried.
Transport(c) ==
  /\ pc[c] = "wire"
  /\ Failed(c, "transport")

\* _read_verbatim: past the cap or the deadline, a coding it does not read,
\* a body that does not decode.
ReadErrors == {"limits", "encoding", "malformed"}

(***************************************************************************)
(* A 200: the bounded reader gives up on size, time or coding, or hands    *)
(* over the body; get_json parses it and caches a success.                 *)
(***************************************************************************)
Body(c) ==
  /\ pc[c] = "wire"
  /\ \/ \E b \in Bodies :
          /\ call[c].kind = "json"
          /\ cache' = IF b = "object"
                      THEN [cache EXCEPT ![call[c].url] =
                              [expires |-> now + CacheTtl, body |-> b]]
                      ELSE cache
          /\ Finish(c, IF b = "object" THEN "value" ELSE "malformed")
     \/ call[c].kind # "json" /\ Finish(c, "body") /\ UNCHANGED cache
     \/ \E r \in ReadErrors : Finish(c, r) /\ UNCHANGED cache

\* Any other status; get_json also drains the body, which may not decode.
Status(c) ==
  /\ pc[c] = "wire"
  /\ \/ \E s \in Statuses :
          LET k == call[c].kind
          IN  \/ s = "notModified" /\ k = "cond" /\ Finish(c, "notModified") /\ UNCHANGED cache
              \/ k = "probe" /\ Finish(c, "status") /\ UNCHANGED cache
              \/ k # "probe" /\ s = "missing" /\ Finish(c, "notFound") /\ UNCHANGED cache
              \/ k # "probe" /\ s = "busy" /\ Failed(c, "busy")
              \/ /\ k # "probe"
                 /\ s = "odd" \/ (s = "notModified" /\ k # "cond")
                 /\ Finish(c, "httpError") /\ UNCHANGED cache
     \/ call[c].kind = "json" /\ Finish(c, "malformed") /\ UNCHANGED cache

\* A sleep that does not move the loop on.
WakeNoProgress(c) ==
  /\ pc[c] = "sleep"
  /\ now >= call[c].wake \/ now = MaxTime
  /\ call' = [call EXCEPT ![c] = [call[c] EXCEPT !.wake = now]]
  /\ UNCHANGED <<now, cache, pc, out>>

\* time.sleep returns; at the horizon of the clock it returns at once.
Wake(c) ==
  /\ pc[c] = "sleep"
  /\ now >= call[c].wake \/ now = MaxTime
  /\ pc' = [pc EXCEPT ![c] = "gate"]
  /\ call' = [call EXCEPT ![c] = [call[c] EXCEPT !.attempt = @ + 1]]
  /\ UNCHANGED <<now, cache, out>>

Tick ==
  /\ now < MaxTime
  /\ now' = now + 1
  /\ UNCHANGED <<cache, pc, call, out>>

Loop(c) == GiveUp(c) \/ Gate(c) \/ Open(c) \/ Transport(c) \/ Body(c) \/ Status(c) \/ Wake(c)

Next ==
  \/ \E c \in Callers, u \in Urls : GetJson(c, u) \/ GetBytes(c, u) \/ Probe(c, u)
  \/ \E c \in Callers : Loop(c)
  \/ Tick

(***************************************************************************)
(* A caller's thread runs, every socket operation ends within timeout_s    *)
(* (in a reply or a transport error), sleeps return and time passes.       *)
(***************************************************************************)
Fairness == WF_vars(Tick) /\ \A c \in Callers : WF_vars(Loop(c))

Spec == Init /\ [][Next]_vars /\ Fairness

----------------------------------------------------------------------------
Calls ==
  [kind : Kinds, url : Urls, attempt : 0..Attempts, until : Nat \cup {None}, gate : Nat,
   wake : Nat, tried : Seq(AddressSet), last : {"busy", "transport", "unresolved", None},
   log : Seq(AddressSet)]

TypeOK ==
  /\ now \in 0..MaxTime
  /\ cache \in [Urls -> [expires : Nat, body : Bodies] \cup {None}]
  /\ pc \in [Callers -> {"idle", "gate", "open", "wire", "sleep"}]
  /\ call \in [Callers -> Calls \cup {None}]
  /\ \A c \in Callers : pc[c] # "idle" => call[c] \in Calls
  /\ out \in [Callers -> Results \cup {None}]

(***************************************************************************)
(* "At or after it every read raises NodeListExpired and no request is     *)
(* sent": nothing is served from the cache past valid_until, and a request *)
(* goes out only on a clock reading before it, taken after the last sleep. *)
(***************************************************************************)
NothingPastExpiry ==
  [][\A c \in Callers :
       /\ pc[c] = "idle" /\ out'[c] = "cached" /\ out[c] # "cached" => now < ValidUntil
       /\ pc[c] = "open" /\ pc'[c] = "wire"
            => call[c].gate < ValidUntil /\ call[c].gate >= call[c].wake]_vars

(***************************************************************************)
(* deadline_s: no attempt begins once it is spent, and no sleep outlasts   *)
(* it, whatever Retry-After asks for.                                      *)
(***************************************************************************)
DeadlineHolds ==
  \A c \in Callers : pc[c] # "idle" /\ call[c].until # None =>
    /\ pc[c] \in {"open", "wire"} => call[c].gate < call[c].until
    /\ pc[c] = "sleep" => call[c].wake <= call[c].until \/ call[c].wake <= now

(***************************************************************************)
(* When the resolver keeps answering the same set of addresses, in any     *)
(* order, k attempts reach k different ones until all have had their turn. *)
(***************************************************************************)
ReachesEveryAddress ==
  \A c \in Callers : pc[c] # "idle" =>
    LET sent == Len(call[c].log)
    IN  Cardinality(Range(call[c].log)) =
          IF sent <= Cardinality(AddressSet) THEN sent ELSE Cardinality(AddressSet)

\* Every read ends, in an answer or an error.
EveryReadEnds == \A c \in Callers : pc[c] # "idle" ~> pc[c] = "idle"
=============================================================================
