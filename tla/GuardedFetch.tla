---------------------------- MODULE GuardedFetch ----------------------------
(***************************************************************************)
(* openvc.fetch: one https GET of a URL whose host anybody may have named. *)
(* The host is looked up once, every address of the answer is checked, and *)
(* the connection goes to the first of them; a redirect is not followed;   *)
(* the body is read in pieces against one deadline and one limit.          *)
(*                                                                         *)
(* Names are looked up in a DNS that may answer every query anew.  What    *)
(* the server sends is measured in units, time in ticks.  The module holds *)
(* one fetch; the composing module says what is fetched and what for.      *)
(***************************************************************************)
EXTENDS Integers, Sequences, Checks

CONSTANTS
  Answers,       \* what the DNS may answer: sequences of addresses
  Forbidden,     \* addresses that are not globally routable
  Timeout,       \* timeout_s: of one socket operation, and of the body
  MaxUnits,      \* max_bytes
  None

ASSUME FetchAssumption ==
  /\ \A a \in Answers : a \in Seq(UNION {{b[n] : n \in DOMAIN b} : b \in Answers})
  /\ Timeout \in Nat \ {0} /\ MaxUnits \in Nat

VARIABLES
  fetch,         \* the locals of _https_fetch_guarded and _https_get
  contacted      \* history: the addresses a connection was opened to

Idle == [pc |-> "idle", ip |-> None, status |-> None, got |-> 0, clock |-> 0, deadline |-> 0]

FetchInit == fetch = Idle /\ contacted = {}

\* The fetch returns or raises, and its locals are gone.
FetchReturns(how) == fetch' = [Idle EXCEPT !.pc = how]

FetchFails(e) == FetchReturns(e)

----------------------------------------------------------------------------
UrlChecks(url) ==
  << Check(url.ascii,              "unsafe"),
     Check(url.wellFormed,         "unsafe"),
     Check(url.scheme = "https",   "unsafe"),
     Check(url.host # None,        "unsafe"),
     Check(url.host # "long",      "unsafe"),
     Check(url.host # "control",   "unsafe") >>

\* A fetch of `url` begins; the URL is checked before anything is looked up.
StartFetch(url) ==
  /\ fetch.pc = "idle"
  /\ LET e == FirstError(UrlChecks(url))
     IN  fetch' = [Idle EXCEPT !.pc = IF e = "ok" THEN "lookup" ELSE e]
  /\ UNCHANGED contacted

\* _resolve_public_ips: one bad address rejects the host.
Addresses(ips) ==
  << Check(ips # <<>>,                                        "unsafe"),
     Check(\A n \in DOMAIN ips : ips[n] \notin Forbidden,     "unsafe") >>

Lookup ==
  /\ fetch.pc = "lookup"
  /\ \E ips \in Answers :
       LET e == FirstError(Addresses(ips))
       IN  IF e = "ok" THEN fetch' = [fetch EXCEPT !.pc = "connect", !.ip = ips[1]]
           ELSE FetchFails(e)
  /\ UNCHANGED contacted

\* The hostname is resolved again for the connection.
PeerAnew(ip) == {ips[1] : ips \in Answers \ {<<>>}}

\* _connect_to_validated_ip: the address the name is not looked up again for.
Peer(ip) == {ip}

Connect ==
  /\ fetch.pc = "connect"
  /\ \E peer \in Peer(fetch.ip) :
       /\ contacted' = contacted \cup {peer}
       /\ \/ fetch' = [fetch EXCEPT !.pc = "response"]
          \/ FetchFails("transport")

\* The status line and headers, over which the code has no deadline: the
\* clock and the deadline of the body start with the body.
Response ==
  /\ fetch.pc = "response"
  /\ \/ \E s \in {200, 302, 404} :
          fetch' = [fetch EXCEPT !.pc = "body", !.status = s, !.deadline = fetch.clock + Timeout]
     \/ FetchFails("transport")
  /\ UNCHANGED contacted

\* Only each piece has a timeout, not the body.
LateNever == FALSE

Late == fetch.clock > fetch.deadline

\* read1 returns a piece within the socket's timeout, or raises.
ReadUnit ==
  /\ fetch.pc = "body" /\ fetch.got <= MaxUnits
  /\ IF Late THEN FetchFails("deadline")
     ELSE \/ \E t \in 0..Timeout :
               fetch' = [fetch EXCEPT !.got = @ + 1, !.clock = @ + t]
          \/ FetchFails("transport")
  /\ UNCHANGED contacted

StatusChecks ==
  << Check(fetch.status # 302,         "unsafe"),
     Check(fetch.status = 200,         "status"),
     Check(fetch.got <= MaxUnits,      "oversize") >>

\* https_text_fetch, https_json_fetch: a body may not be what it is read as.
Decoded == {"done", "decode"}

\* The body has ended, or one unit more than the limit was read.
EndFetch ==
  /\ fetch.pc = "body"
  /\ IF fetch.got <= MaxUnits /\ Late THEN FetchFails("deadline")
     ELSE LET e == FirstError(StatusChecks)
          IN  IF e = "ok" THEN \E how \in Decoded : FetchReturns(how) ELSE FetchFails(e)
  /\ UNCHANGED contacted

----------------------------------------------------------------------------
(***************************************************************************)
(* "An attacker who flips DNS between the check and the connect cannot     *)
(* redirect us to an internal address": whatever the DNS answers, and when *)
(* it changes its mind, every connection goes to a routable address, and   *)
(* one fetch opens one connection.                                         *)
(***************************************************************************)
ContactsOnlyChecked ==
  contacted \cap Forbidden = {} /\ (contacted = {} \/ \E a \in contacted : contacted = {a})

(***************************************************************************)
(* A body is read "against a total wall-clock deadline": a server that     *)
(* drips its body holds the fetch for one socket timeout past it at most,  *)
(* and no more than one unit beyond the limit is ever taken in.            *)
(***************************************************************************)
ReadIsBounded ==
  fetch.clock <= fetch.deadline + Timeout /\ fetch.got <= MaxUnits + 1
=============================================================================
