--------------------------- MODULE ApplicationProbe --------------------------
(***************************************************************************)
(* probe::application: the sequential loop that tries the application      *)
(* protocol on one address after another until one is reachable, directly  *)
(* (probe) or through the addresses of the selected proxy                  *)
(* (probe_via_proxy).  Every await of an attempt is an action that the     *)
(* network, or the attempt's own timer, may end either way: `connect` (the *)
(* proxy's TCP, TLS and CONNECT or SOCKS steps are one stage here), `tls`  *)
(* with the target, `http`.                                                *)
(***************************************************************************)
EXTENDS Naturals, Sequences, SequencesExt

CONSTANTS
  Address,   \* addresses that may be tried, numbers in SocketAddr order
  Codes      \* HTTP status codes a target answers with

ASSUME AddressAssumption == Address \subseteq Nat \ {0}
ASSUME CodesAssumption == Codes \subseteq 100..599

Schemes == {"tcp", "http", "https"}
ProxySchemes == {"http", "https", "socks5", "socks5h"}

VARIABLES
  scheme,          \* scheme of the target
  proxy,           \* scheme of the selected proxy, "none" when direct
  candidates,      \* the addresses the loop iterates over
  position,        \* position of the loop in candidates
  stage,           \* the await the loop is at: "start" before it, "done" after
  attempts,        \* application_attempts
  proxy_attempts,  \* the attempts of ProxyTransportEvidence
  served,          \* ghost: the target itself did what was requested of it
  progress         \* ghost: the stages some attempt got to

appVars == <<scheme, proxy, candidates, position, stage, attempts,
             proxy_attempts, served, progress>>

-----------------------------------------------------------------------------
\* An absolute-form request is answered by the proxy, not relayed to a tunnel.
Forwarded == scheme = "http" /\ proxy \in {"http", "https"}

\* HTTP answers and who gives them: the target, or the proxy that wants
\* credentials before it forwards a request (a 407 of the target behind such a
\* proxy would be taken for the proxy's and is left out).
Replies ==
  IF Forwarded
    THEN [code : Codes \ {407}, by : {"target"}] \cup [code : {407}, by : {"proxy"}]
    ELSE [code : Codes, by : {"target"}]

HttpStatus(code) == IF code >= 400 THEN "warn" ELSE "pass"

connect_failure(a) ==
  [address |-> a, connect |-> "fail", tls |-> "none", http |-> "none",
   code |-> 0, status |-> "fail"]

tls_failure(a) ==
  [address |-> a, connect |-> "pass", tls |-> "fail", http |-> "none",
   code |-> 0, status |-> "fail"]

\* An attempt whose stages up to HTTP succeeded.
http_result(a, status, code) ==
  [address |-> a, connect |-> "pass",
   tls |-> IF scheme = "https" THEN "pass" ELSE "none",
   http |-> status, code |-> code, status |-> status]

\* A raw TCP target is reached as soon as the proxy's tunnel is open.
tunnel_result(a) ==
  [address |-> a, connect |-> "pass", tls |-> "none", http |-> "none",
   code |-> 0, status |-> "pass"]

forwarded_proxy_rejection(attempt) == Forwarded /\ attempt.code = 407

-----------------------------------------------------------------------------
AppInit ==
  /\ scheme \in Schemes
  /\ proxy = "none"
  /\ candidates = <<>>
  /\ position = 1
  /\ stage = "start"
  /\ attempts = <<>>
  /\ proxy_attempts = <<>>
  /\ served = FALSE
  /\ progress = {}

Goto(s) == stage' = s /\ progress' = progress \cup {s}

MutStart(p, addresses) ==   \* mutant: waits for an address to try
  /\ stage = "start"
  /\ addresses # <<>>
  /\ proxy' = p
  /\ candidates' = addresses
  /\ Goto("connect")
  /\ UNCHANGED <<scheme, position, attempts, proxy_attempts, served>>

\* The loop starts, through proxy p or directly, on a list of addresses;
\* probe returns at once for a raw TCP target.
Start(p, addresses) ==
  /\ stage = "start"
  /\ proxy' = p
  /\ candidates' = addresses
  /\ IF addresses = <<>> \/ (scheme = "tcp" /\ p = "none")
       THEN stage' = "done" /\ UNCHANGED progress
       ELSE Goto("connect")
  /\ UNCHANGED <<scheme, position, attempts, proxy_attempts, served>>

Current == candidates[position]

MutPushStopsOnFailure(attempt) ==   \* mutant: `break` whatever the status
  /\ attempts' = Append(attempts, attempt)
  /\ UNCHANGED <<proxy_attempts, progress>>
  /\ position' = position + 1
  /\ stage' = "done"

\* End of an iteration: push the attempt (and the proxy's), leave the loop if
\* the target was reachable, else go on with the next address.
Push(attempt) ==
  LET rejected == forwarded_proxy_rejection(attempt)
      reachable == attempt.status # "fail" /\ ~ rejected
      usable == attempt.connect = "pass" /\ ~ rejected
  IN /\ attempts' = Append(attempts, attempt)
     /\ proxy_attempts' =
          IF proxy = "none" THEN proxy_attempts
          ELSE Append(proxy_attempts,
                      [address |-> Current,
                       status  |-> IF usable THEN "pass" ELSE "fail"])
     /\ position' = position + 1
     /\ IF reachable \/ position = Len(candidates)
          THEN stage' = "done" /\ UNCHANGED progress
          ELSE Goto("connect")

ConnectFails ==
  /\ stage = "connect"
  /\ Push(connect_failure(Current))
  /\ UNCHANGED <<scheme, proxy, candidates, served>>

\* Connected: through the proxy a raw TCP target is served by that alone.
Connect ==
  /\ stage = "connect"
  /\ \/ /\ scheme = "tcp"
        /\ Push(tunnel_result(Current))
        /\ served' = TRUE
     \/ /\ scheme # "tcp"
        /\ Goto(IF scheme = "https" THEN "tls" ELSE "http")
        /\ UNCHANGED <<position, attempts, proxy_attempts, served>>
  /\ UNCHANGED <<scheme, proxy, candidates>>

TlsFails ==
  /\ stage = "tls"
  /\ Push(tls_failure(Current))
  /\ UNCHANGED <<scheme, proxy, candidates, served>>

Tls ==
  /\ stage = "tls"
  /\ Goto("http")
  /\ UNCHANGED <<scheme, proxy, candidates, position, attempts,
                 proxy_attempts, served>>

\* No valid response: closed, malformed, too large or too late.
HttpFails ==
  /\ stage = "http"
  /\ Push(http_result(Current, "fail", 0))
  /\ UNCHANGED <<scheme, proxy, candidates, served>>

Http ==
  /\ stage = "http"
  /\ \E reply \in Replies :
       /\ Push(http_result(Current, HttpStatus(reply.code), reply.code))
       /\ served' = (served \/ reply.by = "target")
  /\ UNCHANGED <<scheme, proxy, candidates>>

AppStep == ConnectFails \/ Connect \/ TlsFails \/ Tls \/ HttpFails \/ Http

\* Each stage is under `timeout(operation_timeout, ...)`: it fails if nothing
\* else ends it.  That it succeeds is never promised.
TimesOut == ConnectFails \/ TlsFails \/ HttpFails

\* The status of the proxy transport, as probe_via_proxy computes it.
ProxyStatus ==
  IF \E p \in Range(proxy_attempts) : p.status = "pass" THEN "pass" ELSE "fail"

-----------------------------------------------------------------------------
Attempt ==
  [address : Address, connect : {"pass", "fail"}, tls : {"none", "pass", "fail"},
   http : {"none", "pass", "warn", "fail"}, code : Codes \cup {0, 407},
   status : {"pass", "warn", "fail"}]

AppTypeOK ==
  /\ scheme \in Schemes
  /\ proxy \in ProxySchemes \cup {"none"}
  /\ candidates \in Seq(Address)
  /\ position \in 1..(Len(candidates) + 1)
  /\ stage \in {"start", "connect", "tls", "http", "done"}
  /\ attempts \in Seq(Attempt)
  /\ proxy_attempts \in Seq([address : Address, status : {"pass", "fail"}])
  /\ served \in BOOLEAN
  /\ progress \in SUBSET {"connect", "tls", "http"}
==============================================================================
