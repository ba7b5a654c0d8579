------------------------------ MODULE Diagnosis ------------------------------
(***************************************************************************)
(* diagnosis::explain as operators on the evidence of a report.  A report  *)
(* is a record with                                                        *)
(*   proxy_mode  "direct", "environment" or "explicit" (what was asked)    *)
(*   proxy       [status, bypassed, mode]  (proxy_transport)               *)
(*   dns         "pass" or "fail"                                          *)
(*   routes      sequence of "no_route" or "none" (any other evidence)     *)
(*   tcp         sequence of [address, family, status, error_kind]         *)
(*   attempts    sequence of [address, connect, tls, http, code, status]   *)
(* in which an absent tls or http result is "none" and an absent HTTP      *)
(* status code is 0.  Addresses are numbers in the order of SocketAddr.    *)
(* Of the texts only the address whose error becomes likely_cause is kept. *)
(***************************************************************************)
EXTENDS Naturals, Sequences, SequencesExt

NoAddress == 0

\* What explain and finish write: overall, diagnosis.code, the address whose
\* error is the likely cause, and the exit code of the process.
Verdict(overall, code, cause) ==
  [overall   |-> overall,
   code      |-> code,
   cause     |-> cause,
   exit_code |-> IF overall = "fail" THEN 1 ELSE 0]

\* The elements of S with the least address (min_by_key).
LeastAddress(S) ==
  CHOOSE a \in {e.address : e \in S} : \A e \in S : a <= e.address

Passed(r) == r.status = "pass"
NotFailed(r) == r.status # "fail"

-----------------------------------------------------------------------------
\* All connection errors are of one of these kinds.
all_tcp_errors(report, kinds) ==
  /\ report.tcp # <<>>
  /\ \A r \in Range(report.tcp) : r.error_kind \in kinds

has_no_route(report) ==
  \/ all_tcp_errors(report, {"network_unreachable", "host_unreachable"})
  \/ report.routes # <<>> /\ Range(report.routes) = {"no_route"}

diagnose_tcp_failure(report) ==
  IF all_tcp_errors(report, {"connection_refused"})
    THEN Verdict("fail", "TCP_CONNECTION_REFUSED", NoAddress)
  ELSE IF has_no_route(report)
    THEN Verdict("fail", "NO_ROUTE", NoAddress)
  ELSE IF all_tcp_errors(report, {"timeout"})
    THEN Verdict("fail", "TCP_TIMEOUT", NoAddress)
  ELSE Verdict("fail", "TCP_CONNECT_FAILED",
               IF report.tcp = <<>> THEN NoAddress ELSE report.tcp[1].address)

\* "none" when the family was not resolved, else whether any address of it
\* connected.
family_state(report, family) ==
  LET members == {r \in Range(report.tcp) : r.family = family}
  IN IF members = {} THEN "none"
     ELSE IF \E r \in members : Passed(r) THEN "works" ELSE "fails"

diagnose_family_asymmetry(report) ==
  {family_state(report, "ipv4"), family_state(report, "ipv6")} = {"works", "fails"}

-----------------------------------------------------------------------------
MutApplicationFailed(report) ==   \* mutant: one failed attempt is enough
  \E a \in Range(report.attempts) : ~ NotFailed(a)

\* Every attempt failed (and there was one).
application_failed(report) ==
  report.attempts # <<>> /\ \A a \in Range(report.attempts) : ~ NotFailed(a)

partial_application_failure(report) ==
  /\ \E a \in Range(report.attempts) : ~ NotFailed(a)
  /\ \E a \in Range(report.attempts) : NotFailed(a)

MutClassifyFirst(attempts) ==   \* mutant: the first attempt decides
  LET a == attempts[1]
  IN [stage |-> IF a.connect = "fail" THEN "connect"
                ELSE IF a.tls = "fail" THEN "tls" ELSE "http",
      cause |-> a.address]

\* The deepest layer any address reached decides the class, the least address
\* that failed there supplies the cause.
classify_application_failure(attempts) ==
  LET failed(layer) == {a \in Range(attempts) : a[layer] = "fail"}
      class(stage, S) == [stage |-> stage, cause |-> LeastAddress(S)]
  IN IF Range(attempts) = failed("connect")
       THEN class("connect", failed("connect"))
     ELSE IF failed("http") # {} THEN class("http", failed("http"))
     ELSE IF failed("tls") # {} THEN class("tls", failed("tls"))
     ELSE [stage |-> "http", cause |-> NoAddress]

diagnose_application_failure(report) ==
  LET failure == classify_application_failure(report.attempts)
      code == [connect |-> "APPLICATION_CONNECT_FAILED",
               tls     |-> "TLS_HANDSHAKE_FAILED",
               http    |-> "HTTP_EXCHANGE_FAILED"]
  IN Verdict("fail", code[failure.stage], failure.cause)

\* The first attempt that did not fail carries an HTTP status of 400 or more.
http_error(report) ==
  LET first == SelectInSeq(report.attempts, NotFailed)
  IN first # 0 /\ report.attempts[first].code >= 400

HttpErrorStatus == Verdict("warn", "HTTP_ERROR_STATUS", NoAddress)

-----------------------------------------------------------------------------
proxy_auth_rejected(report) ==
  /\ report.proxy.status = "fail"
  /\ \E a \in Range(report.attempts) : a.code = 407

explain_proxy_result(report) ==
  LET unusable(cause) == Verdict("fail", "PROXY_CONNECTION_FAILED", cause)
  IN IF proxy_auth_rejected(report) THEN unusable(NoAddress)
     ELSE IF report.proxy.status = "fail" /\ report.attempts = <<>>
       THEN unusable(NoAddress)
     ELSE IF application_failed(report) THEN
       IF \A a \in Range(report.attempts) : a.connect = "fail"
         THEN unusable(report.attempts[1].address)
         ELSE diagnose_application_failure(report)
     ELSE IF http_error(report) THEN HttpErrorStatus
     ELSE Verdict("pass", "CONNECTIVITY_OK", NoAddress)

explain_direct(report) ==
  IF report.dns = "fail"
    THEN Verdict("fail", "DNS_RESOLUTION_FAILED", NoAddress)
  ELSE IF ~ \E r \in Range(report.tcp) : Passed(r)
    THEN diagnose_tcp_failure(report)
  ELSE IF application_failed(report) THEN diagnose_application_failure(report)
  ELSE IF http_error(report) THEN HttpErrorStatus
  ELSE IF partial_application_failure(report)
    THEN Verdict("warn", "APPLICATION_ADDRESS_PARTIAL", NoAddress)
  ELSE IF diagnose_family_asymmetry(report)
    THEN Verdict("warn", "ADDRESS_FAMILY_PARTIAL", NoAddress)
  ELSE Verdict("pass", "CONNECTIVITY_OK", NoAddress)

explain(report) ==
  IF report.proxy_mode # "direct" /\ ~ report.proxy.bypassed
    THEN explain_proxy_result(report)
    ELSE explain_direct(report)
==============================================================================
