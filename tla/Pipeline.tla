------------------------------- MODULE Pipeline ------------------------------
(***************************************************************************)
(* diagnose_with_context: DNS, then routes, TCP and the proxy plan         *)
(* concurrently, then path evidence, plugins and the application probe     *)
(* concurrently, then the report and its explanation.  The fan-outs behind *)
(* RoutesDone and TcpDone are module Fanout, seen here through what        *)
(* OrderedEvidence promises; the application probe runs step by step, so   *)
(* that the network may change its mind between a TCP probe and the        *)
(* reconnect that relies on it.                                            *)
(***************************************************************************)
EXTENDS ApplicationProbe, Diagnosis

CONSTANTS
  Answers,       \* the address lists the resolver may return for the target
  ProxyAnswers,  \* ... and for the proxy
  Family,        \* address family of every address
  TcpErrors      \* error kinds of a failed TCP probe

Modes == {"direct", "environment", "explicit"}
Plans == {"direct", "bypassed", "unavailable", "proxy"}

ASSUME AnswersAssumption ==
  /\ Answers \subseteq Seq(Address) \ {<<>>}
  /\ ProxyAnswers \subseteq Seq(Address) \ {<<>>}
  /\ Family \in [Address -> {"ipv4", "ipv6"}]

VARIABLES
  mode,     \* effective proxy mode of the invocation
  phase,    \* the await diagnose_with_context is at
  joined,   \* the futures of the current join! that have completed
  dns,      \* [status, addresses]
  routes,   \* routes of the report
  tcp,      \* tcp of the report
  plan,     \* [kind, scheme, addresses]: the ProxyPlan
  verdict   \* what explain wrote, "skip" before

vars == <<appVars, mode, phase, joined, dns, routes, tcp, plan, verdict>>

NoPlan == [kind |-> "direct", scheme |-> "none", addresses |-> <<>>]
NoVerdict == Verdict("skip", "CONNECTIVITY_OK", NoAddress)

Init ==
  /\ AppInit
  /\ mode \in Modes
  /\ phase = "dns"
  /\ joined = {}
  /\ dns = [status |-> "fail", addresses |-> <<>>]
  /\ routes = <<>>
  /\ tcp = <<>>
  /\ plan = NoPlan
  /\ verdict = NoVerdict

-----------------------------------------------------------------------------
\* probe::dns::resolve: an error, no usable address, or a list of addresses.
Resolve ==
  /\ phase = "dns"
  /\ \/ UNCHANGED dns
     \/ \E a \in Answers : dns' = [status |-> "pass", addresses |-> a]
  /\ phase' = "fanout"
  /\ UNCHANGED <<appVars, mode, joined, routes, tcp, plan, verdict>>

MutCompletes(p, future) ==   \* mutant: polled before its join!
  /\ phase # "done"
  /\ future \notin joined
  /\ joined' = joined \cup {future}
  /\ UNCHANGED phase

Completes(p, future) ==
  /\ phase = p
  /\ future \notin joined
  /\ joined' = joined \cup {future}
  /\ UNCHANGED phase

RoutesDone ==
  /\ Completes("fanout", "routes")
  /\ routes' \in [1..Len(dns.addresses) -> {"none", "no_route"}]
  /\ UNCHANGED <<appVars, mode, dns, tcp, plan, verdict>>

TcpResult(a, error) ==
  [address |-> a, family |-> Family[a], error_kind |-> error,
   status |-> IF error = "none" THEN "pass" ELSE "fail"]

TcpDone ==
  /\ Completes("fanout", "tcp")
  /\ \E errors \in [1..Len(dns.addresses) -> TcpErrors \cup {"none"}] :
       tcp' = [i \in 1..Len(dns.addresses) |->
                 TcpResult(dns.addresses[i], errors[i])]
  /\ UNCHANGED <<appVars, mode, dns, routes, plan, verdict>>

\* proxy::plan: NO_PROXY may bypass only the environment's proxy; a proxy may
\* be missing, invalid, not resolvable or of the wrong family.
PlanOutcomes ==
  IF mode = "direct" THEN {NoPlan}
  ELSE {[NoPlan EXCEPT !.kind = k] :
          k \in {"unavailable"} \cup
                (IF mode = "environment" THEN {"bypassed"} ELSE {})}
       \cup [kind : {"proxy"}, scheme : ProxySchemes, addresses : ProxyAnswers]

PlanDone ==
  /\ Completes("fanout", "plan")
  /\ plan' \in PlanOutcomes
  /\ UNCHANGED <<appVars, mode, dns, routes, tcp, verdict>>

\* The TCP-successful addresses in the order of their durations, which the
\* network decides: any order.
Candidates == SetToSeqs({r.address : r \in {t \in Range(tcp) : Passed(t)}})

MutCandidates == {[i \in DOMAIN tcp |-> tcp[i].address]}   \* mutant: no filter

\* The first join! is over; the second starts with the application future.
Fork ==
  /\ phase = "fanout"
  /\ joined = {"routes", "tcp", "plan"}
  /\ phase' = "probe"
  /\ joined' = {}
  /\ \/ plan.kind \in {"direct", "bypassed"}
        /\ \E order \in Candidates : Start("none", order)
     \/ plan.kind = "proxy" /\ Start(plan.scheme, plan.addresses)
     \/ plan.kind = "unavailable" /\ Start("none", <<>>)
  /\ UNCHANGED <<mode, dns, routes, tcp, plan, verdict>>

ApplicationStep ==
  /\ phase = "probe"
  /\ AppStep
  /\ UNCHANGED <<mode, phase, joined, dns, routes, tcp, plan, verdict>>

ApplicationTimesOut ==
  /\ phase = "probe"
  /\ TimesOut
  /\ UNCHANGED <<mode, phase, joined, dns, routes, tcp, plan, verdict>>

\* Path evidence and plugins end on their own timeouts; what they find goes
\* to the notes of the report.
SideDone(future) ==
  /\ Completes("probe", future)
  /\ UNCHANGED <<appVars, mode, dns, routes, tcp, plan, verdict>>

PathDone == SideDone("path")
PluginsDone == SideDone("plugins")

\* proxy_transport of the report.
transport ==
  CASE plan.kind = "direct" -> [status |-> "skip", bypassed |-> FALSE]
    [] plan.kind = "bypassed" -> [status |-> "pass", bypassed |-> TRUE]
    [] plan.kind = "unavailable" -> [status |-> "fail", bypassed |-> FALSE]
    [] plan.kind = "proxy" -> [status |-> ProxyStatus, bypassed |-> FALSE]

report ==
  [proxy_mode |-> mode, proxy |-> transport, dns |-> dns.status,
   routes |-> routes, tcp |-> tcp, attempts |-> attempts]

\* The second join! is over: assemble the report and explain it.
Report ==
  /\ phase = "probe"
  /\ joined = {"path", "plugins"}
  /\ stage = "done"
  /\ phase' = "done"
  /\ verdict' = explain(report)
  /\ UNCHANGED <<appVars, mode, joined, dns, routes, tcp, plan>>

Next ==
  \/ Resolve \/ RoutesDone \/ TcpDone \/ PlanDone \/ Fork
  \/ ApplicationStep \/ PathDone \/ PluginsDone \/ Report

\* Every await of the pipeline is bounded by the operation timeout, which the
\* completions stand for; within the application probe only the timers do.
Spec ==
  /\ Init
  /\ [][Next]_vars
  /\ WF_vars(Resolve) /\ WF_vars(RoutesDone) /\ WF_vars(TcpDone)
  /\ WF_vars(PlanDone) /\ WF_vars(Fork) /\ WF_vars(PathDone)
  /\ WF_vars(PluginsDone) /\ WF_vars(Report)
  /\ WF_vars(ApplicationTimesOut)

-----------------------------------------------------------------------------
Done == phase = "done"

\* The application is probed over addresses of the target itself.
Direct == plan.kind \in {"direct", "bypassed"}

\* What really happened: the target was connected to (raw TCP) or answered.
TargetServed ==
  \/ served
  \/ Direct /\ scheme = "tcp" /\ \E r \in Range(tcp) : Passed(r)

\* Type invariant.
TypeOK ==
  /\ AppTypeOK
  /\ mode \in Modes
  /\ phase \in {"dns", "fanout", "probe", "done"}
  /\ joined \in SUBSET IF phase \in {"dns", "fanout"} THEN {"routes", "tcp", "plan"}
                                                    ELSE {"path", "plugins"}
  /\ dns \in [status : {"pass", "fail"}, addresses : Answers \cup {<<>>}]
  /\ Range(routes) \subseteq {"none", "no_route"}
  /\ {r.address : r \in Range(tcp)} \subseteq Range(dns.addresses)
  /\ plan.kind \in Plans
  /\ verdict.overall \in {"skip", "pass", "warn", "fail"}

\* The exit code tells the truth about the target.  Failure is reported only
\* if the target never did what was requested, however the evidence of the
\* layers disagrees; success only if it did, unless a forward proxy answers in
\* its place (SuccessMeansServed states that case too).
ReachabilityVerdict ==
  Done => /\ verdict.overall # "skip"
          /\ verdict.exit_code = 1 => ~ TargetServed
          /\ verdict.exit_code = 0 /\ ~ Forwarded => TargetServed

\* Exit code 0 means that the target is reachable (docs/output-contract.md:99).
SuccessMeansServed == Done /\ verdict.exit_code = 0 => TargetServed

\* The class of an application failure is the deepest stage that any of the
\* attempts, over all addresses, got to; a connect failure means that none
\* got further.
ClassMatchesProgress ==
  Done /\ verdict.code \in {"APPLICATION_CONNECT_FAILED", "TLS_HANDSHAKE_FAILED",
                            "HTTP_EXCHANGE_FAILED"} =>
    verdict.code = IF "http" \in progress THEN "HTTP_EXCHANGE_FAILED"
                   ELSE IF "tls" \in progress THEN "TLS_HANDSHAKE_FAILED"
                   ELSE "APPLICATION_CONNECT_FAILED"

\* What a direct attempt may come to, of an address still to be named.
Results ==
  {connect_failure(NoAddress), tls_failure(NoAddress), http_result(NoAddress, "fail", 0)}
  \cup {http_result(NoAddress, HttpStatus(c), c) : c \in Codes}

\* The attempts of a direct probe that tries addresses with these outcomes: up
\* to the first that is reachable, none for a raw TCP target.
AttemptsOf(outcomes) ==
  LET first == SelectInSeq(outcomes, NotFailed)
  IN IF scheme = "tcp" THEN <<>>
     ELSE IF first = 0 THEN outcomes
     ELSE SubSeq(outcomes, 1, first)

\* The order of completion decides which addresses are tried at all, because
\* the probe stops at the first that is reachable, and so which evidence there
\* is: a failing address is not heard of behind a working one.  Nevertheless
\* whether a direct diagnosis fails, and the class and the cause of its failure
\* (but the cause of mixed TCP failures), are the same for every order in which
\* the connections complete and the resolver lists the addresses it keeps, if
\* each address that was tried does as it did, whatever the others would have
\* done.
\* The order may decide between the codes of a target that works.
OrderIndependent ==
  Done /\ Direct =>
    \A result \in [IF scheme = "tcp" THEN {} ELSE DOMAIN candidates \ DOMAIN attempts -> Results],
       s \in SetToSeqs(DOMAIN candidates), u \in SetToSeqs(DOMAIN tcp) :
      LET outcome == [i \in DOMAIN candidates |->
                        IF i \in DOMAIN attempts THEN attempts[i]
                        ELSE [result[i] EXCEPT !.address = candidates[i]]]
          other == explain([report EXCEPT
                     !.attempts = AttemptsOf([i \in DOMAIN candidates |-> outcome[s[i]]]),
                     !.tcp = [i \in DOMAIN tcp |-> tcp[u[i]]]])
      IN /\ other.exit_code = verdict.exit_code
         /\ verdict.overall = "fail" =>
              /\ other.code = verdict.code
              /\ verdict.code # "TCP_CONNECT_FAILED" => other.cause = verdict.cause

\* Addresses are tried one after the other until one is reachable: no attempt
\* but the last reached the target, and without one that did every candidate
\* was tried, each once and in order.
TriesUntilReachable ==
  stage = "done" /\ (scheme # "tcp" \/ proxy # "none") =>
    LET reached(a) == a.status # "fail" /\ ~ forwarded_proxy_rejection(a)
    IN /\ \A i \in DOMAIN attempts : i < Len(attempts) => ~ reached(attempts[i])
       /\ \A i \in DOMAIN attempts : attempts[i].address = candidates[i]
       /\ \/ Len(attempts) = Len(candidates)
          \/ attempts # <<>> /\ reached(attempts[Len(attempts)])

\* The diagnosis always ends with a verdict.
Ends == <>Done
==============================================================================
