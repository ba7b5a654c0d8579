---------------------------- MODULE PipelineProofs ---------------------------
(***************************************************************************)
(* Pipeline for every set of addresses, answers, status codes and error    *)
(* kinds.  The verdict is read off the attempts, while the properties      *)
(* speak of what the target did and of how far the attempts got; so the    *)
(* invariant says at every step of the loop what the attempts made so far  *)
(* have to do with both.                                                   *)
(***************************************************************************)
EXTENDS Pipeline, FiniteSetTheorems, SequenceTheorems, WellFoundedInduction, TLAPS

Running == {"connect", "tls", "http"}

\* The target did what was requested of it.
Reached(a) == a.status # "fail" /\ ~ forwarded_proxy_rejection(a)

\* One stage fails at most, nothing comes after it, and the attempt fails with it.
Consistent(a) ==
  /\ a \in Attempt
  /\ a.status = "fail" <=> "fail" \in {a.connect, a.tls, a.http}
  /\ a.connect = "fail" => a.tls = "none"
  /\ "fail" \in {a.connect, a.tls} => a.http = "none"

\* One attempt per address in order, all but the last in vain.
Tried ==
  /\ Len(attempts) = position - 1
  /\ \A i \in DOMAIN attempts : Consistent(attempts[i]) /\ attempts[i].address = candidates[i]
  /\ \A i \in DOMAIN attempts : i < Len(attempts) => ~ Reached(attempts[i])

\* Where the loop can be, and what it went by when it ended.
Where ==
  /\ stage = "start" =>
       attempts = <<>> /\ proxy_attempts = <<>> /\ proxy = "none" /\ progress = {}
  /\ stage \in Running =>
       /\ position <= Len(candidates)
       /\ \A i \in DOMAIN attempts : ~ Reached(attempts[i])
       /\ stage = "tls" => scheme = "https"
       /\ stage = "http" => scheme # "tcp"
       /\ scheme = "tcp" => proxy # "none"
  /\ stage = "done" =>
       \/ scheme = "tcp" /\ proxy = "none"
       \/ Len(attempts) = Len(candidates)
       \/ attempts # <<>> /\ Reached(attempts[Len(attempts)])
  /\ scheme = "tcp" /\ proxy = "none" => attempts = <<>>

\* The ghosts, read off the attempts and the stage of the one under way.
Ghosts ==
  /\ served <=> \E i \in DOMAIN attempts : Reached(attempts[i])
  /\ "tls" \in progress <=>
       \/ stage = "tls" \/ (stage = "http" /\ scheme = "https")
       \/ \E i \in DOMAIN attempts : attempts[i].tls # "none"
  /\ "http" \in progress <=>
       stage = "http" \/ \E i \in DOMAIN attempts : attempts[i].http # "none"

\* The proxy's own attempts are those of the loop, one for one.
Proxied ==
  proxy # "none" =>
    /\ Len(proxy_attempts) = Len(attempts)
    /\ \A i \in DOMAIN attempts :
         proxy_attempts[i].status = "pass" <=>
           attempts[i].connect = "pass" /\ ~ forwarded_proxy_rejection(attempts[i])

AppInv == AppTypeOK /\ Tried /\ Where /\ Ghosts /\ Proxied

PassedAddresses == {r.address : r \in {t \in Range(tcp) : Passed(t)}}

TcpEvidence ==
  [address : Address, family : {"ipv4", "ipv6"}, error_kind : TcpErrors \cup {"none"},
   status : {"pass", "fail"}]

\* What the first join! gathers, at every moment of it.
Gathered ==
  /\ dns.status = "fail" <=> dns.addresses = <<>>
  /\ tcp \in Seq(TcpEvidence)
  /\ tcp # <<>> => dns.addresses # <<>>
  /\ phase = "dns" => joined = {} /\ dns.addresses = <<>>
  /\ plan \in PlanOutcomes \/ (phase \in {"dns", "fanout"} /\ "plan" \notin joined /\ plan = NoPlan)

\* What the application probe is started with, and that it keeps it.
Selected ==
  /\ phase \in {"dns", "fanout"} => stage = "start"
  /\ phase \in {"probe", "done"} =>
       /\ stage # "start"
       /\ Direct => proxy = "none" /\ Range(candidates) = PassedAddresses
       /\ plan.kind = "proxy" => proxy # "none" /\ candidates # <<>>
       /\ plan.kind = "unavailable" => proxy = "none" /\ candidates = <<>>

Explained ==
  IF phase = "done" THEN stage = "done" /\ verdict = explain(report)
                    ELSE verdict = NoVerdict

PInv == TypeOK /\ AppInv /\ Gathered /\ Selected /\ Explained

------------------------------------------------------------------------------
LEMMA AppInvInit == AppInit => AppInv
<1> SUFFICES ASSUME AppInit PROVE AppInv
  OBVIOUS
<1>1. AppTypeOK
  <2>1. <<>> \in Seq(Address) /\ <<>> \in Seq(Attempt) /\ Len(<<>>) = 0
        /\ <<>> \in Seq([address : Address, status : {"pass", "fail"}])
    BY EmptySeq
  <2>2. position \in 1..(Len(candidates) + 1)
    BY <2>1 DEF AppInit
  <2>3. candidates \in Seq(Address) /\ attempts \in Seq(Attempt)
        /\ proxy_attempts \in Seq([address : Address, status : {"pass", "fail"}])
    BY <2>1 DEF AppInit
  <2>4. QED
    BY <2>2, <2>3 DEF AppInit, AppTypeOK
<1>2. Tried /\ Where /\ Ghosts /\ Proxied
  BY DEF AppInit, Tried, Where, Ghosts, Proxied, Running
<1>3. QED
  BY <1>1, <1>2 DEF AppInv

LEMMA StartKeeps ==
  ASSUME AppInv, NEW p \in ProxySchemes \cup {"none"}, NEW s \in Seq(Address), Start(p, s)
  PROVE  AppInv'
<1>1. attempts = <<>> /\ proxy_attempts = <<>> /\ position = 1 /\ progress = {}
  BY DEF AppInv, Where, Tried, Start, AppTypeOK
<1>2. AppTypeOK'
  BY <1>1 DEF AppInv, AppTypeOK, Start, Goto
<1>3. s # <<>> => 1 <= Len(s)
  BY EmptySeq
<1>4. Tried' /\ Where' /\ Proxied'
  BY <1>1, <1>3 DEF Start, Goto, Tried, Where, Proxied, Running
<1>5. Ghosts'
  BY <1>1 DEF AppInv, Ghosts, Start, Goto
<1>6. QED
  BY <1>2, <1>4, <1>5 DEF AppInv

\* The end of an iteration, whichever attempt it pushes.
LEMMA PushKeeps ==
  ASSUME AppInv, stage \in Running, NEW a, Consistent(a), a.address = Current,
         Push(a), UNCHANGED <<scheme, proxy, candidates>>,
         served' = (served \/ Reached(a)),
         a.http # "none" <=> stage = "http",
         a.tls # "none" <=> stage = "tls" \/ (stage = "http" /\ scheme = "https")
  PROVE  AppInv'
<1> USE DEF AppInv
<1>1. /\ attempts \in Seq(Attempt) /\ a \in Attempt /\ candidates \in Seq(Address)
      /\ position \in 1..Len(candidates) /\ Len(attempts) = position - 1
      /\ Len(candidates) \in Nat
  BY LenProperties DEF AppTypeOK, Consistent, Where, Tried
<1>2. /\ attempts' \in Seq(Attempt)
      /\ Len(attempts') = position
      /\ DOMAIN attempts = 1..(position - 1) /\ DOMAIN attempts' = 1..position
      /\ \A i \in DOMAIN attempts : attempts'[i] = attempts[i]
      /\ attempts'[position] = a
  BY <1>1, AppendProperties, LenProperties DEF Push
<1>3. \A b : forwarded_proxy_rejection(b)' <=> forwarded_proxy_rejection(b)
  BY DEF forwarded_proxy_rejection, Forwarded
<1>4. \A b : Reached(b)' <=> Reached(b)
  BY DEF forwarded_proxy_rejection, Forwarded, Reached
<1>5. /\ stage' \in {"connect", "done"}
      /\ position' = position + 1
      /\ progress' = progress \cup IF stage' = "connect" THEN {"connect"} ELSE {}
      /\ stage' = "done" <=> Reached(a) \/ position = Len(candidates)
  BY DEF Push, Goto, Reached
<1>6. Tried'
  <2>1. \A i \in DOMAIN attempts' :
          Consistent(attempts'[i]) /\ attempts'[i].address = candidates[i]
    BY <1>1, <1>2 DEF Tried, Current
  <2>2. \A i \in DOMAIN attempts' : i < Len(attempts') => ~ Reached(attempts[i])'
    BY <1>1, <1>2, <1>4 DEF Where
  <2>3. QED
    BY <1>1, <1>2, <1>5, <2>1, <2>2 DEF Tried, Consistent
<1>7. Where'
  <2>1. ASSUME stage' \in Running PROVE position' <= Len(candidates')
    BY <2>1, <1>1, <1>5 DEF Running
  <2>2. ASSUME stage' \in Running
        PROVE  \A i \in DOMAIN attempts' : ~ Reached(attempts[i])'
    BY <2>2, <1>1, <1>2, <1>4, <1>5 DEF Where, Running
  <2>3. scheme = "tcp" => proxy # "none"
    BY DEF Where
  <2>4. stage' = "done" =>
          \/ Len(attempts') = Len(candidates')
          \/ attempts' # <<>> /\ Reached(attempts[Len(attempts)])'
    BY <1>1, <1>2, <1>4, <1>5, EmptySeq
  <2>5. stage' # "start" /\ stage' # "tls" /\ stage' # "http"
    BY <1>5
  <2>6. ~ (scheme' = "tcp" /\ proxy' = "none")
    BY <2>3
  <2>7. QED
    BY <2>1, <2>2, <2>4, <2>5, <2>6 DEF Where
<1>8. Ghosts'
  <2>1. served' <=> \E i \in DOMAIN attempts' : Reached(attempts[i])'
    <3>1. (\E i \in DOMAIN attempts' : Reached(attempts'[i])) <=>
            Reached(a) \/ \E i \in DOMAIN attempts : Reached(attempts[i])
      BY <1>1, <1>2
    <3>2. QED
      BY <1>4, <3>1 DEF Ghosts
  <2>2. (\E i \in DOMAIN attempts' : attempts'[i].tls # "none") <=>
          a.tls # "none" \/ \E i \in DOMAIN attempts : attempts[i].tls # "none"
    BY <1>1, <1>2
  <2>3. (\E i \in DOMAIN attempts' : attempts'[i].http # "none") <=>
          a.http # "none" \/ \E i \in DOMAIN attempts : attempts[i].http # "none"
    BY <1>1, <1>2
  <2>4. QED
    BY <1>5, <2>1, <2>2, <2>3 DEF Ghosts
<1>9. /\ proxy_attempts' \in Seq([address : Address, status : {"pass", "fail"}])
      /\ Proxied'
  <2> DEFINE entry == [address |-> Current,
                       status |-> IF a.connect = "pass" /\ ~ forwarded_proxy_rejection(a)
                                    THEN "pass" ELSE "fail"]
  <2>1. CASE proxy = "none"
    BY <2>1 DEF AppTypeOK, Proxied, Push
  <2>2. CASE proxy # "none"
    <3>1. proxy_attempts' = Append(proxy_attempts, entry)
      BY <2>2 DEF Push
    <3>2. entry \in [address : Address, status : {"pass", "fail"}]
      BY <1>1, ElementOfSeq DEF Current
    <3>3. /\ proxy_attempts' \in Seq([address : Address, status : {"pass", "fail"}])
          /\ Len(proxy_attempts') = position
          /\ \A i \in 1..(position - 1) : proxy_attempts'[i] = proxy_attempts[i]
          /\ proxy_attempts'[position] = entry
      BY <1>1, <2>2, <3>1, <3>2, AppendProperties DEF AppTypeOK, Proxied
    <3>4. \A i \in DOMAIN attempts' :
            proxy_attempts'[i].status = "pass" <=>
              attempts'[i].connect = "pass" /\ ~ forwarded_proxy_rejection(attempts[i])'
      BY <1>1, <1>2, <1>3, <2>2, <3>3 DEF Proxied
    <3>5. QED
      BY <1>2, <3>3, <3>4 DEF Proxied
  <2>3. QED
    BY <2>1, <2>2
<1>10. AppTypeOK'
  BY <1>1, <1>2, <1>5, <1>9 DEF AppTypeOK
<1>11. QED
  BY <1>6, <1>7, <1>8, <1>9, <1>10

\* An attempt goes on to its next stage.
LEMMA StageKeeps ==
  ASSUME AppInv, stage \in Running, stage' \in {"tls", "http"},
         progress' = progress \cup {stage'},
         stage' = "tls" => stage = "connect" /\ scheme = "https",
         stage' = "http" => stage = "tls" \/ (stage = "connect" /\ scheme = "http"),
         UNCHANGED <<scheme, proxy, candidates, position, attempts, proxy_attempts, served>>
  PROVE  AppInv'
<1> USE DEF AppInv
<1>1. \A b : Reached(b)' <=> Reached(b)
  BY DEF forwarded_proxy_rejection, Forwarded, Reached
<1>2. AppTypeOK'
  BY DEF AppTypeOK
<1>3. Tried' /\ Proxied'
  BY DEF Tried, Proxied, Reached, forwarded_proxy_rejection, Forwarded
<1>4. Where'
  <2>1. \A i \in DOMAIN attempts' : ~ Reached(attempts[i])'
    BY <1>1 DEF Where
  <2>2. QED
    BY <2>1 DEF Where, Running
<1>5. Ghosts'
  <2>1. served' <=> \E i \in DOMAIN attempts' : Reached(attempts[i])'
    BY <1>1 DEF Ghosts
  <2>2. stage = "tls" => scheme = "https"
    BY DEF Where
  <2>3. QED
    BY <2>1, <2>2 DEF Ghosts, Running
<1>6. QED
  BY <1>2, <1>3, <1>4, <1>5

LEMMA AppStepKeeps == AppInv /\ AppStep => AppInv'
<1> SUFFICES ASSUME AppInv, AppStep PROVE AppInv'
  OBVIOUS
<1>1. stage \in Running => Current \in Address /\ position \in 1..Len(candidates)
  BY LenProperties, ElementOfSeq DEF AppInv, AppTypeOK, Where, Current
<1>2. CASE ConnectFails
  <2> DEFINE a == connect_failure(Current)
  <2>1. stage = "connect" /\ stage \in Running
    BY <1>2 DEF ConnectFails, Running
  <2>2. /\ Consistent(a) /\ a.address = Current
        /\ a.tls = "none" /\ a.http = "none" /\ ~ Reached(a)
    BY <1>1, <2>1 DEF connect_failure, Consistent, Reached, Attempt
  <2>3. /\ Push(a) /\ UNCHANGED <<scheme, proxy, candidates>>
        /\ served' = (served \/ Reached(a))
    BY <1>2, <2>2 DEF ConnectFails, AppInv, AppTypeOK
  <2> HIDE DEF a
  <2>4. QED
    BY <2>1, <2>2, <2>3, PushKeeps
<1>3. CASE Connect
  <2>1. stage = "connect" /\ stage \in Running
    BY <1>3 DEF Connect, Running
  <2>2. CASE scheme = "tcp"
    <3> DEFINE a == tunnel_result(Current)
    <3>1. /\ Consistent(a) /\ a.address = Current
          /\ a.tls = "none" /\ a.http = "none" /\ Reached(a)
      BY <1>1, <2>1 DEF tunnel_result, Consistent, Reached, Attempt,
                        forwarded_proxy_rejection
    <3>2. /\ Push(a) /\ UNCHANGED <<scheme, proxy, candidates>>
          /\ served' = (served \/ Reached(a))
      BY <1>3, <2>2, <3>1 DEF Connect, AppInv, AppTypeOK
    <3> HIDE DEF a
    <3>3. QED
      BY <2>1, <3>1, <3>2, PushKeeps
  <2>3. CASE scheme # "tcp"
    <3>1. /\ stage' = IF scheme = "https" THEN "tls" ELSE "http"
          /\ progress' = progress \cup {stage'}
          /\ UNCHANGED <<scheme, proxy, candidates, position, attempts, proxy_attempts, served>>
      BY <1>3, <2>3 DEF Connect, Goto
    <3>2. /\ stage' \in {"tls", "http"}
          /\ stage' = "tls" => scheme = "https"
          /\ stage' = "http" => scheme = "http"
      BY <2>3, <3>1 DEF AppInv, AppTypeOK, Schemes
    <3>3. QED
      BY <2>1, <3>1, <3>2, StageKeeps
  <2>4. QED
    BY <2>2, <2>3
<1>4. CASE TlsFails
  <2> DEFINE a == tls_failure(Current)
  <2>1. stage = "tls" /\ stage \in Running
    BY <1>4 DEF TlsFails, Running
  <2>2. /\ Consistent(a) /\ a.address = Current
        /\ a.tls # "none" /\ a.http = "none" /\ ~ Reached(a)
    BY <1>1, <2>1 DEF tls_failure, Consistent, Reached, Attempt
  <2>3. /\ Push(a) /\ UNCHANGED <<scheme, proxy, candidates>>
        /\ served' = (served \/ Reached(a))
    BY <1>4, <2>2 DEF TlsFails, AppInv, AppTypeOK
  <2> HIDE DEF a
  <2>4. QED
    BY <2>1, <2>2, <2>3, PushKeeps
<1>5. CASE Tls
  <2>1. stage = "tls" /\ stage \in Running
    BY <1>5 DEF Tls, Running
  <2>2. /\ stage' = "http" /\ progress' = progress \cup {stage'}
        /\ UNCHANGED <<scheme, proxy, candidates, position, attempts, proxy_attempts, served>>
    BY <1>5 DEF Tls, Goto
  <2>3. /\ stage' \in {"tls", "http"} /\ stage' # "tls"
    BY <2>2
  <2>4. QED
    BY <2>1, <2>2, <2>3, StageKeeps
<1>6. ASSUME stage = "http", NEW status \in {"pass", "warn", "fail"},
             NEW c \in Codes \cup {0, 407}
      PROVE  LET a == http_result(Current, status, c)
             IN /\ Consistent(a)
                /\ a.http # "none" /\ a.address = Current
                /\ a.tls # "none" <=> scheme = "https"
                /\ Reached(a) <=> status # "fail" /\ ~ (Forwarded /\ c = 407)
  BY <1>1, <1>6 DEF Running, http_result, Consistent, Reached, Attempt, forwarded_proxy_rejection
<1>7. CASE HttpFails
  <2> DEFINE a == http_result(Current, "fail", 0)
  <2>1. /\ stage \in Running
        /\ Consistent(a) /\ a.http # "none" /\ a.address = Current
        /\ a.tls # "none" <=> scheme = "https"
        /\ ~ Reached(a)
    BY <1>6, <1>7 DEF HttpFails, Running
  <2>2. stage = "http" /\ Push(a) /\ UNCHANGED <<scheme, proxy, candidates, served>>
    BY <1>7 DEF HttpFails
  <2>3. served' = (served \/ Reached(a))
    BY <2>1, <2>2 DEF AppInv, AppTypeOK
  <2> HIDE DEF a
  <2>4. QED
    BY <2>1, <2>2, <2>3, PushKeeps
<1>8. CASE Http
  <2>1. PICK reply \in Replies :
          /\ Push(http_result(Current, HttpStatus(reply.code), reply.code))
          /\ served' = (served \/ reply.by = "target")
    BY <1>8 DEF Http
  <2>2. /\ reply.code \in Codes \cup {0, 407}
        /\ HttpStatus(reply.code) \in {"pass", "warn"}
        /\ reply.by = "target" <=> ~ (Forwarded /\ reply.code = 407)
    BY DEF Replies, HttpStatus
  <2> DEFINE a == http_result(Current, HttpStatus(reply.code), reply.code)
  <2>3. stage = "http" /\ stage \in Running
    BY <1>8 DEF Http, Running
  <2>4. /\ Consistent(a) /\ a.http # "none" /\ a.address = Current
        /\ a.tls # "none" <=> scheme = "https"
        /\ Reached(a) <=> reply.by = "target"
    BY <1>6, <2>2, <2>3
  <2>5. /\ Push(a) /\ UNCHANGED <<scheme, proxy, candidates>>
        /\ served' = (served \/ Reached(a))
    BY <1>8, <2>1, <2>4 DEF Http
  <2> HIDE DEF a
  <2>6. QED
    BY <2>3, <2>4, <2>5, PushKeeps
<1>9. QED
  BY <1>2, <1>3, <1>4, <1>5, <1>7, <1>8 DEF AppStep

------------------------------------------------------------------------------
\* Only the empty sequence has nothing in its domain.
LEMMA EmptyDomain ==
  ASSUME NEW T, NEW h \in Seq(T)
  PROVE  h = <<>> <=> DOMAIN h = {}
<1>1. DOMAIN h = 1..Len(h)
  BY LenProperties
<1>2. CASE h = <<>>
  <2>1. Len(h) = 0
    BY <1>2, EmptySeq
  <2>2. QED
    BY <1>1, <1>2, <2>1, 1..0 = {}
<1>3. CASE h # <<>>
  <2>1. Len(h) \in Nat \ {0}
    BY <1>3, EmptySeq
  <2>2. 1 \in DOMAIN h
    BY <1>1, <2>1
  <2>3. QED
    BY <1>3, <2>2
<1>4. QED
  BY <1>2, <1>3

\* An order of a finite set: a sequence with exactly its elements.
LEMMA OrdersOfSet ==
  ASSUME NEW S, IsFiniteSet(S), NEW f \in SetToSeqs(S)
  PROVE  /\ f \in Seq(S) /\ Range(f) = S
         /\ DOMAIN f = 1..Cardinality(S) /\ Cardinality(S) \in Nat
         /\ f \in Injection(1..Cardinality(S), S)
<1> DEFINE n == Cardinality(S)
<1>1. n \in Nat
  BY FS_CardinalityType
<1>2. f \in [1..n -> S] /\ \A i, j \in 1..n : i # j => f[i] # f[j]
  BY DEF SetToSeqs
<1>3. f \in Injection(1..n, S)
  BY <1>2 DEF Injection, IsInjective
<1>4. IsFiniteSet(1..n) /\ Cardinality(1..n) = n
  BY <1>1, FS_Interval
<1>5. f \in Surjection(1..n, S)
  BY <1>3, <1>4, FS_Injection
<1>6. Range(f) = S
  BY <1>2, <1>5 DEF Range, Surjection
<1>7. f \in Seq(S)
  BY <1>1, <1>2
<1>8. QED
  BY <1>1, <1>2, <1>3, <1>6, <1>7

LEMMA PassedAddressesFinite ==
  ASSUME tcp \in Seq(TcpEvidence)
  PROVE  IsFiniteSet(PassedAddresses) /\ PassedAddresses \subseteq Address
<1> DEFINE I == {i \in 1..Len(tcp) : Passed(tcp[i])}
           f == [i \in I |-> tcp[i].address]
<1>1. Len(tcp) \in Nat /\ DOMAIN tcp = 1..Len(tcp) /\ \A i \in 1..Len(tcp) : tcp[i] \in TcpEvidence
  BY LenProperties, ElementOfSeq
<1>2. PassedAddresses = {tcp[i].address : i \in I}
  BY <1>1 DEF PassedAddresses, Range
<1>3. IsFiniteSet(I)
  <2>1. IsFiniteSet(1..Len(tcp)) /\ I \in SUBSET (1..Len(tcp))
    BY <1>1, FS_Interval
  <2>2. QED
    BY <2>1, FS_Subset
<1>4. f \in Surjection(I, PassedAddresses)
  BY <1>2 DEF Surjection
<1>5. PassedAddresses \subseteq Address
  BY <1>1, <1>2 DEF TcpEvidence
<1>6. QED
  BY <1>3, <1>4, <1>5, FS_Surjection

LEMMA PInvInit == Init => PInv
<1> SUFFICES ASSUME Init PROVE PInv
  OBVIOUS
<1>1. AppInv
  BY AppInvInit DEF Init
<1>2. Gathered /\ Selected /\ Explained
  BY EmptySeq DEF Init, Gathered, Selected, Explained, AppInit
<1>3. Range(routes) = {} /\ Range(tcp) = {} /\ \A x : x \notin {r.address : r \in Range(tcp)}
  BY DEF Init, Range
<1>4. TypeOK
  <2>1. AppTypeOK
    BY <1>1 DEF AppInv
  <2>2. dns \in [status : {"pass", "fail"}, addresses : Answers \cup {<<>>}]
    BY DEF Init
  <2>3. plan.kind \in Plans /\ verdict.overall = "skip"
    BY DEF Init, NoPlan, Plans, NoVerdict, Verdict
  <2>4. QED
    BY <1>3, <2>1, <2>2, <2>3 DEF Init, TypeOK
<1>5. QED
  BY <1>1, <1>2, <1>4 DEF PInv

\* Every branch of explain ends in a verdict.
LEMMA ExplainGivesVerdict ==
  ASSUME NEW r
  PROVE  explain(r).overall \in {"pass", "warn", "fail"}
<1>1. \A c, a : /\ Verdict("pass", c, a).overall = "pass"
                /\ Verdict("warn", c, a).overall = "warn"
                /\ Verdict("fail", c, a).overall = "fail"
  BY DEF Verdict
<1>2. diagnose_tcp_failure(r).overall = "fail"
  BY <1>1 DEF diagnose_tcp_failure
<1>3. diagnose_application_failure(r).overall = "fail"
  BY <1>1 DEF diagnose_application_failure
<1>4. HttpErrorStatus.overall = "warn"
  BY <1>1 DEF HttpErrorStatus
<1>5. explain_direct(r).overall \in {"pass", "warn", "fail"}
  BY <1>1, <1>2, <1>3, <1>4 DEF explain_direct
<1>6. explain_proxy_result(r).overall \in {"pass", "warn", "fail"}
  BY <1>1, <1>3, <1>4 DEF explain_proxy_result
<1>7. QED
  BY <1>5, <1>6 DEF explain

LEMMA PInvStep == PInv /\ [Next]_vars => PInv'
<1> SUFFICES ASSUME PInv, [Next]_vars PROVE PInv'
  OBVIOUS
<1> USE DEF PInv
<1>0. ASSUME UNCHANGED appVars PROVE AppInv'
  BY <1>0 DEF appVars, AppInv, AppTypeOK, Tried, Where, Ghosts, Proxied, Reached,
              forwarded_proxy_rejection, Forwarded
<1>1. CASE Resolve
  <2>1. AppInv'
    BY <1>0, <1>1 DEF Resolve
  <2>2. /\ phase = "dns" /\ phase' = "fanout"
        /\ UNCHANGED <<appVars, mode, joined, routes, tcp, plan, verdict>>
        /\ dns' \in [status : {"pass", "fail"}, addresses : Answers \cup {<<>>}]
        /\ dns'.status = "fail" <=> dns'.addresses = <<>>
    <3>1. CASE UNCHANGED dns
      BY <1>1, <3>1 DEF Resolve, TypeOK, Gathered
    <3>2. ASSUME NEW a \in Answers, dns' = [status |-> "pass", addresses |-> a]
          PROVE  /\ dns' \in [status : {"pass", "fail"}, addresses : Answers \cup {<<>>}]
                 /\ dns'.status = "fail" <=> dns'.addresses = <<>>
      BY <3>2, AnswersAssumption
    <3>3. QED
      BY <1>1, <3>1, <3>2 DEF Resolve
  <2>3. tcp = <<>> /\ joined = {}
    BY <2>2 DEF Gathered
  <2>4. Gathered' /\ Selected' /\ Explained'
    BY <2>2, <2>3 DEF Gathered, Selected, Explained, PlanOutcomes, appVars
  <2>5. {r.address : r \in Range(tcp')} = {}
    BY <2>2, <2>3 DEF Range
  <2>6. TypeOK'
    BY <2>1, <2>2, <2>5 DEF TypeOK, AppInv
  <2>7. QED
    BY <2>1, <2>4, <2>6
<1>2. CASE RoutesDone
  <2>1. AppInv'
    BY <1>0, <1>2 DEF RoutesDone
  <2>2. Range(routes') \subseteq {"none", "no_route"}
    BY <1>2 DEF RoutesDone, Range
  <2>3. QED
    BY <1>2, <2>1, <2>2 DEF RoutesDone, Completes, TypeOK, AppInv, Gathered, Selected,
       Explained, PlanOutcomes, appVars, Direct, PassedAddresses
<1>3. CASE TcpDone
  <2>1. AppInv'
    BY <1>0, <1>3 DEF TcpDone
  <2> DEFINE n == Len(dns.addresses)
  <2>2. PICK errors \in [1..n -> TcpErrors \cup {"none"}] :
          tcp' = [i \in 1..n |-> TcpResult(dns.addresses[i], errors[i])]
    BY <1>3 DEF TcpDone
  <2>3. dns.addresses \in Seq(Address) /\ n \in Nat
    <3>1. dns.addresses \in Answers \cup {<<>>}
      BY DEF TypeOK
    <3>2. QED
      BY <3>1, AnswersAssumption, EmptySeq, LenProperties
  <2>4. \A i \in 1..n : /\ dns.addresses[i] \in Address
                        /\ dns.addresses[i] \in Range(dns.addresses)
                        /\ Family[dns.addresses[i]] \in {"ipv4", "ipv6"}
    BY <2>3, AnswersAssumption, LenProperties, ElementOfSeq DEF Range
  <2>5. \A i \in 1..n : /\ tcp'[i] \in TcpEvidence
                        /\ tcp'[i].address = dns.addresses[i]
    <3>1. ASSUME NEW i \in 1..n
          PROVE  tcp'[i] \in TcpEvidence /\ tcp'[i].address = dns.addresses[i]
      <4>1. tcp'[i] = TcpResult(dns.addresses[i], errors[i])
        BY <2>2
      <4>2. errors[i] \in TcpErrors \cup {"none"}
        BY <2>2
      <4>3. QED
        BY <2>4, <4>1, <4>2 DEF TcpResult, TcpEvidence
    <3>2. QED
      BY <3>1
  <2>6. tcp' \in Seq(TcpEvidence) /\ DOMAIN tcp' = 1..n
    <3>1. DOMAIN tcp' = 1..n /\ tcp' \in [1..n -> TcpEvidence]
      BY <2>2, <2>5
    <3>2. QED
      BY <2>3, <3>1
  <2>7. tcp' # <<>> => dns.addresses # <<>>
    <3>1. Len(tcp') = n
      BY <2>3, <2>6, LenProperties
    <3>2. tcp' # <<>> => n # 0
      BY <2>6, <3>1, EmptySeq
    <3>3. QED
      BY <3>2, EmptySeq
  <2>8. {r.address : r \in Range(tcp')} \subseteq Range(dns.addresses)
    BY <2>4, <2>5, <2>6 DEF Range
  <2>9. QED
    BY <1>3, <2>1, <2>6, <2>7, <2>8 DEF TcpDone, Completes, TypeOK, AppInv, Gathered,
       Selected, Explained, PlanOutcomes, appVars
<1>4. CASE PlanDone
  <2>1. AppInv'
    BY <1>0, <1>4 DEF PlanDone
  <2>2. plan'.kind \in Plans
    BY <1>4 DEF PlanDone, PlanOutcomes, NoPlan, Plans
  <2>3. QED
    BY <1>4, <2>1, <2>2 DEF PlanDone, Completes, TypeOK, AppInv, Gathered,
       Selected, Explained, PlanOutcomes, appVars
<1>5. CASE Fork
  <2>1. PICK p \in ProxySchemes \cup {"none"}, s \in Seq(Address) :
          /\ Start(p, s)
          /\ Direct => p = "none" /\ Range(s) = PassedAddresses
          /\ plan.kind = "proxy" => p # "none" /\ s # <<>>
          /\ plan.kind = "unavailable" => p = "none" /\ s = <<>>
    <3>1. CASE Direct
      <4>1. PICK order \in Candidates : Start("none", order)
        BY <1>5, <3>1 DEF Fork, Direct
      <4>2. order \in Seq(PassedAddresses) /\ Range(order) = PassedAddresses
        BY PassedAddressesFinite, OrdersOfSet DEF Candidates, PassedAddresses, Gathered
      <4>3. order \in Seq(Address)
        BY <4>2, PassedAddressesFinite, SeqMonotonic DEF Gathered
      <4>4. QED
        BY <3>1, <4>1, <4>2, <4>3 DEF Direct
    <3>2. CASE plan.kind = "proxy"
      <4>1. plan.scheme \in ProxySchemes /\ plan.addresses \in ProxyAnswers
        BY <3>2 DEF Gathered, PlanOutcomes, NoPlan
      <4>2. plan.addresses \in Seq(Address) /\ plan.addresses # <<>>
        BY <4>1, AnswersAssumption
      <4>3. "none" \notin ProxySchemes
        BY DEF ProxySchemes
      <4>4. Start(plan.scheme, plan.addresses)
        BY <1>5, <3>2 DEF Fork
      <4>5. QED
        BY <3>2, <4>1, <4>2, <4>3, <4>4 DEF Direct
    <3>3. CASE plan.kind = "unavailable"
      <4>1. Start("none", <<>>)
        BY <1>5, <3>3 DEF Fork
      <4>2. QED
        BY <3>3, <4>1, EmptySeq DEF Direct
    <3>4. QED
      BY <1>5, <3>1, <3>2, <3>3 DEF Fork, Direct
  <2>2. AppInv'
    BY <2>1, StartKeeps
  <2>3. stage' # "start" /\ proxy' = p /\ candidates' = s
    BY <2>1 DEF Start, Goto
  <2>4. QED
    BY <1>5, <2>1, <2>2, <2>3 DEF Fork, TypeOK, AppInv, Gathered, Selected, Explained,
       PlanOutcomes, Direct, PassedAddresses
<1>6. CASE ApplicationStep
  <2>1. AppInv'
    BY <1>6, AppStepKeeps DEF ApplicationStep
  <2>2. stage' # "start" /\ proxy' = proxy /\ candidates' = candidates
    BY <1>6 DEF ApplicationStep, AppStep, ConnectFails, Connect, TlsFails, Tls, HttpFails,
                Http, Push, Goto
  <2>3. QED
    BY <1>6, <2>1, <2>2 DEF ApplicationStep, TypeOK, AppInv, Gathered, Selected, Explained,
       PlanOutcomes, Direct, PassedAddresses
<1>7. CASE PathDone \/ PluginsDone
  <2>1. AppInv'
    BY <1>0, <1>7 DEF PathDone, PluginsDone, SideDone
  <2>2. QED
    BY <1>7, <2>1 DEF PathDone, PluginsDone, SideDone, Completes, TypeOK, AppInv, Gathered,
       Selected, Explained, PlanOutcomes, Direct, PassedAddresses, appVars
<1>8. CASE Report
  <2>1. AppInv'
    BY <1>0, <1>8 DEF Report
  <2>2. /\ UNCHANGED <<appVars, mode, joined, dns, routes, tcp, plan>>
        /\ phase = "probe" /\ phase' = "done" /\ stage = "done"
        /\ verdict' = explain(report)
    BY <1>8 DEF Report
  <2>3. report' = report
    BY <2>2 DEF report, transport, ProxyStatus, appVars
  <2>4. verdict'.overall \in {"pass", "warn", "fail"}
    BY <2>2, ExplainGivesVerdict
  <2>5. QED
    BY <2>1, <2>2, <2>3, <2>4 DEF TypeOK, AppInv, Gathered, Selected, Explained,
       PlanOutcomes, Direct, PassedAddresses, appVars
<1>9. CASE UNCHANGED vars
  <2>1. AppInv'
    BY <1>0, <1>9 DEF vars
  <2>2. report' = report
    BY <1>9 DEF vars, appVars, report, transport, ProxyStatus
  <2>3. QED
    BY <1>9, <2>1, <2>2 DEF vars, TypeOK, AppInv, Gathered, Selected, Explained,
       PlanOutcomes, Direct, PassedAddresses, appVars
<1>10. QED
  BY <1>1, <1>2, <1>3, <1>4, <1>5, <1>6, <1>7, <1>8, <1>9 DEF Next

\* Every variable keeps its shape, the loop of the application probe within
\* the addresses it was given.
THEOREM PipelineTypeOK == Spec => []TypeOK
<1>1. PInv => TypeOK
  BY DEF PInv
<1>2. QED
  BY <1>1, PInvInit, PInvStep, PTL DEF Spec

\* The loop stops at the first address that was reachable, or after the last.
THEOREM PipelineTries == Spec => []TriesUntilReachable
<1>1. PInv => TriesUntilReachable
  BY DEF PInv, AppInv, Tried, Where, TriesUntilReachable, Reached
<1>2. QED
  BY <1>1, PInvInit, PInvStep, PTL DEF Spec

------------------------------------------------------------------------------
\* What the operators of explain read, said of the attempts themselves.
LEMMA AttemptsRead ==
  ASSUME PInv
  PROVE  /\ report.attempts = attempts /\ report.tcp = tcp
         /\ DOMAIN attempts = 1..Len(attempts) /\ Len(attempts) \in Nat
         /\ attempts # <<>> <=> DOMAIN attempts # {}
         /\ Range(attempts) = {attempts[i] : i \in DOMAIN attempts}
         /\ application_failed(report) <=>
              attempts # <<>> /\ \A i \in DOMAIN attempts : attempts[i].status = "fail"
<1>1. report.attempts = attempts /\ report.tcp = tcp
  BY DEF report
<1>2. attempts \in Seq(Attempt)
  BY DEF PInv, AppInv, AppTypeOK
<1>3. DOMAIN attempts = 1..Len(attempts) /\ Len(attempts) \in Nat
  BY <1>2, LenProperties
<1>4. attempts # <<>> <=> DOMAIN attempts # {}
  BY <1>2, <1>3, EmptySeq
<1>5. QED
  BY <1>1, <1>3, <1>4 DEF Range, application_failed, NotFailed

LEMMA ApplicationFailureClass ==
  ASSUME PInv, phase = "done", application_failed(report)
  PROVE  diagnose_application_failure(report).code =
           IF "http" \in progress THEN "HTTP_EXCHANGE_FAILED"
           ELSE IF "tls" \in progress THEN "TLS_HANDSHAKE_FAILED"
           ELSE "APPLICATION_CONNECT_FAILED"
<1> DEFINE failed(layer) == {a \in Range(attempts) : a[layer] = "fail"}
<1>1. /\ attempts # <<>>
      /\ Range(attempts) = {attempts[i] : i \in DOMAIN attempts}
      /\ \E i \in DOMAIN attempts : TRUE
      /\ \A i \in DOMAIN attempts : Consistent(attempts[i]) /\ attempts[i].status = "fail"
  BY AttemptsRead DEF PInv, AppInv, Tried
<1>2. /\ "http" \in progress <=> \E i \in DOMAIN attempts : attempts[i].http # "none"
      /\ "tls" \in progress <=> \E i \in DOMAIN attempts : attempts[i].tls # "none"
  BY DEF PInv, Explained, AppInv, Ghosts
<1>3. \A i \in DOMAIN attempts :
        LET a == attempts[i]
        IN /\ a.connect = "fail" <=> a.tls = "none" /\ a.http = "none"
           /\ a.http # "none" <=> a.http = "fail"
           /\ a.http = "none" => (a.tls # "none" <=> a.tls = "fail")
  <2> SUFFICES ASSUME NEW i \in DOMAIN attempts
               PROVE  LET a == attempts[i]
                      IN /\ a.connect = "fail" <=> a.tls = "none" /\ a.http = "none"
                         /\ a.http # "none" <=> a.http = "fail"
                         /\ a.http = "none" => (a.tls # "none" <=> a.tls = "fail")
    OBVIOUS
  <2>1. Consistent(attempts[i]) /\ attempts[i].status = "fail"
    BY <1>1
  <2>2. QED
    BY <2>1 DEF Consistent, Attempt
<1>4. /\ Range(attempts) = failed("connect") <=>
           \A i \in DOMAIN attempts : attempts[i].connect = "fail"
      /\ failed("http") # {} <=> \E i \in DOMAIN attempts : attempts[i].http = "fail"
      /\ failed("tls") # {} <=> \E i \in DOMAIN attempts : attempts[i].tls = "fail"
  BY <1>1
<1> DEFINE stageOf == classify_application_failure(attempts).stage
<1>5. stageOf = IF Range(attempts) = failed("connect") THEN "connect"
                ELSE IF failed("http") # {} THEN "http"
                ELSE IF failed("tls") # {} THEN "tls" ELSE "http"
  BY DEF classify_application_failure
<1>6. /\ "http" \in progress <=> failed("http") # {}
      /\ "tls" \in progress /\ "http" \notin progress => failed("tls") # {}
      /\ Range(attempts) = failed("connect") <=>
           "http" \notin progress /\ "tls" \notin progress
      /\ failed("tls") # {} => "tls" \in progress
  BY <1>1, <1>2, <1>3, <1>4
<1>7. stageOf = IF "http" \in progress THEN "http"
                ELSE IF "tls" \in progress THEN "tls" ELSE "connect"
  <2> HIDE DEF failed, stageOf
  <2>1. QED
    BY <1>5, <1>6
<1>8. diagnose_application_failure(report).code =
        IF stageOf = "http" THEN "HTTP_EXCHANGE_FAILED"
        ELSE IF stageOf = "tls" THEN "TLS_HANDSHAKE_FAILED"
        ELSE "APPLICATION_CONNECT_FAILED"
  <2>1. stageOf \in {"http", "tls", "connect"}
    BY <1>7
  <2>2. report.attempts = attempts
    BY AttemptsRead
  <2>3. QED
    BY <2>1, <2>2 DEF diagnose_application_failure, Verdict
<1>9. QED
  <2> HIDE DEF stageOf
  <2>1. QED
    BY <1>7, <1>8

\* Only an application failure is given the class of one.
LEMMA OnlyApplicationFailures ==
  ASSUME NEW r, explain(r).code \in {"APPLICATION_CONNECT_FAILED", "TLS_HANDSHAKE_FAILED",
                                     "HTTP_EXCHANGE_FAILED"}
  PROVE  application_failed(r) /\ explain(r) = diagnose_application_failure(r)
<1>1. \A o, c, a : Verdict(o, c, a).code = c
  BY DEF Verdict
<1>2. diagnose_tcp_failure(r).code \in {"TCP_CONNECTION_REFUSED", "NO_ROUTE", "TCP_TIMEOUT",
                                        "TCP_CONNECT_FAILED"}
  BY <1>1 DEF diagnose_tcp_failure
<1>3. HttpErrorStatus.code = "HTTP_ERROR_STATUS"
  BY <1>1 DEF HttpErrorStatus
<1>4. CASE explain(r) = explain_direct(r)
  BY <1>1, <1>2, <1>3, <1>4 DEF explain_direct
<1>5. CASE explain(r) = explain_proxy_result(r)
  BY <1>1, <1>3, <1>5 DEF explain_proxy_result
<1>6. QED
  BY <1>4, <1>5 DEF explain

\* The class of a failure is the deepest stage that any attempt got to.
THEOREM PipelineClassMatches == Spec => []ClassMatchesProgress
<1>1. PInv => ClassMatchesProgress
  <2> SUFFICES ASSUME PInv, phase = "done",
                      verdict.code \in {"APPLICATION_CONNECT_FAILED", "TLS_HANDSHAKE_FAILED",
                                        "HTTP_EXCHANGE_FAILED"}
               PROVE  verdict.code = IF "http" \in progress THEN "HTTP_EXCHANGE_FAILED"
                                     ELSE IF "tls" \in progress THEN "TLS_HANDSHAKE_FAILED"
                                     ELSE "APPLICATION_CONNECT_FAILED"
    BY DEF ClassMatchesProgress, Done
  <2>1. verdict = explain(report)
    BY DEF PInv, Explained
  <2>2. application_failed(report) /\ verdict = diagnose_application_failure(report)
    BY <2>1, OnlyApplicationFailures
  <2>3. QED
    BY <2>2, ApplicationFailureClass
<1>2. QED
  BY <1>1, PInvInit, PInvStep, PTL DEF Spec

------------------------------------------------------------------------------
\* When either explanation ends in a failure.
LEMMA WhenExplainFails ==
  ASSUME NEW r
  PROVE  /\ explain_direct(r).overall \in {"pass", "warn", "fail"}
         /\ explain_direct(r).exit_code =
              IF \/ r.dns = "fail" \/ ~ \E t \in Range(r.tcp) : Passed(t)
                 \/ application_failed(r) THEN 1 ELSE 0
         /\ explain_proxy_result(r).exit_code =
              IF \/ proxy_auth_rejected(r) \/ (r.proxy.status = "fail" /\ r.attempts = <<>>)
                 \/ application_failed(r) THEN 1 ELSE 0
<1>1. \A c, a : /\ Verdict("pass", c, a).exit_code = 0 /\ Verdict("pass", c, a).overall = "pass"
                /\ Verdict("warn", c, a).exit_code = 0 /\ Verdict("warn", c, a).overall = "warn"
                /\ Verdict("fail", c, a).exit_code = 1 /\ Verdict("fail", c, a).overall = "fail"
  BY DEF Verdict
<1>2. diagnose_tcp_failure(r).exit_code = 1 /\ diagnose_tcp_failure(r).overall = "fail"
  BY <1>1 DEF diagnose_tcp_failure
<1>3. /\ diagnose_application_failure(r).exit_code = 1
      /\ diagnose_application_failure(r).overall = "fail"
  BY <1>1 DEF diagnose_application_failure
<1>4. HttpErrorStatus.exit_code = 0 /\ HttpErrorStatus.overall = "warn"
  BY <1>1 DEF HttpErrorStatus
<1>5. /\ explain_direct(r).overall \in {"pass", "warn", "fail"}
      /\ explain_direct(r).exit_code =
           IF \/ r.dns = "fail" \/ ~ \E t \in Range(r.tcp) : Passed(t)
              \/ application_failed(r) THEN 1 ELSE 0
  <2>1. CASE r.dns = "fail"
    BY <1>1, <2>1 DEF explain_direct
  <2>2. CASE ~ \E t \in Range(r.tcp) : Passed(t)
    BY <1>1, <1>2, <2>2 DEF explain_direct
  <2>3. CASE r.dns # "fail" /\ \E t \in Range(r.tcp) : Passed(t)
    <3>1. explain_direct(r) =
            IF application_failed(r) THEN diagnose_application_failure(r)
            ELSE IF http_error(r) THEN HttpErrorStatus
            ELSE IF partial_application_failure(r)
              THEN Verdict("warn", "APPLICATION_ADDRESS_PARTIAL", NoAddress)
            ELSE IF diagnose_family_asymmetry(r)
              THEN Verdict("warn", "ADDRESS_FAMILY_PARTIAL", NoAddress)
            ELSE Verdict("pass", "CONNECTIVITY_OK", NoAddress)
      BY <2>3 DEF explain_direct
    <3>2. QED
      BY <1>1, <1>3, <1>4, <2>3, <3>1
  <2>4. QED
    BY <2>1, <2>2, <2>3
<1>6. explain_proxy_result(r).exit_code =
        IF \/ proxy_auth_rejected(r) \/ (r.proxy.status = "fail" /\ r.attempts = <<>>)
           \/ application_failed(r) THEN 1 ELSE 0
  <2>1. CASE proxy_auth_rejected(r) \/ (r.proxy.status = "fail" /\ r.attempts = <<>>)
    BY <1>1, <2>1 DEF explain_proxy_result
  <2>2. CASE /\ ~ (proxy_auth_rejected(r) \/ (r.proxy.status = "fail" /\ r.attempts = <<>>))
             /\ application_failed(r)
    BY <1>1, <1>3, <2>2 DEF explain_proxy_result
  <2>3. CASE /\ ~ (proxy_auth_rejected(r) \/ (r.proxy.status = "fail" /\ r.attempts = <<>>))
             /\ ~ application_failed(r)
    BY <1>1, <1>4, <2>3 DEF explain_proxy_result
  <2>4. QED
    BY <2>1, <2>2, <2>3
<1>7. QED
  BY <1>5, <1>6

\* What became of a diagnosis without a proxy in between, when it is over.
LEMMA DirectOutcome ==
  ASSUME PInv, phase = "done", Direct
  PROVE  LET connected == \E r \in Range(tcp) : Passed(r)
         IN /\ report.proxy_mode = "direct" \/ report.proxy.bypassed
            /\ verdict = explain_direct(report)
            /\ proxy = "none" /\ ~ Forwarded
            /\ dns.status = "fail" => ~ connected
            /\ ~ connected => attempts = <<>>
            /\ connected => attempts # <<>> \/ scheme = "tcp"
            /\ attempts # <<>> => scheme # "tcp"
<1> DEFINE connected == \E r \in Range(tcp) : Passed(r)
<1>1. /\ report.proxy_mode = "direct" \/ report.proxy.bypassed
      /\ verdict = explain_direct(report)
  <2>1. plan.kind = "direct" => mode = "direct"
    BY DEF PInv, Gathered, PlanOutcomes, NoPlan, TypeOK, Modes
  <2>2. plan.kind = "bypassed" => transport.bypassed
    BY DEF transport
  <2>3. report.proxy_mode = "direct" \/ report.proxy.bypassed
    BY <2>1, <2>2 DEF Direct, report
  <2>4. QED
    BY <2>3 DEF PInv, Explained, explain
<1>2. proxy = "none" /\ Range(candidates) = PassedAddresses /\ ~ Forwarded
  BY DEF PInv, Selected, Forwarded
<1>3. connected <=> PassedAddresses # {}
  BY DEF PassedAddresses
<1>4. candidates \in Seq(Address) /\ (candidates = <<>> <=> Range(candidates) = {})
  <2>1. candidates \in Seq(Address)
    BY DEF PInv, AppInv, AppTypeOK
  <2>2. candidates = <<>> <=> DOMAIN candidates = {}
    BY <2>1, EmptyDomain
  <2>3. QED
    BY <2>1, <2>2 DEF Range
<1>5. dns.status = "fail" => tcp = <<>>
  BY DEF PInv, Gathered
<1>6. tcp = <<>> => ~ connected
  BY DEF Range
<1>7. candidates = <<>> => attempts = <<>>
  <2>1. attempts \in Seq(Attempt) /\ Len(attempts) = position - 1
        /\ position \in 1..(Len(candidates) + 1)
    BY DEF PInv, AppInv, AppTypeOK, Tried
  <2>2. candidates = <<>> => Len(attempts) = 0
    BY <2>1, EmptySeq, LenProperties
  <2>3. QED
    BY <2>1, <2>2, EmptySeq
<1>8. candidates # <<>> /\ scheme # "tcp" => attempts # <<>>
  BY <1>4, EmptySeq DEF PInv, Explained, AppInv, Where
<1>9. attempts # <<>> => scheme # "tcp"
  BY <1>2 DEF PInv, AppInv, Where
<1>10. QED
  <2> HIDE DEF connected
  <2>1. QED
    BY <1>1, <1>2, <1>3, <1>4, <1>5, <1>6, <1>7, <1>8, <1>9 DEF connected

\* What became of a diagnosis through a proxy, when it is over.
LEMMA ProxiedOutcome ==
  ASSUME PInv, phase = "done", ~ Direct
  PROVE  /\ verdict = explain_proxy_result(report)
         /\ report.proxy.status = "fail" => ~ served
         /\ report.proxy.status # "fail" => attempts # <<>>
<1>1. plan.kind \in {"unavailable", "proxy"}
  BY DEF PInv, TypeOK, Plans, Direct
<1>2. verdict = explain_proxy_result(report)
  <2>1. mode # "direct"
    BY <1>1 DEF PInv, Gathered, PlanOutcomes, NoPlan
  <2>2. ~ transport.bypassed
    BY <1>1 DEF transport
  <2>3. QED
    BY <2>1, <2>2 DEF PInv, Explained, explain, report
<1>3. CASE plan.kind = "unavailable"
  <2>1. candidates = <<>> /\ Len(attempts) = position - 1
        /\ position \in 1..(Len(candidates) + 1) /\ attempts \in Seq(Attempt)
    BY <1>3 DEF PInv, Selected, AppInv, AppTypeOK, Tried
  <2>2. Len(attempts) = 0
    BY <2>1, EmptySeq
  <2>3. DOMAIN attempts = {}
    BY <2>1, <2>2, LenProperties
  <2>4. ~ served
    BY <2>3 DEF PInv, AppInv, Ghosts
  <2>5. report.proxy.status = "fail"
    BY <1>3 DEF report, transport
  <2>6. QED
    BY <1>2, <2>4, <2>5
<1>4. CASE plan.kind = "proxy"
  <2>1. proxy # "none" /\ candidates # <<>> /\ report.proxy.status = ProxyStatus
    BY <1>4 DEF PInv, Selected, report, transport
  <2>2. attempts # <<>>
    <3>1. Len(candidates) \in Nat \ {0} /\ Len(<<>>) = 0
      BY <2>1, EmptySeq DEF PInv, AppInv, AppTypeOK
    <3>2. QED
      BY <2>1, <3>1 DEF PInv, Explained, AppInv, Where
  <2>3. ASSUME ProxyStatus = "fail", NEW i \in DOMAIN attempts
        PROVE  ~ Reached(attempts[i])
    <3>1. /\ attempts \in Seq(Attempt) /\ Len(proxy_attempts) = Len(attempts)
          /\ proxy_attempts \in Seq([address : Address, status : {"pass", "fail"}])
      BY <2>1 DEF PInv, AppInv, AppTypeOK, Proxied
    <3>2. i \in DOMAIN proxy_attempts
      BY <3>1, LenProperties
    <3>3. proxy_attempts[i].status # "pass"
      BY <2>3, <3>2 DEF ProxyStatus, Range
    <3>4. ~ (attempts[i].connect = "pass" /\ ~ forwarded_proxy_rejection(attempts[i]))
      BY <2>1, <3>3 DEF PInv, AppInv, Proxied
    <3>5. Consistent(attempts[i])
      BY DEF PInv, AppInv, Tried
    <3>6. QED
      BY <3>4, <3>5 DEF Reached, Consistent, Attempt
  <2>4. ProxyStatus = "fail" => ~ served
    BY <2>3 DEF PInv, AppInv, Ghosts
  <2>5. QED
    BY <1>2, <2>1, <2>2, <2>4
<1>5. QED
  BY <1>1, <1>3, <1>4

\* The exit code tells the truth about the target: 1 only if it never did what
\* was requested of it, 0 only if it did (or a forward proxy answered for it).
THEOREM PipelineReachability == Spec => []ReachabilityVerdict
<1>1. PInv => ReachabilityVerdict
  <2> SUFFICES ASSUME PInv, phase = "done"
               PROVE  /\ verdict.overall # "skip"
                      /\ verdict.exit_code = 1 => ~ TargetServed
                      /\ verdict.exit_code = 0 /\ ~ Forwarded => TargetServed
    BY DEF ReachabilityVerdict, Done
  <2>1. verdict.overall # "skip"
    BY ExplainGivesVerdict DEF PInv, Explained
  <2>2. served <=> \E i \in DOMAIN attempts : Reached(attempts[i])
    BY DEF PInv, AppInv, Ghosts
  <2>3. application_failed(report) => ~ served
    BY <2>2, AttemptsRead DEF Reached
  <2>4. attempts # <<>> /\ ~ application_failed(report) /\ ~ Forwarded => served
    BY <2>2, AttemptsRead DEF Reached, forwarded_proxy_rejection
  <2>5. attempts = <<>> => ~ served
    BY <2>2, AttemptsRead
  <2>6. CASE Direct
    <3> DEFINE connected == \E r \in Range(tcp) : Passed(r)
    <3>1. /\ verdict = explain_direct(report) /\ ~ Forwarded
          /\ dns.status = "fail" => ~ connected
          /\ ~ connected => attempts = <<>>
          /\ connected => attempts # <<>> \/ scheme = "tcp"
          /\ attempts # <<>> => scheme # "tcp"
      BY <2>6, DirectOutcome
    <3> DEFINE failed == application_failed(report)
    <3>2. verdict.exit_code = IF dns.status = "fail" \/ ~ connected \/ failed THEN 1 ELSE 0
      <4>1. verdict.exit_code = IF \/ report.dns = "fail"
                                   \/ ~ \E t \in Range(report.tcp) : Passed(t)
                                   \/ failed THEN 1 ELSE 0
        BY <3>1, WhenExplainFails, Zenon
      <4>2. report.dns = dns.status /\ report.tcp = tcp
        BY DEF report
      <4>3. QED
        BY <4>1, <4>2, Zenon
    <3>3. TargetServed <=> served \/ (scheme = "tcp" /\ connected)
      BY <2>6 DEF TargetServed
    <3>4. application_failed(report) => attempts # <<>>
      BY AttemptsRead
    <3> HIDE DEF connected
    <3>5. QED
      BY <2>1, <2>3, <2>4, <2>5, <3>1, <3>2, <3>3, <3>4
  <2>7. CASE ~ Direct
    <3>1. /\ verdict = explain_proxy_result(report)
          /\ report.proxy.status = "fail" => ~ served
          /\ report.proxy.status # "fail" => attempts # <<>>
      BY <2>7, ProxiedOutcome
    <3>2. report.attempts = attempts
      BY AttemptsRead
    <3> DEFINE rejected == proxy_auth_rejected(report)
               untried == report.proxy.status = "fail" /\ report.attempts = <<>>
               failed == application_failed(report)
    <3>3. verdict.exit_code = IF rejected \/ untried \/ failed THEN 1 ELSE 0
      BY <3>1, WhenExplainFails, Zenon
    <3>4. /\ verdict.exit_code = 1 => report.proxy.status = "fail" \/ failed
          /\ verdict.exit_code = 0 => ~ failed /\ ~ untried
      <4>1. rejected \/ untried => report.proxy.status = "fail"
        BY DEF proxy_auth_rejected
      <4> HIDE DEF rejected, untried, failed
      <4>2. QED
        BY <3>3, <4>1
    <3>5. TargetServed <=> served
      BY <2>7 DEF TargetServed
    <3>6. served \in BOOLEAN
      BY DEF PInv, AppInv, AppTypeOK
    <3>7. verdict.exit_code = 1 => ~ served
      BY <2>3, <3>1, <3>4, <3>6, Zenon
    <3>8. verdict.exit_code = 0 /\ ~ Forwarded => served
      <4>1. verdict.exit_code = 0 => attempts # <<>>
        BY <3>1, <3>2, <3>4, Zenon
      <4>2. QED
        BY <2>4, <3>4, <4>1, Zenon
    <3>9. QED
      BY <2>1, <3>5, <3>7, <3>8, Zenon
  <2>8. QED
    BY <2>6, <2>7
<1>2. QED
  BY <1>1, PInvInit, PInvStep, PTL DEF Spec

------------------------------------------------------------------------------
\* A set of numbers has a least element, and Min chooses it.
LEMMA LeastOfNaturals ==
  ASSUME NEW S \in SUBSET Nat, S # {}
  PROVE  Min(S) \in S /\ \A x \in S : Min(S) <= x
<1> DEFINE less == {ss \in Nat \X Nat : ss[1] < ss[2]}
<1>1. IsWellFoundedOn(less, Nat)
  BY NatLessThanWellFounded DEF OpToRel
<1> HIDE DEF less
<1>2. PICK x \in S : \A y \in S : <<y, x>> \notin less
  BY <1>1, WFMin
<1>3. \A y \in S : x <= y
  <2> SUFFICES ASSUME NEW y \in S, y < x PROVE FALSE
    OBVIOUS
  <2>1. <<y, x>> \in Nat \X Nat /\ <<y, x>>[1] = y /\ <<y, x>>[2] = x
    OBVIOUS
  <2>2. <<y, x>> \in less
    BY <2>1, Zenon DEF less
  <2>3. QED
    BY <1>2, <2>2
<1>4. QED
  BY <1>3 DEF Min

\* The first attempt that did not fail: where it is, and when there is none.
LEMMA FirstNotFailed ==
  ASSUME NEW T, NEW f \in Seq(T)
  PROVE  LET first == SelectInSeq(f, NotFailed)
         IN /\ first = 0 <=> \A x \in Range(f) : ~ NotFailed(x)
            /\ first # 0 => first \in 1..Len(f) /\ NotFailed(f[first])
<1> DEFINE I == {i \in 1..Len(f) : NotFailed(f[i])}
           first == SelectInSeq(f, NotFailed)
<1>1. first = IF I # {} THEN Min(I) ELSE 0
  BY DEF SelectInSeq
<1>2. Range(f) = {f[i] : i \in 1..Len(f)}
  BY LenProperties DEF Range
<1>3. I \in SUBSET Nat /\ 0 \notin I
  OBVIOUS
<1>4. CASE I # {}
  <2>1. first \in I
    BY <1>1, <1>3, <1>4, LeastOfNaturals
  <2> HIDE DEF first
  <2>2. first # 0 /\ first \in 1..Len(f) /\ NotFailed(f[first])
    BY <1>3, <2>1
  <2>3. f[first] \in Range(f)
    BY <1>2, <2>2
  <2>4. QED
    BY <2>2, <2>3 DEF first
<1>5. CASE I = {}
  <2>1. first = 0
    BY <1>1, <1>5
  <2>2. \A x \in Range(f) : ~ NotFailed(x)
    BY <1>2, <1>5
  <2>3. QED
    BY <2>1, <2>2
<1>6. QED
  BY <1>4, <1>5

\* A probe that nothing ends early makes all its attempts; one that could reach
\* an address does reach one.
LEMMA AttemptsMade ==
  ASSUME NEW T, NEW f \in Seq(T), scheme # "tcp"
  PROVE  /\ (\A x \in Range(f) : ~ NotFailed(x)) => AttemptsOf(f) = f
         /\ (\E x \in Range(f) : NotFailed(x)) =>
              \E x \in Range(AttemptsOf(f)) : NotFailed(x)
<1> DEFINE first == SelectInSeq(f, NotFailed)
           made == SubSeq(f, 1, first)
<1>1. /\ first = 0 <=> \A x \in Range(f) : ~ NotFailed(x)
      /\ first # 0 => first \in 1..Len(f) /\ NotFailed(f[first])
  BY FirstNotFailed
<1>2. AttemptsOf(f) = IF first = 0 THEN f ELSE made
  BY DEF AttemptsOf
<1> HIDE DEF first
<1>3. ASSUME first # 0 PROVE \E x \in Range(made) : NotFailed(x)
  <2>1. first \in 1..Len(f) /\ Len(f) \in Nat
    BY <1>1, <1>3, LenProperties
  <2>2. made \in Seq(T) /\ Len(made) = first /\ made[first] = f[first]
    BY <2>1, SubSeqProperties
  <2>3. DOMAIN made = 1..first
    BY <2>2, LenProperties
  <2>4. made[first] \in Range(made)
    BY <2>1, <2>3 DEF Range
  <2>5. QED
    BY <1>1, <1>3, <2>2, <2>4
<1>4. QED
  BY <1>1, <1>2, <1>3

\* explain_direct reads its evidence as sets, save for the first TCP error.
LEMMA ReadAsSets ==
  ASSUME NEW q, NEW r, q.dns = r.dns, q.routes = r.routes,
         Range(q.tcp) = Range(r.tcp), q.tcp = <<>> <=> r.tcp = <<>>,
         Range(q.attempts) = Range(r.attempts), q.attempts = <<>> <=> r.attempts = <<>>,
         http_error(q) <=> http_error(r)
  PROVE  LET v == explain_direct(q)
             w == explain_direct(r)
         IN /\ v.overall = w.overall
            /\ v.code = w.code
            /\ w.code # "TCP_CONNECT_FAILED" => v.cause = w.cause
<1>1. application_failed(q) <=> application_failed(r)
  BY DEF application_failed
<1>2. partial_application_failure(q) <=> partial_application_failure(r)
  BY DEF partial_application_failure
<1>3. diagnose_family_asymmetry(q) <=> diagnose_family_asymmetry(r)
  BY DEF diagnose_family_asymmetry, family_state
<1>4. diagnose_application_failure(q) = diagnose_application_failure(r)
  BY DEF diagnose_application_failure, classify_application_failure
<1>5. \A kinds : all_tcp_errors(q, kinds) <=> all_tcp_errors(r, kinds)
  BY DEF all_tcp_errors
<1>6. has_no_route(q) <=> has_no_route(r)
  BY <1>5 DEF has_no_route
<1>7. LET v == diagnose_tcp_failure(q)
          w == diagnose_tcp_failure(r)
      IN /\ v.overall = w.overall /\ v.code = w.code
         /\ w.code # "TCP_CONNECT_FAILED" => v.cause = w.cause
  <2>1. \A a, b : LET v == Verdict("fail", "TCP_CONNECT_FAILED", a)
                      w == Verdict("fail", "TCP_CONNECT_FAILED", b)
                  IN v.overall = w.overall /\ v.code = w.code /\ w.code = "TCP_CONNECT_FAILED"
    BY DEF Verdict
  <2>2. CASE \/ all_tcp_errors(r, {"connection_refused"}) \/ has_no_route(r)
             \/ all_tcp_errors(r, {"timeout"})
    <3>1. diagnose_tcp_failure(q) = diagnose_tcp_failure(r)
      BY <1>5, <1>6, <2>2 DEF diagnose_tcp_failure
    <3>2. QED
      BY <3>1
  <2>3. CASE ~ (\/ all_tcp_errors(r, {"connection_refused"}) \/ has_no_route(r)
                \/ all_tcp_errors(r, {"timeout"}))
    BY <1>5, <1>6, <2>1, <2>3 DEF diagnose_tcp_failure
  <2>4. QED
    BY <2>2, <2>3
<1>8. CASE r.dns # "fail" /\ ~ \E t \in Range(r.tcp) : Passed(t)
  <2>1. /\ explain_direct(q) = diagnose_tcp_failure(q)
        /\ explain_direct(r) = diagnose_tcp_failure(r)
    BY <1>8 DEF explain_direct
  <2>2. QED
    BY <1>7, <2>1
<1>9. CASE ~ (r.dns # "fail" /\ ~ \E t \in Range(r.tcp) : Passed(t))
  <2>1. explain_direct(q) = explain_direct(r)
    BY <1>1, <1>2, <1>3, <1>4, <1>9 DEF explain_direct
  <2>2. QED
    BY <2>1
<1>10. QED
  BY <1>8, <1>9

\* A sequence put in another order has the same elements.
LEMMA ReorderedKeeps ==
  ASSUME NEW T, NEW f \in Seq(T), NEW s \in SetToSeqs(DOMAIN f)
  PROVE  LET g == [i \in DOMAIN f |-> f[s[i]]]
         IN g \in Seq(T) /\ Range(g) = Range(f) /\ (g = <<>> <=> f = <<>>)
<1> DEFINE g == [i \in DOMAIN f |-> f[s[i]]]
           n == Len(f)
<1>1. n \in Nat /\ DOMAIN f = 1..n /\ f \in [1..n -> T]
  BY LenProperties
<1>2. IsFiniteSet(1..n) /\ Cardinality(1..n) = n
  BY <1>1, FS_Interval
<1>3. DOMAIN s = 1..n /\ Range(s) = 1..n
  BY <1>1, <1>2, OrdersOfSet
<1>4. \A i \in 1..n : s[i] \in 1..n
  BY <1>3 DEF Range
<1>5. g \in [1..n -> T]
  BY <1>1, <1>4
<1>6. g \in Seq(T) /\ DOMAIN g = 1..n
  BY <1>1, <1>5
<1>7. Range(g) = Range(f)
  <2>1. \A i \in 1..n : \E k \in 1..n : s[k] = i
    BY <1>3 DEF Range
  <2>2. Range(g) = {f[s[i]] : i \in 1..n} /\ Range(f) = {f[i] : i \in 1..n}
    BY <1>1 DEF Range
  <2>3. \A i \in 1..n : f[s[i]] \in Range(f)
    BY <1>4, <2>2
  <2>4. \A i \in 1..n : f[i] \in Range(g)
    <3> SUFFICES ASSUME NEW i \in 1..n PROVE f[i] \in Range(g)
      OBVIOUS
    <3>1. PICK k \in 1..n : s[k] = i
      BY <2>1
    <3>2. QED
      BY <2>2, <3>1
  <2> HIDE DEF g
  <2>5. Range(g) \subseteq Range(f) /\ Range(f) \subseteq Range(g)
    BY <2>2, <2>3, <2>4
  <2>6. QED
    BY <2>5
<1>8. g = <<>> <=> f = <<>>
  BY <1>1, <1>6, EmptyDomain
<1>9. QED
  BY <1>6, <1>7, <1>8

\* An explanation fails exactly with exit code 1.
LEMMA FailsWithExitCode ==
  ASSUME NEW r
  PROVE  /\ explain_direct(r).exit_code \in {0, 1}
         /\ explain_direct(r).overall = "fail" <=> explain_direct(r).exit_code = 1
<1>1. \A o, c, a : Verdict(o, c, a).exit_code = IF Verdict(o, c, a).overall = "fail" THEN 1 ELSE 0
  BY DEF Verdict
<1>2. \E o, c, a : diagnose_tcp_failure(r) = Verdict(o, c, a)
  BY DEF diagnose_tcp_failure
<1>3. \E o, c, a : diagnose_application_failure(r) = Verdict(o, c, a)
  BY DEF diagnose_application_failure
<1>4. \E o, c, a : explain_direct(r) = Verdict(o, c, a)
  BY <1>2, <1>3 DEF explain_direct, HttpErrorStatus
<1>5. QED
  BY <1>1, <1>4

\* Attempts that all failed, or none: what is explained is a set.
LEMMA SameFailure ==
  ASSUME NEW q, NEW r, q.dns = r.dns, q.routes = r.routes,
         Range(q.tcp) = Range(r.tcp), q.tcp = <<>> <=> r.tcp = <<>>,
         NEW T, q.attempts \in Seq(T), r.attempts \in Seq(T),
         Range(q.attempts) = Range(r.attempts), q.attempts = <<>> <=> r.attempts = <<>>,
         \A x \in Range(r.attempts) : ~ NotFailed(x)
  PROVE  LET v == explain_direct(q)
             w == explain_direct(r)
         IN /\ v.exit_code = w.exit_code
            /\ v.code = w.code
            /\ w.code # "TCP_CONNECT_FAILED" => v.cause = w.cause
<1>1. ~ http_error(q) /\ ~ http_error(r)
  BY FirstNotFailed DEF http_error
<1>2. LET v == explain_direct(q)
          w == explain_direct(r)
      IN /\ v.overall = w.overall /\ v.code = w.code
         /\ w.code # "TCP_CONNECT_FAILED" => v.cause = w.cause
  BY <1>1, ReadAsSets
<1>3. explain_direct(q).exit_code = explain_direct(r).exit_code
  BY <1>2, FailsWithExitCode
<1>4. QED
  BY <1>2, <1>3

\* Whatever the order in which the addresses kept by the resolver are listed and
\* connect, and so whichever of them are tried: a direct diagnosis fails or does
\* not, and fails with the same class and cause, save for the cause of mixed TCP
\* errors.
THEOREM PipelineOrderIndependent == Spec => []OrderIndependent
<1>1. PInv => OrderIndependent
  <2> DEFINE Untried == IF scheme = "tcp" THEN {} ELSE DOMAIN candidates \ DOMAIN attempts
  <2> SUFFICES ASSUME PInv, phase = "done", Direct, NEW result \in [Untried -> Results],
                      NEW s \in SetToSeqs(DOMAIN candidates), NEW u \in SetToSeqs(DOMAIN tcp)
               PROVE  LET outcome == [i \in DOMAIN candidates |->
                                        IF i \in DOMAIN attempts THEN attempts[i]
                                        ELSE [result[i] EXCEPT !.address = candidates[i]]]
                          other == explain([report EXCEPT
                                     !.attempts = AttemptsOf([i \in DOMAIN candidates |-> outcome[s[i]]]),
                                     !.tcp = [i \in DOMAIN tcp |-> tcp[u[i]]]])
                      IN /\ other.exit_code = verdict.exit_code
                         /\ verdict.overall = "fail" =>
                              /\ other.code = verdict.code
                              /\ verdict.code # "TCP_CONNECT_FAILED" => other.cause = verdict.cause
    BY DEF OrderIndependent, Done
  <2> DEFINE outcome == [i \in DOMAIN candidates |->
                           IF i \in DOMAIN attempts THEN attempts[i]
                           ELSE [result[i] EXCEPT !.address = candidates[i]]]
             f == [i \in DOMAIN candidates |-> outcome[s[i]]]
             as == AttemptsOf(f)
             ts == [i \in DOMAIN tcp |-> tcp[u[i]]]
             q == [report EXCEPT !.attempts = as, !.tcp = ts]
             T == Range(outcome) \cup Attempt
  <2>1. /\ verdict = explain_direct(report) /\ ~ Forwarded
        /\ q.proxy_mode = "direct" \/ q.proxy.bypassed
    BY DirectOutcome DEF report
  <2>2. /\ attempts \in Seq(Attempt) /\ tcp \in Seq(TcpEvidence) /\ candidates \in Seq(Address)
        /\ Len(attempts) <= Len(candidates)
    BY DEF PInv, AppInv, AppTypeOK, Tried, Gathered
  <2>3. /\ DOMAIN attempts = 1..Len(attempts) /\ DOMAIN candidates = 1..Len(candidates)
        /\ Len(attempts) \in Nat /\ Len(candidates) \in Nat
        /\ DOMAIN attempts \subseteq DOMAIN candidates
    BY <2>2, LenProperties
  <2>4. outcome \in Seq(T) /\ DOMAIN outcome = DOMAIN candidates
    <3>1. \A i \in DOMAIN outcome : outcome[i] \in T
      BY DEF Range
    <3>2. DOMAIN outcome = 1..Len(candidates)
      BY <2>3
    <3> HIDE DEF outcome, T
    <3>3. outcome \in [1..Len(candidates) -> T]
      BY <3>1, <3>2 DEF outcome
    <3>4. QED
      BY <2>3, <3>2, <3>3
  <2>5. \A i \in DOMAIN attempts : outcome[i] = attempts[i]
    BY <2>3
  <2>6. f \in Seq(T) /\ Range(f) = Range(outcome) /\ (f = <<>> <=> outcome = <<>>)
    <3> HIDE DEF outcome, T
    <3>1. f = [i \in DOMAIN outcome |-> outcome[s[i]]]
      BY <2>4
    <3>2. s \in SetToSeqs(DOMAIN outcome)
      BY <2>4
    <3> DEFINE g == [i \in DOMAIN outcome |-> outcome[s[i]]]
    <3>3. g \in Seq(T) /\ Range(g) = Range(outcome) /\ (g = <<>> <=> outcome = <<>>)
      BY <2>4, <3>2, ReorderedKeeps
    <3>4. f = g
      BY <3>1
    <3> HIDE DEF f, g
    <3>5. QED
      BY <3>3, <3>4
  <2>7. Range(ts) = Range(tcp) /\ (ts = <<>> <=> tcp = <<>>)
    BY <2>2, ReorderedKeeps
  <2>8. /\ q.attempts = as /\ q.tcp = ts /\ q.dns = report.dns /\ q.routes = report.routes
        /\ report.attempts = attempts /\ report.tcp = tcp
    BY DEF report
  <2>9. explain(q) = explain_direct(q)
    BY <2>1 DEF explain
  <2> HIDE DEF outcome, f, as, ts, q, T
  <2>10. SUFFICES /\ explain_direct(q).exit_code = explain_direct(report).exit_code
                  /\ explain_direct(report).overall = "fail" =>
                       /\ explain_direct(q).code = explain_direct(report).code
                       /\ explain_direct(report).code # "TCP_CONNECT_FAILED" =>
                            explain_direct(q).cause = explain_direct(report).cause
    BY <2>1, <2>9 DEF outcome, f, as, ts, q
  <2>11. attempts \in Seq(T)
    BY <2>2, SeqMonotonic DEF T
  <2>12. CASE attempts = <<>>
    <3>1. as = <<>>
      <4>1. CASE scheme = "tcp"
        BY <4>1 DEF as, AttemptsOf
      <4>2. CASE scheme # "tcp"
        <5>1. candidates = <<>>
          <6>1. ~ \E r \in Range(tcp) : Passed(r)
            BY <2>12, <4>2, DirectOutcome
          <6>2. Range(candidates) = {}
            BY <6>1 DEF PInv, Selected, PassedAddresses
          <6>3. DOMAIN candidates = {}
            BY <6>2 DEF Range
          <6>4. QED
            BY <2>2, <6>3, EmptyDomain
        <5>2. outcome = <<>> /\ Range(outcome) = {}
          <6>1. DOMAIN outcome = {}
            BY <2>2, <2>4, <5>1, EmptyDomain
          <6>2. QED
            BY <2>4, <6>1, EmptyDomain DEF Range
        <5>3. QED
          BY <2>6, <4>2, <5>2, AttemptsMade DEF as
      <4>3. QED
        BY <4>1, <4>2
    <3>2. Range(attempts) = {} /\ Range(as) = {} /\ as \in Seq(T)
      BY <2>11, <2>12, <3>1, EmptyDomain DEF Range
    <3>3. /\ as \in Seq(T) /\ Range(as) = Range(attempts) /\ (as = <<>> <=> attempts = <<>>)
          /\ \A x \in Range(attempts) : ~ NotFailed(x)
      BY <2>12, <3>1, <3>2
    <3>4. QED
      BY <2>7, <2>8, <2>11, <3>3, SameFailure
  <2>13. CASE attempts # <<>> /\ \A x \in Range(attempts) : ~ NotFailed(x)
    <3>1. scheme # "tcp"
      BY <2>13, DirectOutcome
    <3>2. Len(attempts) = Len(candidates)
      <4>1. stage = "done"
        BY DEF PInv, Explained
      <4>2. Len(attempts) \in DOMAIN attempts
        BY <2>2, <2>3, <2>13, EmptySeq
      <4>3. ~ Reached(attempts[Len(attempts)])
        BY <2>13, <4>2 DEF Range, Reached, NotFailed
      <4>4. QED
        BY <3>1, <4>1, <4>3 DEF PInv, AppInv, Where
    <3>3. outcome = attempts
      <4>1. Len(outcome) = Len(attempts) /\ \A i \in 1..Len(outcome) : outcome[i] = attempts[i]
        <5>1. Len(outcome) \in Nat /\ DOMAIN outcome = 1..Len(outcome)
          BY <2>4, LenProperties
        <5>2. Len(outcome) = Len(attempts)
          BY <2>3, <2>4, <3>2, <5>1
        <5>3. QED
          BY <2>3, <2>5, <5>2
      <4>2. QED
        BY <2>4, <2>11, <4>1, SeqEqual
    <3>4. as = f
      BY <2>6, <2>13, <3>1, <3>3, AttemptsMade DEF as
    <3>5. as \in Seq(T) /\ Range(as) = Range(attempts) /\ (as = <<>> <=> attempts = <<>>)
      BY <2>6, <3>3, <3>4
    <3>6. QED
      BY <2>7, <2>8, <2>11, <2>13, <3>5, SameFailure
  <2>14. CASE attempts # <<>> /\ \E x \in Range(attempts) : NotFailed(x)
    <3>1. scheme # "tcp"
      BY <2>14, DirectOutcome
    <3>2. \E x \in Range(as) : NotFailed(x)
      <4>1. PICK i \in DOMAIN attempts : NotFailed(attempts[i])
        BY <2>14 DEF Range
      <4>2. outcome[i] \in Range(outcome) /\ NotFailed(outcome[i])
        BY <2>3, <2>4, <2>5, <4>1 DEF Range
      <4>3. QED
        BY <2>6, <3>1, <4>2, AttemptsMade DEF as
    <3>3. ~ application_failed(q) /\ ~ application_failed(report)
      BY <2>8, <2>14, <3>2 DEF application_failed
    <3>4. /\ q.dns = "fail" <=> report.dns = "fail"
          /\ (\E t \in Range(q.tcp) : Passed(t)) <=> \E t \in Range(report.tcp) : Passed(t)
      BY <2>7, <2>8
    <3>5. report.dns # "fail" /\ \E t \in Range(report.tcp) : Passed(t)
      BY <2>8, <2>14, DirectOutcome DEF report
    <3>6. explain_direct(q).exit_code = 0 /\ explain_direct(report).exit_code = 0
      BY <3>3, <3>4, <3>5, WhenExplainFails
    <3>7. QED
      BY <3>6, FailsWithExitCode
  <2>15. QED
    BY <2>12, <2>13, <2>14
<1>2. QED
  BY <1>1, PInvInit, PInvStep, PTL DEF Spec
==============================================================================
