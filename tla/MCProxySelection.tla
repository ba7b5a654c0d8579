--------------------------- MODULE MCProxySelection --------------------------
(***************************************************************************)
(* Addresses of two (IPv4) and three (IPv6) bits.  Targets: two names, an  *)
(* address of each family, and an IPv4 address in a tcp:// URL.  Every     *)
(* environment of the variables for http that has each unset, empty, not   *)
(* UTF-8, invalid or a proxy; with NO_PROXY the shapes of one entry, and   *)
(* the upper-case variable without a text or with one without an entry     *)
(* before the lower-case one.                                              *)
(***************************************************************************)
EXTENDS ProxySelection

MCWidth == [ipv4 |-> 2, ipv6 |-> 3]

Name(scheme, text) ==
  [scheme |-> scheme, text |-> text, family |-> "none", number |-> 0,
   port |-> 80, literal |-> "none"]
Literal(scheme, f, n) ==
  [scheme |-> scheme, text |-> IF f = "ipv4" THEN <<"0", "2">> ELSE <<"::5">>,
   family |-> f, number |-> n,
   port |-> 80, literal |-> f]

MCTargets ==
  {Name("http", <<"www", "example">>), Name("https", <<"example">>),
   Literal("http", "ipv4", 2), Literal("tcp", "ipv6", 5),
   [Literal("tcp", "ipv4", 2) EXCEPT !.literal = "none"]}

Entry(kind, port, text, f, n, prefix) ==
  [kind |-> kind, port |-> port, text |-> text, family |-> f, number |-> n,
   prefix |-> prefix]
Entries ==
  {Entry("all", 0, <<"*">>, "none", 0, 0)}
  \cup {Entry("text", port, text, "none", 0, 0) :
          port \in {0, 80, 443}, text \in {<<"example">>, <<"www", "example">>, <<"0", "2">>, <<"::5">>}}
  \cup {Entry("cidr", 0, <<"cidr">>, "ipv4", n, p) : n \in {0, 2, 3}, p \in 0..3}
  \cup {Entry("cidr", 0, <<"cidr">>, "ipv6", n, p) : n \in {1, 4, 5}, p \in 0..4}

NoValue(how) == [is |-> how, entries |-> <<>>]
Text(entries) == [is |-> "text", entries |-> entries]

ProxyValue == {"unset", "empty", "non_utf8", "invalid", "socks5"}
Environment(upper, lower, all, All, NO, no) ==
  [HTTP_PROXY |-> upper, http_proxy |-> lower, HTTPS_PROXY |-> "unset",
   https_proxy |-> "http", ALL_PROXY |-> All, all_proxy |-> all,
   NO_PROXY |-> NO.is, no_proxy |-> no.is,
   entries |-> [NO_PROXY |-> NO.entries, no_proxy |-> no.entries]]
MCEnvironments ==
  {Environment(u, l, a, A, NoValue("unset"), NoValue("unset")) :
     u \in ProxyValue, l \in ProxyValue, a \in ProxyValue, A \in ProxyValue}
  \cup {Environment("http", "unset", "unset", "unset", NO, no) :
          NO \in {NoValue(how) : how \in NoText} \cup {Text(<<>>)},
          no \in {NoValue(how) : how \in NoText} \cup {Text(<<e>>) : e \in Entries}}
  \cup {Environment("http", "unset", "unset", "unset", Text(<<e>>), no) :
          e \in Entries, no \in {NoValue("unset"), Text(<<Entry("all", 0, <<"*">>, "none", 0, 0)>>)}}

V4(n) == [family |-> "ipv4", number |-> n]
V6(n) == [family |-> "ipv6", number |-> n]
MCAnswers ==
  {<<V4(0)>>, <<V6(1)>>, <<V6(1), V4(0), V6(1), V4(3)>>, <<V4(0), V6(2), V4(0), V4(1), V4(2)>>}
==============================================================================
