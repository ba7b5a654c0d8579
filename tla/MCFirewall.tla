----------------------------- MODULE MCFirewall -----------------------------
(***************************************************************************)
(* Rulesets: a chain of each family, with and without a policy, and a rule *)
(* of up to two predicates with each kind of tail; and two chains, of      *)
(* which none, one or both see sent packets.                               *)
(***************************************************************************)
EXTENDS Firewall

MCProbed ==
  {"a4" :> "ipv4", ("a4" :> "ipv4") @@ ("b4" :> "ipv4"), ("a4" :> "ipv4") @@ ("a6" :> "ipv6")}
MCInterface == {"eth0", "wg0"}
MCStands == ("eth0" :> {"eth0"}) @@ ("wg0" :> {"wg0"}) @@ ("eth*" :> {"eth0"})

Chain(f, hook, policy) ==
  [chain |-> TRUE, family |-> f, name |-> "out", hook |-> hook, policy |-> policy]
Rule(f, exprs) == [chain |-> FALSE, family |-> f, name |-> "out", exprs |-> exprs]
Expression(is, op, field, right_side) ==
  [is |-> is, op |-> op, field |-> field, right |-> right_side]
Match(op, field, right_side) == Expression("match", op, field, right_side)
Statement(is, field) == Expression(is, "none", field, "none")

Predicates ==
  {Match("==", "ip.daddr", "a4"), Match("!=", "ip.daddr", "a4"),
   Match("==", "ip.daddr", "set"), Match("==", "ip6.daddr", "a6"),
   Match("==", "tcp.dport", "443"), Match("==", "tcp.dport", "80"),
   Match("==", "udp.dport", "443"), Match("==", "oifname", "eth0"),
   Match("!=", "oifname", "wg0"), Match("==", "oifname", "eth*"),
   Match("==", "meta.mark", "1")}
Drop == Statement("verdict", "drop")
Tails ==
  {<<Drop>>, <<Statement("neutral", "counter"), Statement("verdict", "jump")>>,
   <<Statement("other", "limit"), Statement("verdict", "accept")>>,
   <<Statement("other", "vmap")>>, <<Statement("neutral", "counter")>>}
Exprs ==
  Tails \cup {<<p>> \o t : p \in Predicates, t \in Tails}
        \cup {<<p, q, Drop>> : p \in Predicates, q \in Predicates}
MCRulesets ==
  {<<Chain(f, "output", p), Rule(f, x)>> :
     f \in {"ip", "ip6", "inet", "bridge"}, p \in {"none", "accept"}, x \in Exprs}
  \cup {<<Chain("inet", h, "accept"), Rule("inet", <<Drop>>), Chain("ip", g, "none"), Rule("ip", x)>> :
          h \in {"input", "output", "none"}, g \in {"postrouting", "input"}, x \in Exprs}
==============================================================================
