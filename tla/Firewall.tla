------------------------------- MODULE Firewall ------------------------------
(***************************************************************************)
(* probe::path::inspect_firewall: what `nft --json list ruleset` says of   *)
(* the packets that the probes send to the target's addresses.  Base       *)
(* chains and rules are read in one pass; a rule is judged by predicates   *)
(* on the destination, the port and the output interface, each against     *)
(* all probed addresses and all their routes.                              *)
(***************************************************************************)
EXTENDS Naturals, Sequences, FiniteSets, SequencesExt

CONSTANTS
  Probed,      \* sets of probed addresses: functions from address to family
  Rulesets,    \* what nft may list: sequences of chains and rules
  Interface,   \* names of interfaces
  Stands       \* the interfaces that a text stands for: one name or a wildcard

\* A chain is [chain, family, name, hook, policy]; a rule is [chain, family,
\* name, exprs], where name is that of its chain and table.  An expression
\* is [is, op, field, right]: a match, a verdict (named by field), a counter,
\* comment or log ("neutral"), or another (field tells a verdict map, "vmap").
\* What a match compares with is one text, or a set, range or prefix ("set").
\* The probes use TCP and one port, "443".
SameChain(e, c) == c.chain /\ c.family = e.family /\ c.name = e.name
Expressions(list) ==
  UNION {Range(rule.exprs) : rule \in {e \in Range(list) : ~ e.chain}}

\* nft lists every chain once, and before its rules; a text is no "none".
IsRuleset(list) ==
  /\ list \in Seq(Range(list))
  /\ \A i \in DOMAIN list : ~ list[i].chain => \E j \in 1..i : SameChain(list[i], list[j])
  /\ \A i, j \in DOMAIN list : list[i].chain /\ SameChain(list[i], list[j]) => i = j
  /\ \A x \in Expressions(list) : x.is = "match" => x.right # "none"

ASSUME FirewallAssumption ==
  /\ \A list \in Rulesets : IsRuleset(list)
  /\ \A p \in Probed : \A a \in DOMAIN p : p[a] \in {"ipv4", "ipv6"}
  /\ "none" \notin Interface
  /\ \A name \in Interface : Stands[name] = {name}

VARIABLES
  probed,   \* families of the probed addresses, fixed
  interfaces,  \* interface of each one's route, "none" if unknown, fixed
  ruleset,     \* what nft lists, fixed
  entry,       \* position of the pass in it
  relevant,    \* relevant_chains
  matches,     \* sequence of [entry, verdict, confidence]
  incomplete,
  firewall     \* "inspecting", "parsing", "pass" or the error kind

firewallInputs == <<probed, interfaces, ruleset>>
firewallVars == <<firewallInputs, entry, relevant, matches, incomplete, firewall>>

FirewallInit ==
  /\ probed \in Probed
  /\ interfaces \in [DOMAIN probed -> Interface \cup {"none"}]
  /\ ruleset \in Rulesets
  /\ entry = 1
  /\ relevant = {}
  /\ matches = <<>>
  /\ incomplete = TRUE
  /\ firewall = "inspecting"

-----------------------------------------------------------------------------
FamilyOf == [ip |-> "ipv4", ip6 |-> "ipv6"]
Families == {probed[a] : a \in DOMAIN probed}

family_applicability(f) ==
  IF DOMAIN probed = {} THEN "no"
  ELSE IF f \in DOMAIN FamilyOf
    THEN IF FamilyOf[f] \in Families THEN "exact" ELSE "no"
  ELSE IF f = "inet" THEN "exact"
  ELSE "possible"

Protocol == [f \in {"ip.daddr", "ip6.daddr"} |-> IF f = "ip.daddr" THEN "ipv4" ELSE "ipv6"]

\* Whether the text is one of an address, the port or a route's interface.
Named(field, text) ==
  CASE field \in DOMAIN Protocol ->
         text \in DOMAIN probed /\ probed[text] = Protocol[field]
    [] field = "tcp.dport" -> text = "443"
    [] field = "udp.dport" -> FALSE
    [] field = "oifname" -> \E a \in DOMAIN probed : interfaces[a] = text

Understood == DOMAIN Protocol \cup {"tcp.dport", "udp.dport", "oifname"}

MutMatch(m) ==   \* mutant: the operator is not looked at
  IF m.right = "set" \/ m.field \notin Understood THEN "unknown"
  ELSE IF Named(m.field, m.right) THEN "true" ELSE "false"

evaluate_match(m) ==
  IF m.op # "==" \/ m.right = "set" \/ m.field \notin Understood THEN "unknown"
  ELSE IF Named(m.field, m.right) THEN "true" ELSE "false"

Results(rule) ==
  {evaluate_match(x) : x \in {y \in Range(rule.exprs) : y.is = "match"}}

rule_applicability(rule) ==
  IF family_applicability(rule.family) = "no" \/ "false" \in Results(rule) THEN "no"
  ELSE IF \/ family_applicability(rule.family) = "possible"
          \/ "unknown" \in Results(rule)
          \/ \E x \in Range(rule.exprs) : x.is = "other" THEN "possible"
  ELSE "exact"

\* The first expression that is a verdict.
VerdictsOf(rule) ==
  LET IsVerdict(x) == x.is = "verdict"
  IN SelectSeq(rule.exprs, IsVerdict)

Matched(verdict, confidence) ==
  matches' = Append(matches, [entry |-> entry, verdict |-> verdict, confidence |-> confidence])

Skipped(kind) ==
  /\ firewall' = kind
  /\ UNCHANGED <<entry, relevant, matches, incomplete>>

\* nft cannot be started, fails, is cut off, times out, or lists the ruleset.
inspect_firewall ==
  /\ firewall = "inspecting"
  /\ \/ \E kind \in {"tool_missing", "tool_failed", "timeout", "output_truncated",
                     "permission_denied", "parse_error"} : Skipped(kind)
     \/ /\ firewall' = "parsing" /\ incomplete' = FALSE
        /\ UNCHANGED <<entry, relevant, matches>>
  /\ UNCHANGED firewallInputs

ReadChain ==
  /\ firewall = "parsing"
  /\ entry <= Len(ruleset)
  /\ LET c == ruleset[entry]
         seen == c.hook \in {"output", "postrouting"}
     IN /\ c.chain
        /\ relevant' = IF seen THEN relevant \cup {<<c.family, c.name>>} ELSE relevant
        /\ IF seen /\ c.policy # "none" /\ family_applicability(c.family) # "no"
             THEN incomplete' = TRUE /\ Matched("policy", "possible")
             ELSE UNCHANGED <<incomplete, matches>>
  /\ entry' = entry + 1
  /\ UNCHANGED <<firewallInputs, firewall>>

\* A rule of another chain, without a verdict, or that cannot apply is passed
\* over.
ReadRule ==
  /\ firewall = "parsing"
  /\ entry <= Len(ruleset)
  /\ LET rule == ruleset[entry]
         applies == rule_applicability(rule)
     IN /\ ~ rule.chain
        /\ IF \/ <<rule.family, rule.name>> \notin relevant
              \/ VerdictsOf(rule) = <<>>
              \/ applies = "no"
             THEN UNCHANGED <<incomplete, matches>>
             ELSE LET verdict == Head(VerdictsOf(rule)).field
                  IN /\ Matched(verdict, applies)
                     /\ incomplete' = \/ incomplete
                                      \/ applies = "possible"
                                      \/ verdict \in {"jump", "goto", "return", "continue"}
  /\ entry' = entry + 1
  /\ UNCHANGED <<firewallInputs, relevant, firewall>>

AllRead ==
  /\ firewall = "parsing"
  /\ entry > Len(ruleset)
  /\ firewall' = "pass"
  /\ UNCHANGED <<firewallInputs, entry, relevant, matches, incomplete>>

FirewallNext == inspect_firewall \/ ReadChain \/ ReadRule \/ AllRead

FirewallSpec == FirewallInit /\ [][FirewallNext]_firewallVars

-----------------------------------------------------------------------------
FirewallTypeOK ==
  /\ entry \in 1..(Len(ruleset) + 1)
  /\ relevant \subseteq {<<c.family, c.name>> : c \in Range(ruleset)}
  /\ incomplete \in BOOLEAN
  /\ \A i \in DOMAIN matches : /\ matches[i].entry \in 1..(entry - 1)
                               /\ matches[i].confidence \in {"exact", "possible"}

Equals(x, a) ==
  CASE x.field = "tcp.dport" -> x.right = "443"
    [] x.field = "oifname"   -> interfaces[a] \in Stands[x.right]
    [] OTHER                 -> x.right = a

\* What an expression says of the packets to one address: "unknown" where it
\* depends on what only the kernel has.
Holds(x, a) ==
  IF x.is # "match" THEN IF x.is = "other" THEN "unknown" ELSE "true"
  ELSE IF \/ x.field \in DOMAIN Protocol /\ probed[a] # Protocol[x.field]
          \/ x.field = "udp.dport" THEN "false"
  ELSE IF \/ x.right = "set" \/ x.op \notin {"==", "!="} \/ x.field \notin Understood
          \/ x.field = "oifname" /\ interfaces[a] = "none" THEN "unknown"
  ELSE IF Equals(x, a) <=> x.op = "==" THEN "true" ELSE "false"

MaySee(family, a) == family \notin DOMAIN FamilyOf \/ FamilyOf[family] = probed[a]
MayHit(rule, a) ==
  MaySee(rule.family, a) /\ \A x \in Range(rule.exprs) : Holds(x, a) # "false"
Hooked(rule) ==
  \E c \in Range(ruleset) : SameChain(rule, c) /\ c.hook \in {"output", "postrouting"}
Plain(rule) ==   \* compares no interface that is unknown, or with a wildcard
  \A x \in Range(rule.exprs) : x.field = "oifname" =>
    /\ x.right \in Interface \cup {"set"}
    /\ \A a \in DOMAIN probed : interfaces[a] # "none"
Listed(i) == {m \in Range(matches) : m.entry = i}

\* The evidence is judged against all addresses at once; packet by packet it
\* still means what it says.  A verdict that may meet the packets of some
\* probe is listed (unless it compares an unknown interface, or a wildcard);
\* a rule is called an exact match only if each of its expressions is true of
\* some probe's packets for certain, hence, with one address, all of them; any
\* other listing leaves the evidence incomplete; and nothing is listed from
\* chains that no sent packet enters.
FirewallSound ==
  firewall = "pass" =>
    \A i \in {j \in DOMAIN ruleset : ~ ruleset[j].chain} :
      LET rule == ruleset[i]
          decides == Hooked(rule) /\ VerdictsOf(rule) # <<>>
      IN /\ Listed(i) # {} => decides
         /\ decides /\ Plain(rule) /\ (\E a \in DOMAIN probed : MayHit(rule, a)) =>
              Listed(i) # {}
         /\ \A m \in Listed(i) :
              IF m.confidence = "exact"
                THEN \A x \in Range(rule.exprs) : \E a \in DOMAIN probed : Holds(x, a) = "true"
                ELSE incomplete

\* "Unsupported expressions and indirect control flow make the result
\* `possible` or `incomplete`" (docs/design.md:83): so a rule of an examined
\* chain that may send a probe's packets through a verdict map, a jump or the
\* like leaves the evidence incomplete.
IndirectIsIncomplete ==
  firewall = "pass" =>
    \A rule \in Range(ruleset) :
      /\ ~ rule.chain /\ Hooked(rule)
      /\ \E a \in DOMAIN probed : MayHit(rule, a)
      /\ \E x \in Range(rule.exprs) : x.field \in {"vmap", "jump", "goto"}
      => incomplete
==============================================================================
