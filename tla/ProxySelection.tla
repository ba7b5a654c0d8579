---------------------------- MODULE ProxySelection ---------------------------
(***************************************************************************)
(* What a DiagnosticContext keeps of the environment, proxy::plan, and the *)
(* destination that socks5_request or a CONNECT names under the plan:      *)
(* which transport is used, over which addresses, and who resolves the     *)
(* target's name.  Texts are sequences of labels (a name, or an IPv4       *)
(* literal, at its dots); an address is [family, number].                  *)
(***************************************************************************)
EXTENDS Naturals, Sequences, SequencesExt, Positions

CONSTANTS
  Targets,       \* targets [scheme, text, family, number, port, literal]
  Environments,  \* environments: what each variable holds, and entries, those of
                 \* the texts of NO_PROXY and no_proxy
  Answers,       \* what a lookup may return: sequences of addresses
  Width,         \* bits of an address per family
  MaxAddresses   \* MAX_PROXY_ADDRESSES

IPFamily == {"ipv4", "ipv6"}
ProxySchemes == {"http", "https", "socks5", "socks5h"}

\* Target::from_url: literal_address is set for a host that is an address, but
\* not for an IPv4 address in a tcp:// URL, whose host is opaque to the url
\* crate (an endpoint without "://" is parsed as a socket address first).
ParsedLiteral(t) ==
  {t.family} \cup (IF t.scheme = "tcp" /\ t.family = "ipv4" THEN {"none"} ELSE {})

\* The variables that may name a proxy, and those that exclude targets.
ProxyVariable ==
  {"HTTP_PROXY", "http_proxy", "HTTPS_PROXY", "https_proxy", "ALL_PROXY", "all_proxy"}
NoProxyVariable == {"NO_PROXY", "no_proxy"}

\* A variable may be absent, or hold nothing, or bytes that are no UTF-8.
NoText == {"unset", "empty", "non_utf8"}

\* An entry of NO_PROXY is [kind, port, text, family, number, prefix] where
\* kind is "all" for "*", "cidr" or "text", and port 0 if it names none.  The
\* text of a "cidr" has a slash, and so no host ends with it.
IsEntry(e) ==
  /\ e.kind \in {"all", "cidr", "text"}
  /\ e.text \in Seq(Range(e.text)) \ {<<>>}
  /\ e.kind = "cidr" =>
       /\ e.family \in IPFamily /\ e.prefix \in Nat
       /\ e.number \in Nat /\ e.number < 2 ^ Width[e.family]
       /\ \A t \in Targets : ~ IsSuffix(e.text, t.text)

ASSUME WidthAssumption == Width \in [IPFamily -> Nat]
ASSUME TargetAssumption == \A t \in Targets :
  /\ t.family \in IPFamily \cup {"none"} /\ t.literal \in ParsedLiteral(t)
  /\ t.text \in Seq(Range(t.text))
  /\ t.family # "none" => t.number \in Nat /\ t.number < 2 ^ Width[t.family]
ASSUME EnvironmentAssumption == \A e \in Environments :
  /\ \A name \in ProxyVariable : e[name] \in ProxySchemes \cup {"invalid"} \cup NoText
  /\ \A name \in NoProxyVariable :
       /\ e[name] \in {"text"} \cup NoText
       /\ \A entry \in Range(e.entries[name]) : IsEntry(entry)
ASSUME AddressAssumption == \A a \in Answers :
  /\ a \in Seq([family : IPFamily, number : Nat])
  /\ \A i \in DOMAIN a : a[i].number < 2 ^ Width[a[i].family]
ASSUME MaxAddressesAssumption == MaxAddresses \in Nat \ {0}

VARIABLES
  target,       \* the target, fixed
  explicit,     \* args.proxy_url, "unset" if absent, fixed
  proxy_mode,   \* args.proxy_mode: "direct" or "environment", fixed
  family,       \* --ipv4, --ipv6 or "any", fixed
  environment,  \* the environment of the selected context, fixed
  step,         \* "select", "resolve", "connect", "done"
  value,        \* the proxy URL that was selected: its scheme or "invalid"
  plan,         \* [kind, error, addresses]
  destination   \* what the proxy is asked for: [kind, family]

inputs == <<target, explicit, proxy_mode, family, environment>>
vars == <<inputs, step, value, plan, destination>>

Plan(kind, error, addresses) ==
  [kind |-> kind, error |-> error, addresses |-> addresses]
Unavailable(error) == Plan("unavailable", error, <<>>)
Nowhere == [kind |-> "none", family |-> "none"]

Init ==
  /\ target \in Targets
  /\ explicit \in ProxySchemes \cup {"unset"}
  /\ proxy_mode \in {"direct", "environment"}
  /\ family \in IPFamily \cup {"any"}
  /\ environment \in Environments
  /\ step = "select"
  /\ value = "unset"
  /\ plan = Plan("none", "none", <<>>)
  /\ destination = Nowhere

-----------------------------------------------------------------------------
address_family_allows(a) == family \in {"any", a.family}

\* The bits set in an address of the family.
Bits(n, f) == {i \in 0..(Width[f] - 1) : (n \div 2 ^ i) % 2 = 1}

MutMask(f, prefix) ==   \* mutant: MAX << width, whose shift wraps to none
  IF prefix = 0 THEN 0..(Width[f] - 1) ELSE (Width[f] - prefix)..(Width[f] - 1)

\* The bits set in MAX << (width - prefix).
Mask(f, prefix) ==
  IF prefix = 0 THEN {} ELSE (Width[f] - prefix)..(Width[f] - 1)

cidr_contains(entry, t) ==
  /\ entry.family = t.family
  /\ entry.prefix <= Width[t.family]
  /\ Bits(entry.number, t.family) \cap Mask(t.family, entry.prefix) =
       Bits(t.number, t.family) \cap Mask(t.family, entry.prefix)

no_proxy_entry_matches(entry, t) ==
  \/ entry.kind = "all"
  \/ /\ entry.port \in {0, t.port}
     /\ IF entry.kind = "cidr" /\ t.family # "none"
          THEN cidr_contains(entry, t)
          ELSE IsSuffix(entry.text, t.text)

MutProxyEnvironment ==   \* mutant: empty values are kept
  {name \in ProxyVariable \cup NoProxyVariable : environment[name] \notin {"unset", "non_utf8"}}

\* proxy_environment_from_lookup: the variables that the context keeps.
proxy_environment ==
  {name \in ProxyVariable \cup NoProxyVariable : environment[name] \notin NoText}

\* The first of NO_PROXY and no_proxy that was kept counts, even if its text
\* has no entry.
no_proxy_matches ==
  LET name == IF "NO_PROXY" \in proxy_environment THEN "NO_PROXY" ELSE "no_proxy"
  IN name \in proxy_environment /\ \E entry \in Range(environment.entries[name]) :
                                     no_proxy_entry_matches(entry, target)

\* The variables consulted, in their order.
ProxyNames ==
  (IF target.scheme = "https" THEN <<"HTTPS_PROXY", "https_proxy">>
                              ELSE <<"HTTP_PROXY", "http_proxy">>)
  \o <<"ALL_PROXY", "all_proxy">>

select_environment_proxy ==
  LET applicable == {i \in DOMAIN ProxyNames : /\ ProxyNames[i] \in proxy_environment
                                               /\ environment[ProxyNames[i]] # "empty"}
  IN IF applicable = {} THEN "unset" ELSE environment[ProxyNames[Nth(applicable, 1)]]

Planned(p) == step' = "done" /\ plan' = p /\ UNCHANGED value

Choose(v) ==
  IF v = "unset" THEN Planned(Unavailable("not_configured"))
  ELSE step' = "resolve" /\ value' = v /\ UNCHANGED plan

\* plan: an explicit URL wins, and NO_PROXY does not apply to it.
Select ==
  /\ step = "select"
  /\ \/ explicit # "unset" /\ Choose(explicit)
     \/ /\ explicit = "unset" /\ proxy_mode = "environment"
        /\ IF no_proxy_matches THEN Planned(Plan("bypassed", "none", <<>>))
           ELSE Choose(select_environment_proxy)
     \/ /\ explicit = "unset" /\ proxy_mode = "direct"
        /\ Planned(Plan("direct", "none", <<>>))
  /\ UNCHANGED <<inputs, destination>>

\* Why the plan is given up before the proxy's name is looked up.
Refusal ==
  IF value = "invalid" THEN "invalid_config"
  ELSE IF family # "any" /\ target.literal \notin {"none", family}
    THEN "no_addresses"
  ELSE IF family # "any" /\ target.literal = "none" /\ value # "socks5"
    THEN "invalid_config"
  ELSE "none"

MutUsable(answer) ==   \* mutant: the limit is applied to the raw answer
  SelectSeq(SubSeq(answer, 1, IF Len(answer) < MaxAddresses THEN Len(answer)
                                                          ELSE MaxAddresses + 1),
            address_family_allows)

\* The first MaxAddresses distinct addresses of the family.
Usable(answer) ==
  LET first == {i \in DOMAIN answer : /\ address_family_allows(answer[i])
                                     /\ \A j \in 1..(i - 1) : answer[j] # answer[i]}
      distinct == Picked(answer, first)
  IN IF Len(distinct) > MaxAddresses THEN SubSeq(distinct, 1, MaxAddresses)
                                     ELSE distinct

resolve_proxy ==
  /\ step = "resolve"
  /\ IF Refusal # "none" THEN Planned(Unavailable(Refusal))
     ELSE \/ \E error \in {"resolver_error", "timeout"} :
               Planned(Unavailable(error))
          \/ \E answer \in Answers :
               IF Usable(answer) = <<>> THEN Planned(Unavailable("no_addresses"))
               ELSE /\ step' = "connect"
                    /\ plan' = Plan("proxy", "none", Usable(answer))
                    /\ UNCHANGED value
  /\ UNCHANGED <<inputs, destination>>

\* lookup_host of the target: an address is its own answer.
Lookup(answer) ==
  IF target.family = "none" THEN answer
  ELSE <<[family |-> target.family, number |-> target.number]>>

\* socks5_request resolves the name itself; the other proxies get the text.
MutRequest ==   \* mutant: the first answer, whatever its family
  /\ step = "connect"
  /\ \E answer \in Answers :
       destination' = [kind |-> "address", family |-> Lookup(answer)[1].family]
  /\ step' = "done"
  /\ UNCHANGED <<inputs, value, plan>>

Request ==
  /\ step = "connect"
  /\ IF value # "socks5"
       THEN destination' =
              [kind   |-> IF target.family = "none" THEN "name" ELSE "address",
               family |-> target.family]
     ELSE IF target.literal # "none"
       THEN destination' = IF family \in {"any", target.literal}
                             THEN [kind |-> "address", family |-> target.literal]
                             ELSE Nowhere
     ELSE \E answer \in Answers :
            LET all == Lookup(answer)
                allowed == {i \in DOMAIN all : address_family_allows(all[i])}
            IN destination' = IF allowed = {} THEN Nowhere
                              ELSE [kind |-> "address", family |-> all[Nth(allowed, 1)].family]
  /\ step' = "done"
  /\ UNCHANGED <<inputs, value, plan>>

Next == Select \/ resolve_proxy \/ Request

Spec == Init /\ [][Next]_vars

-----------------------------------------------------------------------------
\* Type invariant.
TypeOK ==
  /\ step \in {"select", "resolve", "connect", "done"}
  /\ value \in ProxySchemes \cup {"unset", "invalid"}
  /\ plan.kind \in {"none", "direct", "bypassed", "unavailable", "proxy"}
  /\ plan.kind = "proxy" <=> plan.addresses # <<>>
  /\ Len(plan.addresses) <= MaxAddresses
  /\ plan.kind = "unavailable" <=> plan.error # "none"
  /\ destination.family \in IPFamily \cup {"none"}

\* With --ipv4 or --ipv6, whatever was configured and whatever any lookup
\* answers, no address of the other family is used for the proxy or asked of
\* it, and no name is left for the proxy to resolve as it likes.
FamilyGuaranteed ==
  family # "any" =>
    /\ \A i \in DOMAIN plan.addresses : plan.addresses[i].family = family
    /\ destination.kind # "name"
    /\ destination.kind = "address" => destination.family = family

\* The hosts that an entry stands for: a range of addresses, or a domain with
\* all below it.
Covers(entry, t) ==
  \/ entry.kind = "all"
  \/ /\ entry.port = 0 \/ entry.port = t.port
     /\ IF entry.kind = "cidr"
          THEN /\ t.family = entry.family /\ entry.prefix <= Width[entry.family]
               /\ LET size == 2 ^ (Width[entry.family] - entry.prefix)
                  IN t.number \div size = entry.number \div size
          ELSE \E i \in 0..Len(t.text) :
                 t.text = SubSeq(t.text, 1, i) \o entry.text

\* The proxy is bypassed only for a target that the effective NO_PROXY covers,
\* and then always: never for an explicit proxy, and because of the lower-case
\* variable only when the upper-case one holds no text: absent, empty and not
\* UTF-8 are alike.
BypassedExactly ==
  step = "done" =>
    (plan.kind = "bypassed" <=>
       /\ explicit = "unset" /\ proxy_mode = "environment"
       /\ \E name \in NoProxyVariable :
            /\ environment[name] = "text"
            /\ name = "no_proxy" => environment.NO_PROXY # "text"
            /\ \E entry \in Range(environment.entries[name]) : Covers(entry, target))

\* "An address literal remains valid when it matches" the selected family
\* (docs/design.md:131), whichever proxy is selected.
LiteralRemainsValid ==
  family = target.family /\ value # "invalid" => plan.error # "invalid_config"
==============================================================================
