----------------------------- MODULE MCEvidence ------------------------------
(***************************************************************************)
(* The sequential parts of a report side by side: the lookup, the choice   *)
(* of a proxy, the reading of two tools' output, the strict redaction and  *)
(* the comparison.  One of them moves in a behaviour, the others stay      *)
(* where they end: they share no state.                                    *)
(***************************************************************************)
EXTENDS MCProxySelection, Resolver, MCFirewall, Resolvectl, Redaction, MCCompare

-----------------------------------------------------------------------------
(* Answers of up to five addresses out of three of IPv4 and one of IPv6,   *)
(* and a limit of two: under, at and over it, duplicates on either side.   *)
MCAddress == 1..4
MCFamily == [a \in MCAddress |-> IF a = 4 THEN "ipv6" ELSE "ipv4"]
MCLookups == BoundedSeq(MCAddress, 5)

-----------------------------------------------------------------------------
(* Listings of up to three lines of any kind after a global section, after *)
(* a link with a server, or after nothing.                                 *)
Line(is, field, text) == [is |-> is, field |-> field, words |-> text]
MCLines ==
  {Line("Link", "none", <<"2", "eth0">>), Line("Link", "none", <<"3", "wg0">>),
   Line("Link", "none", <<"malformed">>), Line("break", "none", <<>>),
   Line("field", "Current_DNS_Server", <<"b4">>), Line("field", "DNS_Servers", <<"b4", "a6">>),
   Line("field", "DNS_Domain", <<"corp">>), Line("field", "Default_Route", <<"yes">>),
   Line("field", "Protocols", <<"-DefaultRoute">>), Line("field", "DNSSEC", <<>>),
   Line("more", "none", <<"c4", "b4">>), Line("more", "none", <<"a6">>)}
Servers == Line("field", "DNS_Servers", <<"a4">>)
Openings ==
  {<<>>, <<Line("break", "none", <<>>), Servers>>, <<Line("Link", "none", <<"1", "lo">>), Servers>>}
MCListings ==
  {l \in {o \o m : o \in Openings, m \in BoundedSeq(MCLines, 3)} : IsListing(l)}
MCColon == {"a6"}

-----------------------------------------------------------------------------
(* Reports in which any two fields that may name one thing hold any two    *)
(* values, or an optional field is absent.  Two of the IPv4 addresses have *)
(* hashes that collide.                                                    *)
Holding(is, n) == [is |-> is, id |-> n]
MCValue ==
  {Holding("v4", n) : n \in 1..3} \cup {Holding("v6", 1)} \cup {Holding("text", n) : n \in 1..3}
MCHash ==
  [v \in MCValue |-> CASE v.is = "v4" -> <<7, 261, 9>>[v.id]
                       [] v.is = "v6" -> 20
                       [] OTHER       -> 30 + v.id]
MCSlots == [f \in {"v4", "v6"} |-> IF f = "v4" THEN 254 ELSE 300]
Required == Sockets \cup {"target.host", "target.original"}
MayHold(f) ==
  IF f \in Sockets THEN {v \in MCValue : v.is # "text"}
  ELSE (IF f \in Addresses THEN {v \in MCValue : v.is # "text" \/ v.id = 3}
                           ELSE {Holding("text", 1), Holding("text", 2)})
       \cup (IF f \in Required THEN {} ELSE {Absent})
Ordinary == [f \in ReportField |-> IF f \in Sockets THEN Holding("v4", 1) ELSE Holding("text", 3)]
MCOriginals ==
  UNION {UNION {{[Ordinary EXCEPT ![f] = v, ![g] = w] : v \in MayHold(f), w \in MayHold(g)} :
                  f \in fields, g \in fields} : fields \in SameThing}
  \cup {[Ordinary EXCEPT ![f] = Absent] : f \in ReportField \ Required}

-----------------------------------------------------------------------------
SomeOf(s) == CHOOSE x \in s : TRUE
NoProxyPlan ==
  /\ target = SomeOf(Targets) /\ explicit = "unset" /\ proxy_mode = "direct"
  /\ family = "any" /\ environment = SomeOf(Environments) /\ step = "done" /\ value = "unset"
  /\ plan = Plan("direct", "none", <<>>) /\ destination = Nowhere
NoLookup ==
  /\ literal = {} /\ only = "any" /\ answer = <<>> /\ next = 1 /\ seen = {}
  /\ addresses = <<>> /\ truncated = FALSE /\ status = "timeout"
NoFirewall ==
  /\ probed = "a4" :> "ipv4" /\ interfaces = "a4" :> "eth0" /\ ruleset = <<>> /\ entry = 1
  /\ relevant = {} /\ matches = <<>> /\ incomplete = TRUE /\ firewall = "tool_missing"
NoListing ==
  /\ listing = <<>> /\ line = 1 /\ global = Section(<<>>) /\ links = <<>>
  /\ current_link = <<>> /\ continuation = "none" /\ resolver = "tool_missing"
NoRedaction ==
  /\ original = Ordinary /\ level = "standard" /\ report = Ordinary /\ section = 1
NoComparison ==
  /\ left = SomeOf(Reports) /\ right = left /\ visits = <<>> /\ changes = <<>>
  /\ more = FALSE /\ comparison = "refused"

MCInit ==
  \/ NoLookup /\ NoFirewall /\ NoListing /\ NoRedaction /\ NoComparison /\ Init
  \/ NoProxyPlan /\ NoFirewall /\ NoListing /\ NoRedaction /\ NoComparison /\ ResolverInit
  \/ NoProxyPlan /\ NoLookup /\ NoListing /\ NoRedaction /\ NoComparison /\ FirewallInit
  \/ NoProxyPlan /\ NoLookup /\ NoFirewall /\ NoRedaction /\ NoComparison /\ ResolvectlInit
  \/ NoProxyPlan /\ NoLookup /\ NoFirewall /\ NoListing /\ NoComparison /\ RedactionInit
  \/ NoProxyPlan /\ NoLookup /\ NoFirewall /\ NoListing /\ NoRedaction /\ CompareInit

MCNext ==
  \/ Next /\ UNCHANGED <<resolverVars, firewallVars, resolvectlVars, redactionVars, compareVars>>
  \/ ResolverNext /\ UNCHANGED <<vars, firewallVars, resolvectlVars, redactionVars, compareVars>>
  \/ FirewallNext /\ UNCHANGED <<vars, resolverVars, resolvectlVars, redactionVars, compareVars>>
  \/ ResolvectlNext /\ UNCHANGED <<vars, resolverVars, firewallVars, redactionVars, compareVars>>
  \/ RedactionNext /\ UNCHANGED <<vars, resolverVars, firewallVars, resolvectlVars, compareVars>>
  \/ CompareNext /\ UNCHANGED <<vars, resolverVars, firewallVars, resolvectlVars, redactionVars>>

MCVars ==
  <<vars, resolverVars, firewallVars, resolvectlVars, redactionVars, compareVars>>

MCSpec == MCInit /\ [][MCNext]_MCVars

\* Type invariant of all six.
MCTypeOK ==
  /\ TypeOK /\ ResolverTypeOK /\ FirewallTypeOK
  /\ ResolvectlTypeOK /\ RedactionTypeOK /\ CompareTypeOK
==============================================================================
