------------------------------ MODULE Redaction ------------------------------
(***************************************************************************)
(* redaction::apply: the strict policy rewrites a report in place, section *)
(* by section.  A field is named by its path in the report; a field that   *)
(* lists several values stands for one of them.                            *)
(***************************************************************************)
EXTENDS Naturals

CONSTANTS
  Value,    \* what a field may hold: [is, id] with "v4", "v6" for an address,
            \* "text" for anything else
  Hash,     \* stable_hash of it
  Slots,    \* documentation addresses of each family: 254 and 2^32
  Originals \* reports: functions from the fields to values or Absent

Absent == [is |-> "absent", id |-> 0]

pseudonym(kind, v) == [is |-> kind, id |-> Hash[v]]
Redacted == [is |-> "REDACTED", id |-> 0]

\* The hash of an address chooses one of the documentation addresses.
redact_ip(v) ==
  IF v.is = "v4" THEN [is |-> "192.0.2.", id |-> (Hash[v] % Slots["v4"]) + 1]
                 ELSE [is |-> "2001:db8::", id |-> Hash[v] % Slots["v6"]]

redact_address_text(v) ==
  IF v.is \in {"v4", "v6"} THEN redact_ip(v) ELSE pseudonym("value", v)

-----------------------------------------------------------------------------
\* The fields of each section by their treatment: "socket", "address" (a text),
\* "REDACTED", or the kind of a pseudonym.
Identity ==
  [container |-> {"context.target_container"},
   REDACTED  |-> {"context.target_pid", "context.proxy_error"}]

Network ==
  [socket    |-> {"dns.addresses", "routes.address", "tcp.address", "application.address"},
   address   |-> {"routes.gateway", "routes.source", "certificate.ip_addresses"},
   interface |-> {"routes.interface"},
   subject   |-> {"certificate.subject"},
   issuer    |-> {"certificate.issuer"},
   serial    |-> {"certificate.serial_number"},
   hash      |-> {"certificate.sha256"},
   dns       |-> {"certificate.dns_names"},
   REDACTED  |-> {"dns.error", "routes.error", "tcp.error", "connect.error", "tls.error",
                  "http.error"}]

Proxy ==
  [proxy    |-> {"proxies.value", "proxy_transport.selected_proxy"},
   socket   |-> {"proxy_transport.attempts.address"},
   REDACTED |-> {"proxy_transport.error", "proxy_transport.attempts.error"}]

PathErrors ==
  {"firewall.comment", "firewall.error", "mtu.error", "address_preference.error",
   "address_preference.policy_rules", "resolver.error", "network_manager.error"}

MutPath ==   \* mutant: the name of a link gets a kind of its own
  [table      |-> {"firewall.table"},
   chain      |-> {"firewall.chain", "firewall.relevant_base_chains"},
   socket     |-> {"mtu.address"},
   address    |-> {"resolver.global_servers", "links.servers"},
   domain     |-> {"resolver.global_domains", "links.domains"},
   link       |-> {"links.name"},
   interface  |-> {"connections.device"},
   connection |-> {"connections.name"},
   REDACTED   |-> PathErrors]

Path ==
  [table      |-> {"firewall.table"},
   chain      |-> {"firewall.chain", "firewall.relevant_base_chains"},
   socket     |-> {"mtu.address"},
   address    |-> {"resolver.global_servers", "links.servers"},
   domain     |-> {"resolver.global_domains", "links.domains"},
   interface  |-> {"links.name", "connections.device"},
   connection |-> {"connections.name"},
   REDACTED   |-> PathErrors]

PluginsAndDiagnosis ==
  [plugin   |-> {"plugins.name"},
   REDACTED |-> {"plugins.summary", "plugins.evidence", "plugins.error_kind", "plugins.error",
                 "diagnosis.likely_cause", "diagnosis.notes"}]

Sections == <<Identity, Network, Proxy, Path, PluginsAndDiagnosis>>

Fields(treatments) == UNION {treatments[t] : t \in DOMAIN treatments}

\* The host is the one field that others are rewritten from.
Names == {"target.host", "target.original", "target.url"}
ReportField == Names \cup UNION {Fields(Sections[s]) : s \in DOMAIN Sections}

\* A socket address is one by its type, an address text usually is one, and any
\* other field is a text; the host and the endpoint as given are always there.
Sockets == Network.socket \cup Proxy.socket \cup Path.socket
Addresses == Sockets \cup Network.address \cup Path.address
KindsOf(f) ==
  IF f \in Sockets THEN {"v4", "v6"}
  ELSE IF f \in Addresses THEN {"v4", "v6", "text"}
  ELSE {"text"}

ASSUME RedactionAssumption ==
  /\ Hash \in [Value -> Nat]
  /\ Slots \in [{"v4", "v6"} -> Nat \ {0}]
  /\ Originals \subseteq [ReportField -> Value \cup {Absent}]
  /\ \A r \in Originals :
       /\ \A f \in ReportField : r[f] # Absent => r[f] \in Value /\ r[f].is \in KindsOf(f)
       /\ \A f \in {"target.host", "target.original"} : r[f] # Absent

VARIABLES
  original,  \* the report before, fixed
  level,     \* "standard" or "strict", fixed
  report,
  section    \* the section that is redacted next, 6 at the end

redactionVars == <<original, level, report, section>>

RedactionInit ==
  /\ original \in Originals
  /\ level \in {"standard", "strict"}
  /\ report = original
  /\ section = 1

Replaced(treatment, v) ==
  IF v = Absent THEN Absent
  ELSE CASE treatment = "socket" -> redact_ip(v)
         [] treatment = "address" -> redact_address_text(v)
         [] treatment = "REDACTED" -> Redacted
         [] OTHER -> pseudonym(treatment, v)

Treatment(treatments, f) == CHOOSE t \in DOMAIN treatments : f \in treatments[t]

redact(treatments) ==
  [f \in ReportField |->
     IF f \in Fields(treatments) THEN Replaced(Treatment(treatments, f), report[f])
                                 ELSE report[f]]

\* target.original and target.url are built anew from the redacted host.
RedactIdentity ==
  /\ level = "strict"
  /\ section = 1
  /\ LET host == pseudonym("host", report["target.host"])
     IN report' = [redact(Identity) EXCEPT
          !["target.host"] = host,
          !["target.original"] = host,
          !["target.url"] = IF @ = Absent THEN Absent ELSE host]
  /\ section' = 2
  /\ UNCHANGED <<original, level>>

RedactSection ==
  /\ level = "strict"
  /\ section \in 2..5
  /\ report' = redact(Sections[section])
  /\ section' = section + 1
  /\ UNCHANGED <<original, level>>

RedactionNext == RedactIdentity \/ RedactSection

RedactionSpec == RedactionInit /\ [][RedactionNext]_redactionVars

-----------------------------------------------------------------------------
RedactionTypeOK ==
  /\ DOMAIN report = ReportField
  /\ section \in 1..6
  /\ level = "standard" => report = original

\* What one thing is called in several sections of a report.
SameThing ==
  {Addresses, {"routes.interface", "links.name", "connections.device"},
   {"resolver.global_domains", "links.domains"},
   {"proxies.value", "proxy_transport.selected_proxy"}, Names}

Collide(v, w) ==
  /\ v.is = w.is
  /\ \/ Hash[v] = Hash[w]
     \/ v.is \in DOMAIN Slots /\ (Hash[v] % Slots[v.is]) = (Hash[w] % Slots[v.is])

\* "Strict pseudonyms are deterministic within and across reports so two
\* reports can still be compared" (docs/output-contract.md:79): when the five
\* sections are through, no field that the tables treat holds what it held, a
\* field is there exactly if it was, and of the fields that may name one thing,
\* two have the same pseudonym if they named the same and, but for a collision
\* of hashes, only then; whichever sections they are in.
StrictComparable ==
  section = 6 =>
    /\ \A f \in ReportField : IF original[f] = Absent THEN report[f] = Absent
                                                ELSE report[f].is \notin {"v4", "v6", "text", "absent"}
    /\ \A fields \in SameThing \ {Names} : \A f, g \in fields :
         original[f] # Absent /\ original[g] # Absent =>
           /\ original[f] = original[g] => report[f] = report[g]
           /\ report[f] = report[g] => original[f] = original[g] \/ Collide(original[f], original[g])
    /\ \A f \in Names : report[f] \in {Absent, report["target.host"]}
==============================================================================
