---------------------------- MODULE HelperEvidence ---------------------------
(***************************************************************************)
(* What the five callers of run_bounded make of what came of it: plugins   *)
(* (plugin::invoke_plugin), nft, tracepath, resolvectl and nmcli           *)
(* (probe::path).  Each turns the document its program printed into        *)
(* evidence, or else says what went wrong.  What a program prints is up to *)
(* it; its descendants share its pipes and print into the same document.   *)
(***************************************************************************)
EXTENDS BoundedCommand

VARIABLE evidence   \* [tool, by, status, error_kind], Unknown before

Unknown == [tool |-> "none", by |-> "none", status |-> "none", error_kind |-> "none"]

Pending == evidence = Unknown

\* failed_plugin, skipped_firewall, skipped_resolver, skipped_network_manager.
Failed(tool, kind) ==
  [tool |-> tool, by |-> "netwhy", status |-> "skip", error_kind |-> kind]

Told(tool, status) ==
  [tool |-> tool, by |-> tool, status |-> status, error_kind |-> "none"]

\* The helper was spawned, or spawning it failed and there is no process.
EvidenceInit ==
  /\ evidence = Unknown
  /\ \/ Init
     \/ /\ CaptureInit
        /\ proc = [p \in Proc |-> IF p = "leader" THEN "gone" ELSE "unborn"]
        /\ holds = [p \in Proc |-> {}]
        /\ pipe = [s \in Stream |-> 0] /\ written = [s \in Stream |-> 0]
        /\ foreign = "none" /\ wait = "pending"
        /\ result = "io" /\ reaper = "none"

\* Only after spawning does an error leave a task behind to reap the helper.
SpawnFailed == result = "io" /\ reaper = "none"

RunBounded == Next /\ UNCHANGED evidence

Tool == {"plugin", "nft", "tracepath", "resolvectl", "nmcli"}

\* All five tell a missing program from another error, and a timeout.
CommandFails ==
  /\ Pending
  /\ \E tool \in Tool :
       \/ result = "timeout" /\ evidence' = Failed(tool, "timeout")
       \/ result = "io" /\ evidence' = Failed(tool, "tool_failed")
       \/ SpawnFailed /\ evidence' = Failed(tool, "tool_missing")
  /\ UNCHANGED vars

Ended == Pending /\ result = "ok"

Truncated == \E s \in Stream : truncated[s]

MutOutputUsable(tool) ==   \* mutant: only a cut of stdout counts
  /\ Ended
  /\ ~ truncated["stdout"]
  /\ UNCHANGED vars

\* Truncation is looked at before the exit status, and that before the output.
OutputUsable(tool) ==
  /\ Ended
  /\ ~ Truncated
  /\ UNCHANGED vars

OutputTruncated ==
  /\ Ended
  /\ Truncated
  /\ \E tool \in Tool \ {"tracepath"} : evidence' = Failed(tool, "output_truncated")
  /\ UNCHANGED vars

\* The retained bytes of a plugin's stdout; its error_kind is its own.
Document ==
  [shape   : {"object", "unknown_field", "not_json"},
   version : {1, 2},
   name    : {"blank", "fits", "long"},
   summary : {"fits", "long"},
   status  : {"pass", "warn", "fail", "skip", "other"},
   error_kind : {"none", "tool_missing"}]

Valid(d) ==
  /\ d.shape = "object"
  /\ d.version = 1
  /\ d.name = "fits"
  /\ d.summary = "fits"
  /\ d.status # "other"

parse_plugin_document(d) ==
  IF Valid(d) THEN [Told("plugin", d.status) EXCEPT !.error_kind = d.error_kind]
              ELSE Failed("plugin", "protocol_error")

invoke_plugin ==
  /\ OutputUsable("plugin")
  /\ \/ evidence' = Failed("plugin", "tool_failed")
     \/ \E d \in Document : evidence' = parse_plugin_document(d)

\* parse_nft_output, inspect_resolver and inspect_network_manager: an exit
\* with an error (nft also tells permissions), a parse error, or evidence.
inspect(tool, errors) ==
  /\ OutputUsable(tool)
  /\ \/ \E kind \in errors : evidence' = Failed(tool, kind)
     \/ evidence' = Told(tool, "pass")

\* The last path MTU in the retained output, or that of the route; 0 for none.
Discovered == {0, 500, 1000, 1400}

suspicious_mtu(family, mtu, route) ==
  mtu < (IF family = "ipv6" THEN 1280 ELSE 576) \/ mtu < route

\* tracepath may fail, be cut off, or both, and still have found an MTU.
inspect_one_mtu ==
  /\ Ended
  /\ \E mtu \in Discovered, route \in Discovered, family \in {"ipv4", "ipv6"} :
       IF mtu = 0
         THEN \E kind \in {"parse_error", "probe_failed"} :
                evidence' = Failed("tracepath", kind)
         ELSE evidence' = Told("tracepath",
                IF suspicious_mtu(family, mtu, route) THEN "warn" ELSE "pass")
  /\ UNCHANGED vars

EvidenceNext ==
  \/ RunBounded \/ CommandFails \/ OutputTruncated
  \/ invoke_plugin
  \/ inspect("nft", {"tool_failed", "permission_denied", "parse_error"})
  \/ inspect("resolvectl", {"tool_failed", "parse_error"})
  \/ inspect("nmcli", {"tool_failed", "parse_error"})
  \/ inspect_one_mtu

evidenceVars == <<vars, evidence>>

EvidenceSpec ==
  /\ EvidenceInit
  /\ [][EvidenceNext]_evidenceVars
  /\ WF_vars(Sweep) /\ WF_vars(Deadline) /\ WF_vars(Finish)
  /\ WF_vars(ReapChild)

-----------------------------------------------------------------------------
\* The verdict of a plugin or a tool is taken over only when it is final, and
\* but for tracepath only on the whole of its output: it and everything that
\* inherited its pipes wrote what was kept and not a chunk more, on either
\* stream, now or later, and no process of its group still runs.  NetWhy speaks
\* of output over the limit only if there was some, and of a missing program
\* only if nothing ever ran.
VerdictOnWholeOutput ==
  /\ evidence.by \in Tool =>
       /\ \A s \in Stream : Closed(s)
       /\ \A p \in Proc : proc[p] # "group"
       /\ evidence.by # "tracepath" => \A s \in Stream : written[s] = kept[s]
  /\ evidence.error_kind = "output_truncated" => \E s \in Stream : written[s] > Limit
  /\ evidence.by = "netwhy" /\ evidence.error_kind = "tool_missing" =>
       proc["leader"] = "gone" /\ \A s \in Stream : written[s] = 0
==============================================================================
