# Verification of NetWhy

NetWhy (`src/` in the repository) explains why a host cannot reach a target. One
invocation selects an execution context, resolves the target, probes routes,
TCP and the application protocol with bounded timeouts, runs helper processes
and plugins, and condenses the evidence into one diagnosis and one exit code.
This directory holds TLA+ models of the parts whose correctness depends on
order, failure and concurrency, TLC configurations that check them on small
instances, and proofs that TLAPS checks for every value of their constants.

All paths below are relative to the repository's root; `src/command.rs:107`
means line 107 of that file.

## 1. Inventory

| Component | Source | State it keeps | Operations |
| --- | --- | --- | --- |
| Invocation, output | `main.rs`, `cli.rs`, `output.rs` | JSON mode, exit code | parse, dispatch, `run`, emit text or JSON |
| Targets | `target.rs` | none | parse one string |
| Execution contexts | `process_context.rs`, `container_context.rs`, `main.rs` | pinned files of a process, NetWhy's own namespaces and root | resolve a container, pin, verify, enter |
| Runtime commands | `container_context.rs` | a child process, two reader threads, a deadline | `run_runtime` |
| Helper commands | `command.rs`, `probe/route.rs` | a child process, two pipes, a timer | `run_bounded`, `run_command` |
| Pipeline | `lib.rs` | the evidence of finished stages, then the report | `diagnose_with_context` |
| Resolver probe | `probe/dns.rs` | none | `resolve` |
| Fan-outs | `probe/tcp.rs`, `probe/route.rs`, `probe/path.rs`, `plugin.rs` | a `JoinSet`, the iterator of pending inputs, a slot per input | spawn, join, return |
| Proxy selection | `proxy.rs` | none | `plan` |
| Application probe | `probe/application.rs` | the address being tried, attempts so far | `probe`, `probe_via_proxy` |
| Path evidence | `probe/path.rs` | the sections and matches read so far | firewall, MTU, resolver, NetworkManager |
| Plugins | `plugin.rs` | none | `collect`, `invoke_plugin` |
| Explanation | `diagnosis.rs` | the report | `explain` |
| Redaction | `redaction.rs` | the report, rewritten in place | `apply` |
| Comparison | `compare.rs` | the list of changes, whether it is cut | `compare_files`, `diff_values` |

How they interact. `main` prepares the context before any async runtime exists
(changing namespaces needs a single thread), using runtime commands for
containers. It then runs the pipeline on a multi-threaded runtime: DNS; then
`join!` of routes, TCP and the proxy plan; then `join!` of path evidence,
plugins and the application probe, which consumes the TCP evidence or the plan.
Routes, TCP, MTU and plugins are fan-outs of spawned tasks; routes, MTU, path
evidence and plugins run helper commands. `explain` reads the assembled report
and writes the diagnosis; the exit code of the process is the report's.

What is hard here, and where (PROJECT.json lists each hazard at its line):

* tasks that end in any order, time out, or panic, joined into slots while more
  are spawned;
* TCP evidence that is stale when the application reconnects; evidence that
  differs between addresses, families and a proxy's endpoints;
* a helper that forks, leaves its process group, keeps pipes open, overfills
  them or hangs, against one deadline; pids that are given out again;
* containers that restart and pids that are reused while a context is pinned;
* limits (addresses, output, header lines, changes) at their boundary;
* a SOCKS5 conversation that the proxy ends, shortens or contradicts anywhere;
* evidence read from the output of tools that may be cut off, partial, or written
  by a descendant, and listings that a line-by-line pass may misattribute;
* a failure anywhere between the raw arguments and the last byte of output, and
  what JSON mode and the exit code say of it.

What makes the components correct:

* Fan-outs: every input is probed and reported at its own position, within the
  limit of concurrency, and the function returns.
* Commands: the call returns at its deadline, its output is complete or flagged,
  nothing of the helper's group survives, nobody else is signalled.
* Contexts: diagnostics run wholly in the context of one process, or not at all.
* Pipeline and explanation: failure is reported only if the target did not do
  what was asked, success only if it did; the class of a failure is the deepest
  layer reached; whether and why a direct diagnosis fails does not depend on the
  order in which addresses are listed and connect; there is always a verdict.
* Evidence of plugins and tools: taken over only from output that is whole and
  final; what NetWhy says in their place is true of the process.
* Invocation: output, channel and exit code agree, and JSON is answered to who
  asked for it, whatever failed.
* Resolver, proxy selection, HTTP and SOCKS exchanges, firewall matches,
  resolver listings, redaction, comparison: functions of their input with limits
  and precedence rules, each checked against a plain definition.

## 2. Modules

```
OrderedEvidence  <-- implemented by --  Fanout  <- MCFanout, FanoutProofs

Diagnosis   ApplicationProbe          HelperProcesses
      \        /                            |
       Pipeline                          Capture <- CaptureProofs
    <- MCPipeline,                       /      \
       PipelineProofs        BoundedCommand    RuntimeCommand
                         (both implement HelperCall)
                                   |            <- MCRuntimeCommand,
                            HelperEvidence         RuntimeCommandProofs
                            <- MCBoundedCommand,
                               HelperEvidenceProofs

ContainerContext                      HttpExchange    Socks5
       |                                       \       /
  Invocation                                <- MCHttpExchange,
  <- MCContainerContext,                       ExchangeProofs
     InvocationProofs

ProxySelection   Resolver   Firewall    Resolvectl   Redaction   Compare
 <- MCProxy..        |     <- MCFirewall     |           |     <- MCCompare
       \____________|___________|____________|___________|_________/
                    <- MCEvidence, EvidenceProofs
```

`Positions` has the two operators by which `ProxySelection`, `Resolvectl` and
`Compare` say which elements a loop collects from a list, and in which order.

**OrderedEvidence** is what a fan-out promises its caller: one piece of evidence
per input, in input order, delivered once all are observed.

**Fanout** is `connect_all_with` and `inspect_all_with`. `next` is the iterator
`pending`, `tasks` the `JoinSet`, `results` the vector of `Option`s, `report`
the returned vector; `outcome` is how each spawned future ended. `Spawn` is an
iteration of the first loop, `Join` an iteration of the `while let` loop
(including the spawn of the next input), `Return` the final `zip`. `Complete`,
`Expire` and `Stop` are the ends of a task, on the runtime's threads at any time
in between. `plugin::collect` and `inspect_mtu` are this loop with every input
spawned at once, that is with `MaxConcurrent >= N`.

**Diagnosis** holds `explain` and all it calls as operators over the part of a
report they read. Texts are left out, except whose error becomes the likely
cause (an address), because the choice of it depends on order.

**ApplicationProbe** is the loop of `probe` and `probe_via_proxy`: `position` is
the loop's place in `candidates`, `stage` the await it is suspended at. An
action per outcome of each await; `Push` is the end of an iteration with all it
does: both attempt vectors, the break, the next address. The stage `connect`
through a proxy stands for its TCP connection, its TLS and the CONNECT or SOCKS5
negotiation, which all end in success or in one failed attempt.
`served` and `progress` are ghosts: what the target really did, and the stages
reached. A forward proxy may answer 407 itself; a 407 of the target behind a
forward proxy cannot be told apart from it and is not modelled.

**Pipeline** is `diagnose_with_context`: `phase` is the await it is at, `joined`
the completed futures of the current `join!`. The second phase is interleaved
step by step with the application probe. An invalid explicit proxy URL and too
many plugins, which would make `plan` or `collect` return an error, are refused
by `validate_options` before, so those paths are not in the model.

**HelperProcesses** is external: the helper, its descendants, pipes, the process
group and pid reuse, as the kernel has them. A group's id stays reserved while
its leader is not reaped or a member is alive. **Capture** is `read_bounded`, of
which the program has three copies, on two pipes. Output is counted in chunks.

**HelperCall** is what a run of a helper promises its caller, `run_bounded`,
`run_command` and `run_runtime` alike: one answer, given when nothing of the
helper's group runs any more, and with an "ok" the output as it was written, cut
at the limit. The promise goes on after the answer. The models implement it with
the running members of the group as `members`, and as `given` the buffers of the
two streams once the result is "ok".

**BoundedCommand** is `command::run_bounded`, and its copy in `probe/route.rs`.
The three futures of `try_join!` run in one task: `Reap` and `Sweep` are the two
halves of one poll of `wait_for_exit` (the kernel may act between them, the task
does nothing else, see `Polling`), `Drain` a poll of a reader, `Deadline` and
`CaptureFails` the two error arms, `ReapChild` the spawned reaper.

**HelperEvidence** is what the five callers of `run_bounded` make of it:
`plugin::invoke_plugin`, and `inspect_firewall`, `inspect_one_mtu`,
`inspect_resolver` and `inspect_network_manager` of `probe/path.rs`. It adds to
`BoundedCommand` a helper that could not be spawned, and `evidence`, which is set
once the call is over: `CommandFails` for errors and the timeout,
`OutputTruncated`, then `invoke_plugin`, `inspect` and `inspect_one_mtu`. All but
tracepath look at both truncation flags before the exit status, and at that
before the output. Descendants share the pipes, so that what is read is not only
the helper's.

**RuntimeCommand** is `run_runtime`: `at` is where the calling thread is,
`ReaderStep` the two reader threads, `late` the elapsed timeout. `SeeExit`
leaves the zombie (WNOWAIT), `Sweep` signals, `Reap` waits. `Receive`,
`ReceiveTimesOut` and `ReceiveFails` are `receive_reader`.

**ContainerContext** is `prepare_linux_context` with `prepare_selected` and
`enter_with`. `born` is every process that ever ran, so that a process and its
pid are different things; `fds` is the process each context file was really
opened from. `Resolve`, `OpenDirectory`, `Open`, `ReadEnvironment`, `Verify`,
`EnterMount`, `ChangeRoot` and `EnterNetwork` are the code's steps in its order;
`Fail` is every `?`. NetWhy's own side of each comparison does not change and is
the constant `Ours`.

**Invocation** is `main`: `parse_parser`, `validate_options`, `prepare_context`
(the steps of `ContainerContext`), `build_runtime`, `run`, `run_compare`,
`run_completions`, and `emit_text`, each of which may fail. Before the parsing
succeeded, and for the options, JSON mode is the scan of the raw arguments
(`json_requested`), afterwards the parsed option (`ParsedJson`); `command` and
`flag` are what the arguments say. A write to stdout succeeds, meets a reader
that went away, or fails otherwise. Writes to stderr are taken to succeed
(`eprintln!` panics if they do not), and `serde_json` to serialize its own types.

**HttpExchange** is `http_exchange_with_request` and `http_connect`, which share
`read_crlf_line`, `parse_http_status_line` and `drain_headers`. The peer's bytes
arrive one by one, so that every splitting of a response is covered; `taken` is
how far the reader consumed. `StatusLine`, `HeaderLine` and `MalformedLine` are
the ways one call of `read_crlf_line` goes on. In `Pipeline` all of this is the
one stage `http` (or part of `connect`).

**Socks5** is `socks5_connect` with `socks5_authenticate` and
`read_socks5_response`: `reading` and `needed` are the `read_exact` under way,
`replies` all that the proxy sent, in any pieces and of any value. `RequestFails`
and `WriteRequest` are the two ends of `socks5_request`, whose choice of a
destination is `Request` in `ProxySelection`. In `Pipeline` it is part of the
stage `connect`. **MCHttpExchange** checks both conversations, one per behaviour.

**Resolver** is `probe::dns::resolve`; `Collect` is an iteration of the loop in
`resolved_result`.

**ProxySelection** is `proxy_environment_from_lookup` of `lib.rs`
(`proxy_environment`, the variables that a context keeps of the environment: an
empty one or one that is not UTF-8 is as good as absent), `proxy::plan`
(`Select`), `resolve_proxy`, and the destination that `socks5_request` or a
`CONNECT` names (`Request`), because the requested address family is a promise
that the last three keep together. A target's
`literal` is `literal_address`: the url crate makes the host of a non-special
scheme opaque, so that it is missing for an IPv4 address in a `tcp://` URL.

**Firewall** is `inspect_firewall` with the pass of `parse_nft_ruleset`:
`ReadChain` and `ReadRule` are the two kinds of entries of the loop,
`rule_applicability`, `family_applicability` and `evaluate_match` operators of
the same names. In a ruleset chains come before their rules, as nft prints them;
a base chain may have no policy, which the code allows for and nft does not
print; an expression is a match, a verdict, a neutral statement or another.

**Resolvectl** is `parse_resolvectl_status` under `inspect_resolver`: an action
for each kind of line. `continuation` is the field that a line without a colon
belongs to. Lines are given as words, and the blanks of a field's name are
written as `_` (`DNS_Servers`); "DNS Domains" and "DefaultRoute setting" are
other spellings of two fields and left out.

**Redaction** is `redaction::apply`: for every section a table of the treatments
the strict policy knows with the fields that get them, and an action per section.
The one thing that is not a table is a path error, whose text is replaced by its
kind (`PathErrors`). The hash is a function,
not assumed to be injective. **Compare** is `compare_files` with the recursion of
`diff_values` as a stack of paths; `Visit` is one call.

**MCEvidence** puts the six sequential machines side by side, one per behaviour,
so that one run checks each over all its inputs.

## 3. Runs

| Run | What it asks | Bounds | States |
| --- | --- | --- | --- |
| `Fanout` | limit, no idle place, faithful report, return, refinement of `OrderedEvidence` | 4 inputs, 2 places | 3 thousand |
| `Pipeline` | truth of the verdict, class, same failure in every order of listing and completion, tries, termination | 3 target addresses of two families, 2 proxy addresses, all modes, plans and schemes, 2 HTTP codes, 3 TCP errors | 1.25 million |
| `PipelineForwardProxy` | exit code 0 means reachable | same | violated |
| `BoundedCommand` | complete capture, empty group, drained pipes, return, verdicts only on whole and final output, refinement of `HelperCall` | 2 descendants, pipes of 1 chunk, 3 chunks written, limit 1 | 348 thousand |
| `BoundedCommandRecycledId` | signals reach only the helper's group | same, 2 chunks | violated |
| `RuntimeCommand` | signals, return, refinement of `HelperCall` (with it complete capture and empty group) | same, 3 chunks | 138 thousand |
| `ContainerContext` | one process, restarts noticed, output and exit code of every invocation | 2 pids, 3 processes of 4 shapes, all commands | 2.3 million |
| `HttpExchange` | agreement with the responses, and with the SOCKS5 grant, of the whole stream, bounded reading | lines of 3 bytes, headers of 7, 1 informational response, 3 codes, 16 bytes of which 4 under way; SOCKS5 octets 0 to 5, addresses of 1 and 2 bytes, 11 bytes | 2.7 million |
| `Evidence` | address family, exact bypass; first usable addresses, exact truncation; soundness of firewall matches; attribution of servers; comparability after redaction; exact differences | proxies: addresses of 2 and 3 bits, every prefix and one beyond, every assignment of the http variables (empty and not UTF-8 included), an upper-case NO_PROXY of every kind over the lower-case one, limit 2; lookups: up to 5 of 4 addresses, limit 2; rules of up to 2 of 11 predicates with 5 tails in 4 families, 1 or 2 addresses; listings of 3 of 12 lines after 3 openings; reports with every two values in fields that may name one thing; reports of 2 sections, limit 2 | 2.25 million |
| `ProxySelectionLiteral` | matching literals stay valid | as in `Evidence` | violated |
| `FirewallIndirect` | indirect control flow leaves evidence incomplete | as in `Evidence` | violated |
| `ComparisonTruncated` | truncated means that more differences existed | as in `Evidence` | violated |

Why the bounds are enough. Four inputs over two places have a full first round,
joins that spawn, and joins after the iterator is exhausted. Three addresses
over two families give every pattern of working and failing families and mixed
errors; two proxy addresses give every mixture that one attempt cannot show. Two
descendants let one stay in the group while the other escapes; a limit of one
chunk with two written has the exact boundary and one beyond it; a third shows
whether a pipe is still drained beyond the limit; a pipe of one chunk is full at
once. Two pids and three processes allow a restart under
another pid, a restart under the same pid, and a bystander with a reused pid.
In `HttpExchange` a bare status line has exactly the length limit and one header
line with the blank line fits the header limit where two do not; 16 bytes hold
one informational response more than allowed. SOCKS5 has wrong versions, methods
and address types, each kind of address, names of no, one and two bytes, and
bytes beyond the grant. In `Evidence` lookups are under, at and over the limit
with duplicates on either side; two addresses of the same and of different
families show predicates that each hold for another one; three lines after a
section that already has a server can end, continue, replace or malform it; two
values in two fields show any lost or invented correlation, and two of the
addresses collide; two sections with arrays, durations and changed containers
give up to four differences against a limit of two.
Deadlock checking is off everywhere because every modelled call ends.

Every property has a mutant in PROJECT.json: a plausible bug in one definition
(the `Mut...` operators beside the originals) that makes TLC violate it.

What the five violated runs show:

* `PipelineForwardProxy`. docs/output-contract.md:99 promises that exit code 0
  means the target is reachable. An HTTP target through a forward proxy with two
  addresses can end with exit code 0 without being reached: over one address the
  exchange fails after the proxy was connected to (its transport passes), over
  the other the proxy itself answers 407. `proxy_auth_rejected`
  (`src/diagnosis.rs:87`) requires the whole transport to have failed, so the
  407 is reported as an HTTP status of the server. `ReachabilityVerdict`, which
  holds, states the same promise for everything but forward proxies, and for
  all cases that failure is never reported of a target that was served.
* `BoundedCommandRecycledId`. `wait_for_exit` (`src/command.rs:107`) reaps the
  helper before it signals the group, and the deadline signals the same id
  again. After the reaping and with an empty group the id may belong to someone
  else. `run_runtime` uses WNOWAIT and has the property; it is proved below.
* `ProxySelectionLiteral`. docs/design.md:131: with a family flag and a proxy
  that resolves remotely "an address literal remains valid when it matches".
  `tcp://192.0.2.1:443` with `--ipv4` and an HTTP proxy is refused all the same,
  because `resolve_proxy` (`src/proxy.rs:139`) relies on `literal_address`.
  `probe/dns.rs:27` parses the host again where it needs the literal.
* `FirewallIndirect`. docs/design.md:83: "unsupported expressions and indirect
  control flow make the result `possible` or `incomplete`". A rule whose verdict
  comes from a verdict map has none that `extract_verdict` knows and is passed
  over (`src/probe/path.rs:268`) before its applicability is considered: the
  evidence says nothing of it and is called complete. `FirewallSound`, which
  holds, states what is promised of the rules that have a verdict. The run needs
  a base chain without a policy: a relevant policy sets `incomplete` by itself
  (`src/probe/path.rs:240`), and nft prints one for every base chain. So the
  code reads such a ruleset against its document, but with what nft prints now
  the policy covers it up.
* `ComparisonTruncated`. docs/output-contract.md:83: "`truncated` states whether
  more existed". The limit is tested (`src/compare.rs:161`) before it is known
  whether two unequal values differ in anything but durations, so that
  `truncated` may be set although every difference is listed. `ComparedExactly`,
  which holds, has the other direction: what is left out is never kept quiet.

## 4. Fairness

A network, a helper, a plugin or a target is never assumed to do anything.
Progress is assumed of what NetWhy itself schedules: the runtime polls ready
tasks, threads run, and timers fire.

* `Fanout`: weak fairness of `Spawn`, `Join`, `Return` and of `Expire`, the
  timer inside each task; none of `Complete` or `Stop`.
* `Pipeline`: of the completion of each stage, each of which is bounded by the
  operation timeout inside it (for the fan-outs that is what `Returns` shows,
  for commands `ReturnsAndReaps`), of `Fork` and `Report`, and in the
  application probe only of its timers (`TimesOut`).
* `BoundedCommand`: of `Deadline`, `Sweep`, `Finish` and `ReapChild`. Nothing of
  the helper, not even that it dies by itself or is read from.
* `RuntimeCommand`: of the calling thread's steps, the clock and the reaper; not
  of the reader threads.
  `HelperEvidence` adds no fairness: that the caller goes on is not needed for
  the call to return.
* `ContainerContext` and `Invocation` have no liveness property: their only waits
  are runtime commands and the pipeline. `HttpExchange`, `Socks5`, `Resolver` and
  `ProxySelection` are each under one timer, whose effect on the call is `Ends`
  in `Pipeline`. `Firewall`, `Resolvectl`, `Redaction` and `Compare` are loops
  over finite data.

The reapers outlive their call; if the whole program ends first
(`shutdown_runtime` waits for nothing), init reaps the child.

## 5. Proofs

Each theorem below holds for every value of the constants, under the
assumptions its component declares, which TLC evaluates on the instances it runs.
All are laid out alike: `Init => IInv`, `IInv /\ [Next]_vars => IInv'` with one
step per action, `IInv => property`, and a temporal step that combines them.

| Assumption | What it says, and why the code justifies it |
| --- | --- |
| `FanoutAssumption` | at least one task at a time: the limits are positive literals |
| `HelperAssumption`, `LimitAssumption` | sizes are naturals, the helper is a process of its own |
| `ContextAssumption` | the shapes of processes |
| `AnswersAssumption`, `AddressAssumption`, `CodesAssumption` | a successful answer has an address, every address a family; a status code is between 100 and 599, which `parse_http_status_line` enforces |
| `HttpAssumption` | limits are naturals, codes as above |
| `OctetAssumption`, `AddressBytesAssumption` | SOCKS5's constants are octets; an IP address has 1 to 16 of them |
| `ResolverAssumption` | every address has a family, a lookup returns a sequence, the limit is positive |
| `FirewallAssumption` | of what nft prints, that each chain comes once and before its rules (not that base chains have a policy: the theorems hold without); a literal name stands for itself only |
| `RedactionAssumption` | the kinds of values that the types of a report let a field hold; at least one slot to hash into. Hashes may collide |
| `CompareAssumption` | a report is a finite tree of objects and arrays under a root object, whose keys are sorted (serde_json's map) |
| `TargetAssumption`, `AddressAssumption`, `MaxAddressesAssumption` | of `ProxySelection`: a literal is an address of a family; addresses are numbers of the family's width |
| `WidthAssumption`, `EnvironmentAssumption` | widths are naturals; a proxy variable is unset, empty, not UTF-8, invalid or a URL of a known scheme, NO_PROXY one of the first three or a text with entries; an entry of NO_PROXY is `*`, a network or a text, which split at its dots has at least one label; no host ends with a network's text, because that has a slash |
| `ListingAssumption` | a line continues a field or another such line, and never the current server, which is only one |

* **FanoutProofs**: `FanoutTypeOK`, `FanoutBounded`, `FanoutWorkConserving`,
  `FanoutFaithful`, `FanoutRefines`. No property of the report is inductive,
  because the report is made from slots that were filled many steps earlier.
  `IInv` adds that a filled slot is the outcome of its own input
  (`SlotsMatchOutcomes`), how far the iterator is while the first loop runs
  (`FillingCount`), and that nothing is returned before every task was joined
  (`ReturnsLast`). `FanoutRefines` is the safety half of the refinement: initial
  states and steps of `Fanout` are those of `OrderedEvidence` or stutters.
* **CaptureProofs**: lemmas that the two command modules share. `Accounted`
  says of each stream that every chunk written is in the pipe, was kept, or was
  dropped beyond the limit, and that end of file is only seen on an empty pipe
  with no writer. Every action of the helper and every read preserve it.
* **RuntimeCommandProofs**: `RuntimeTypeOK`, `RuntimeOnlyOwnGroup`,
  `RuntimeGroupTerminated`, `RuntimeFaithfulCapture`. `OwnPid` is what the WNOWAIT
  in `child_has_exited` buys: until `child.wait()` the helper is unreaped, so its
  pid, and with it the group's id, cannot be given to anyone else.
  `BoundedCommand` lacks exactly this fact, which is why the theorem has no
  counterpart there. `RuntimeImplementsCall`: a call that fails while it polls
  empties the group in the step that answers; every later answer finds it empty
  from the sweep on. The answer "ok" is given when stderr was received, and
  `Control` remembers that stdout had been. The run checks group and capture as
  part of `ImplementsHelperCall`.
* **HelperEvidenceProofs**: `BoundedTypeOK`, `BoundedFaithfulCapture`,
  `BoundedGroupTerminated`, `BoundedDrained`. `Control` relates the program
  counter to the helper: once the group was signalled it has no member, and
  since only members fork into it, it never gets one again. Then
  `EvidenceOnWholeOutput`: the verdict is given after the call, while the
  property speaks of all time after it. `Justified` relates the evidence to the
  result and the truncation flags, and the invariant of the call says that a
  result "ok" has both pipes at their end, without a writer, for ever; so nothing
  can be added to what was judged. A helper that was never spawned
  (`NothingRan`) is the second kind of initial state. `EvidenceImplementsCall`
  has every step of the call and of its callers as a `Work`, a `Return` or a
  stutter of `HelperCall`. `HelperWorks` (in `CaptureProofs`) is its lemma about
  the helper: it never shrinks an output, and adds nothing to one that has no
  writer, which is why an output once given is final.
* **InvocationProofs**: `ContextTypeOK`, `ContextOneProcess`,
  `ContextRestartNoticed`. `FilesOfPinned` says that files opened through the
  pinned directory are those of the process it was opened on, whatever has its
  pid now; `EnteredSoFar` which of the namespaces were entered at each step;
  `SamePid` that the process re-resolved is the one pinned. `InvocationPrepares`
  shows that an invocation is a behaviour of `ContainerContext` with other steps
  around it, which carries these theorems over. `InvocationOutputMatchesExit` then
  needs what is decided before the output is written (`Course`): the parsed JSON
  mode is what the raw arguments asked for, only documents that name their exit
  code reach `emit_text` (`Emittable`), and the diagnosis runs only when the
  context is entered.
* **PipelineProofs**: `PipelineTypeOK`, `PipelineTries`, `PipelineClassMatches`,
  `PipelineReachability`, `PipelineOrderIndependent`, all from `PInv`. The
  verdict is read off the attempts, the properties speak of what the target did
  and of how far the attempts got, and none of these is remembered by the other.
  So `AppInv` follows the loop: the attempts are the candidates tried so far, one
  each, in order, and all but the last failed (`Tried`); the await the loop is
  suspended at is consistent with that (`Where`); and the ghosts `served` and
  `progress` are what the attempts say (`Ghosts`, `Proxied`). `Gathered` and
  `Selected` say what the loop was started with, `Explained` that the verdict is
  `explain` of the report as it is now. `OrderIndependent` compares a diagnosis
  with those that would have been made had the addresses (those that the
  resolver's limit keeps) been listed and connected in any other order, the addresses not tried in this one behaving in
  any way. The order does decide which evidence there is, because the probe sorts
  by completion and stops at the first reachable address: a failing address that
  completes first makes a warning (`APPLICATION_ADDRESS_PARTIAL`) where behind a
  working one it is not tried and the result is `CONNECTIVITY_OK`. What is proved
  is that it cannot make a failure of a success, nor one failure of another: if
  an attempt succeeded, some attempt succeeds in every order (`AttemptsMade`); if
  all failed, all candidates were tried and are in every order, and `explain`
  reads failed attempts as a set (`ReadAsSets`, `SameFailure`). The comment at
  `src/diagnosis.rs:396` claims the latter of the failure's class and cause.
* **ExchangeProofs**: `HttpTypeOK`, `HttpBoundedReading`, `HttpExchangeAgrees`,
  `HttpTunnelAgrees` from `HInv`; `Socks5TypeOK`, `SocksAgrees` from `SocksInv`.
  The properties compare the reader's answer with the whole byte stream, in which
  the reader has only come so far. `Reader` says for every place of the reader
  which lines of the stream so far are well formed, which start a response and
  where its headers end; what was read does not change when the peer sends more.
  `Budget` combines the three limits into one bound. `Client` is the same for the
  replies of a SOCKS5 proxy: how much of its handshake, and then of its grant,
  was followed.
* **EvidenceProofs**, one section for each of the six sequential parts:
  * *Resolver*: `LookupTypeOK`, `LookupResolvedExactly`. `Collected` says that
    after `n` positions of the answer the kept addresses are its first usable
    ones, each at its rank, and that `seen` holds exactly the usable addresses
    met. The loop has two ends, which are two lemmas: every position was looked
    at (`ExhaustedIsExact`), or one address too many was found (`CutIsExact`).
  * *Firewall*: `FirewallTypes`, `FirewallEvidence`. The pass remembers one thing,
    the relevant chains; a rule finds its chain among them exactly if sent
    packets enter it, because chains are printed once and first. The matches are
    judged against all addresses together, the property speaks of each: lemmas
    about every predicate carry one over to the other.
  * *Redaction*: `RedactionTypes`, `RedactedComparably`. Every field stands in one
    table, so `Progress` can say at every section which fields are replaced by
    the pseudonym of what they held in the original.
  * *Compare*: `ComparisonTypes`, `ComparedInOrder`. `Walked` says that every
    difference is listed, left out at the limit, or lies within a path that the
    walk still has to visit, and that all to be visited come after all that was
    passed; a path is visited once, and its children in order of their names.
  * *ProxySelection*: `ProxyFamily`, from `FamilyInv`: a plan that is not refused
    leaves no name to the proxy when a family is selected. `ProxyBypass`: the code
    reads the variables that the context kept (`Kept`), the property what the
    environment holds; the code masks two numbers and compares bits, the property
    compares quotients by a power of two. `SameBits` relates the two for numbers of any width: a number
    below `2 ^ n` is determined by its n bits. That is an induction; the library's
    theorems for it take an operator, so `AllNaturals` states it of a set, from
    the well-foundedness of the naturals. `RangeTested` adds the mask, and
    `EndsWith` the same for names: a suffix, and a split of the name. `ProxyTypes`
    follows the plan from step to step (`PlanInv`).
  * *Resolvectl*: `ListingTypes`, `ServersAreAttributed`. `Attributed(n, ..)` says
    what the sections hold after `n` lines: the finished ones all that stands
    under earlier headers, the one under way (or the global one) what was said so
    far under the last; `continuation` is what the field that line `n` is under
    would be continued with.

What the proofs found in the models, not in the code: `Resolvectl` took a field
that is called "servers" for a server field, and `ApplicationProbe` left out a 407
of the target behind a forward proxy only because the run's status codes have
none. Neither shows within the bounds that TLC checks; both are corrected.

## 6. What is not proved, and not modelled

Only model-checked:

* all liveness (`Returns`, `Ends`, `ReturnsAndReaps`, and the fairness half of the
  refinement `ImplementsOrderedEvidence`): fairness and ENABLED are out of the
  prover's reach. `FanoutRefines` is the safety half.
* the combined type invariants `MCTypeOK` of `MCHttpExchange` and `MCEvidence`
  as such: their parts are `HttpTypeOK` and `Socks5TypeOK`, and `LookupTypeOK`,
  `FirewallTypes`, `RedactionTypes`, `ComparisonTypes`, `ProxyTypes` and
  `ListingTypes`. Running the machines side by side is the run's, not the
  program's.

Left out of the modelled components:

* texts: notes, explanations, suggestions, error messages other than the one
  chosen as likely cause, and the durations in the evidence;
* bytes that a `BufReader` reads ahead and drops: nothing reads on after a HEAD
  exchange, and behind a `CONNECT` the target speaks second;
* NO_PROXY entries and URLs as characters: an entry is given as what
  `split_no_proxy_port` and `parse_cidr` make of it;
* the inside of TLS and of certificates: a handshake succeeds, fails or is late;
* a 407 that a target behind a forward proxy answers with itself;
* in the container context, a container that restarts under the same pid
  between two looks: the code compares pids, so it cannot see that, and
  `RestartNoticed` excludes it by its precondition, which docs/design.md:95
  ("rejects a concurrent restart") does not make; `OneProcess` does not;
* a variable that stands twice in `/proc/<pid>/environ`: the first that is UTF-8
  counts;
* texts of rulesets, listings and documents below the level of expressions,
  lines and fields, and the sanitising of texts that are reported;
* the rows of gai.conf and of nmcli, which are split and copied one by one;
* which arguments are valid, a stderr that cannot be written, and a report that
  cannot be serialized.

Exceptions that properties state, because the code does not promise more:

* `FirewallSound` does not require a rule to be listed that compares the
  interface of an unknown route, or a wildcard, and says of an exact match
  against several addresses only that each predicate is true of one of them
  (`src/probe/path.rs:390`);
* `ServersAttributed` leaves out continued lines with an IPv6 address, whose
  colons make the reader take them for fields (`src/probe/path.rs:711`);
* `VerdictOnWholeOutput` lets tracepath's output be cut off: the code takes the
  last path MTU it has (`src/probe/path.rs:541`);
* `StrictComparable` allows that two values get one pseudonym when their hashes
  collide, which for IPv4 addresses means one of 254;
* `OutputMatchesExit` does not hold `--help` and `--version` to anything when
  they cannot be printed: clap's result is dropped and the exit code is 0.

Not modelled at all, because only formats are at stake: the rendering of
reports, the parsing of targets, the macOS route parser, packaging scripts.

## 7. Plan

Every safety property that a run checks is proved for its component. What is
worth doing next:

1. The connection between `Socks5`, `HttpExchange` and the stage `connect` of
   `ApplicationProbe` as a refinement, now that both sides have their invariants.
2. A limit on the tracepath processes of `inspect_mtu`, if the code gets one:
   its hazard has no property because there is none to state.
