------------------------------ MODULE Invocation -----------------------------
(***************************************************************************)
(* main: one invocation from its arguments to its exit code.  Parsing,     *)
(* options, the execution context (ContainerContext), the async runtime,   *)
(* the diagnosis or comparison and the writing to stdout may each fail;    *)
(* each failure becomes a JSON document or a text, and an exit code.  What *)
(* decides between the two is a scan of the raw arguments before parsing   *)
(* succeeded, and the parsed option afterwards.                            *)
(***************************************************************************)
EXTENDS ContainerContext

VARIABLES
  command,   \* "diagnose", "report", "compare", "completions", fixed
  flag,      \* a --json stands before any "--", fixed
  cli_json,  \* cli.json, once parsed
  phase,     \* what main does next: "parse", "validate", "context", "runtime",
             \* "run" (diagnosis, comparison or completions), "emit", "exited"
  pending,   \* what emit_text is to write
  stdout,    \* what it wrote and how that ended: [doc, end] with end "written",
             \* "broken_pipe" or "failed"
  stderr,    \* "none", "text" or "json"
  exit       \* the exit code, 9 before the exit

callVars == <<command, flag>>
runVars == <<cli_json, phase, pending, stdout, stderr, exit>>

\* A document: what it is, whether it is JSON, the exit code it goes with (and,
\* in JSON, names) and whether a redaction policy was applied.
Doc(kind, json, code, redacted) ==
  [kind |-> kind, json |-> json, exit_code |-> code, redacted |-> redacted]
NoDoc == Doc("none", FALSE, 9, FALSE)

ErrorReport == Doc("error", TRUE, 2, FALSE)

json_requested == flag \/ command = "report"

InvocationInit ==
  /\ Init
  /\ command \in {"diagnose", "report", "compare", "completions"}
  /\ command \in {"compare", "completions"} => selector = "none"
  /\ flag \in BOOLEAN
  /\ cli_json = FALSE
  /\ phase = "parse"
  /\ pending = NoDoc
  /\ stdout = [doc |-> NoDoc, end |-> "none"]
  /\ stderr = "none"
  /\ exit = 9

-----------------------------------------------------------------------------
Exits(code) == phase' = "exited" /\ exit' = code

Emits(doc) ==
  /\ phase' = "emit" /\ pending' = doc
  /\ UNCHANGED <<stdout, stderr, exit>>

\* emit_json_error, or a text and exit code 2.
Refuses(as_json) ==
  IF as_json THEN Emits(ErrorReport)
  ELSE /\ stderr' = "text"
       /\ Exits(2)
       /\ UNCHANGED <<pending, stdout>>

Continue(next) == phase' = next /\ UNCHANGED <<pending, stdout, stderr, exit>>

\* Mutant of ParsedJson: `report` keeps what its own --json said.
MutParsedJson == flag

\* `report` is an always-JSON command, whatever fails after the parsing.
ParsedJson == flag \/ command = "report"

\* parse_parser: valid arguments (completions has no --json), --help or
\* --version, which succeed whether or not their text could be printed, or an
\* error.
Parses ==
  /\ command = "completions" => ~ flag
  /\ cli_json' = ParsedJson
  /\ Continue(IF command \in {"compare", "completions"} THEN "run" ELSE "validate")

PrintsHelp ==
  /\ \E end \in {"written", "broken_pipe", "failed"} :
       stdout' = [doc |-> Doc("help", FALSE, 0, FALSE), end |-> end]
  /\ Exits(0)
  /\ UNCHANGED <<cli_json, pending, stderr>>

ParseFails ==
  /\ Refuses(json_requested /\ command # "completions")
  /\ UNCHANGED cli_json

parse_parser ==
  /\ phase = "parse"
  /\ Parses \/ PrintsHelp \/ ParseFails
  /\ UNCHANGED <<vars, callVars>>

validate_options ==
  /\ phase = "validate"
  /\ Continue("context") \/ Refuses(json_requested)
  /\ UNCHANGED <<vars, callVars, cli_json>>

\* prepare_context; NetWhy does not look at the world afterwards.
prepare_context ==
  /\ phase = "context"
  /\ at \notin {"running", "failed"}
  /\ Next
  /\ UNCHANGED <<callVars, runVars>>

ContextEnds ==
  /\ phase = "context"
  /\ \/ at = "running" /\ Continue("runtime")
     \/ at = "failed" /\ Refuses(cli_json)
  /\ UNCHANGED <<vars, callVars, cli_json>>

build_runtime ==
  /\ phase = "runtime"
  /\ Continue("run") \/ Refuses(cli_json)
  /\ UNCHANGED <<vars, callVars, cli_json>>

\* diagnose_with_context: a report, redacted if `report` asked for one, or an
\* invalid target.
run ==
  /\ phase = "run"
  /\ command \in {"diagnose", "report"}
  /\ \/ \E code \in {0, 1} :
          LET redact == command = "report"
          IN Emits(Doc("report", redact \/ cli_json, code, redact))
     \/ Refuses(cli_json)
  /\ UNCHANGED <<vars, callVars, cli_json>>

\* compare_files: differences are a result, not a failure.
run_compare ==
  /\ phase = "run"
  /\ command = "compare"
  /\ Emits(Doc("comparison", cli_json, 0, FALSE)) \/ Refuses(cli_json)
  /\ UNCHANGED <<vars, callVars, cli_json>>

run_completions ==
  /\ phase = "run"
  /\ command = "completions"
  /\ Emits(Doc("completions", FALSE, 0, FALSE))
  /\ UNCHANGED <<vars, callVars, cli_json>>

\* A reader that went away keeps the exit code; any other failure is an error
\* of its own, told on stderr.
emit_text ==
  /\ phase = "emit"
  /\ \E end \in {"written", "broken_pipe", "failed"} :
       /\ stdout' = [doc |-> pending, end |-> end]
       /\ stderr' = IF end # "failed" THEN stderr
                    ELSE IF pending.json THEN "json" ELSE "text"
       /\ Exits(IF end = "failed" THEN 2 ELSE pending.exit_code)
  /\ UNCHANGED <<vars, callVars, cli_json, pending>>

InvocationNext ==
  \/ parse_parser \/ validate_options
  \/ prepare_context \/ ContextEnds \/ build_runtime
  \/ run \/ run_compare \/ run_completions
  \/ emit_text

InvocationSpec ==
  InvocationInit /\ [][InvocationNext]_<<vars, callVars, runVars>>

-----------------------------------------------------------------------------
WantsJson == command # "completions" /\ (flag \/ command = "report")

\* Whatever fails and wherever: who asked for JSON, with --json or with the
\* command `report`, gets JSON documents and never prose, a complete document
\* names the exit code of the process, and but for --help 0 or 1 is never the
\* code of an invocation that could not do what it was asked; a diagnosis that
\* is printed was made in the one context that was selected, and `report`
\* redacted it.
OutputMatchesExit ==
  phase = "exited" =>
    /\ exit \in {0, 1, 2}
    /\ stdout.end = "written" => exit = stdout.doc.exit_code
    /\ exit # 2 =>
         /\ stdout.doc.kind \notin {"none", "error"}
         /\ stdout.end = "failed" => stdout.doc.kind = "help"
    /\ WantsJson /\ stdout.doc.kind # "help" => stdout.doc.json /\ stderr # "text"
    /\ stdout.end = "none" => stderr = "text"
    /\ stdout.doc.kind = "report" =>
         /\ at = "running"
         /\ self = ContextOf(pinned) /\ (selector = "none" <=> pinned = 0)
         /\ stdout.doc.redacted <=> command = "report"
==============================================================================
