------------------------------- MODULE Capture -------------------------------
(***************************************************************************)
(* read_bounded on both output pipes of a helper (command, probe::route    *)
(* and container_context have the same loop): read until end of file, keep *)
(* no more than a limit, drop and flag the rest.                           *)
(***************************************************************************)
EXTENDS HelperProcesses

CONSTANT Limit   \* output_limit, MAX_*_OUTPUT_BYTES, in chunks

ASSUME LimitAssumption == Limit \in Nat

VARIABLES
  reader,    \* the loop of a stream: "reading", "eof"
  kept,      \* chunks retained in `bytes`
  truncated  \* `truncated`

captureVars == <<reader, kept, truncated>>

CaptureInit ==
  /\ reader = [s \in Stream |-> "reading"]
  /\ kept = [s \in Stream |-> 0]
  /\ truncated = [s \in Stream |-> FALSE]

\* A chunk leaves the pipe.
Take(s) ==
  /\ reader[s] = "reading"
  /\ pipe[s] > 0
  /\ pipe' = [pipe EXCEPT ![s] = @ - 1]
  /\ UNCHANGED <<proc, holds, written, foreign>>

\* Mutants of Read: the chunk is kept whatever the limit; the loop ends as
\* soon as the limit is exceeded.
MutReadKeeps(s) ==
  /\ Take(s)
  /\ kept' = [kept EXCEPT ![s] = @ + 1]
  /\ truncated' = [truncated EXCEPT ![s] = @ \/ kept[s] = Limit]
  /\ UNCHANGED reader

MutReadStops(s) ==
  /\ Take(s)
  /\ kept' = [kept EXCEPT ![s] = IF @ < Limit THEN @ + 1 ELSE @]
  /\ truncated' = [truncated EXCEPT ![s] = @ \/ kept[s] = Limit]
  /\ reader' = [reader EXCEPT ![s] = IF kept[s] = Limit THEN "eof" ELSE @]

\* Keep the chunk or, at the limit, drop it.
Read(s) ==
  /\ Take(s)
  /\ kept' = [kept EXCEPT ![s] = IF @ < Limit THEN @ + 1 ELSE @]
  /\ truncated' = [truncated EXCEPT ![s] = @ \/ kept[s] = Limit]
  /\ UNCHANGED reader

MutReadEof(s) ==   \* mutant: the end of the helper ends the capture
  /\ reader[s] = "reading"
  /\ ~ Alive("leader") \/ (pipe[s] = 0 /\ Closed(s))
  /\ reader' = [reader EXCEPT ![s] = "eof"]
  /\ UNCHANGED <<helperVars, kept, truncated>>

ReadEof(s) ==
  /\ reader[s] = "reading"
  /\ pipe[s] = 0
  /\ Closed(s)
  /\ reader' = [reader EXCEPT ![s] = "eof"]
  /\ UNCHANGED <<helperVars, kept, truncated>>

MutAtEof ==   \* mutant: over the limit there is nothing to wait for
  \A s \in Stream : reader[s] = "eof" \/ truncated[s]

\* The loops of both streams are over.
AtEof == \A s \in Stream : reader[s] = "eof"

CaptureTypeOK ==
  /\ reader \in [Stream -> {"reading", "eof"}]
  /\ kept \in [Stream -> 0..Limit]
  /\ truncated \in [Stream -> BOOLEAN]

\* What a caller is given of the streams.
Output == [s \in Stream |-> [kept |-> kept[s], truncated |-> truncated[s]]]

\* What was kept is what the helper, and all that inherited its pipes, ever
\* wrote, cut at the limit; the cut is flagged exactly if something was lost.
Faithful ==
  \A s \in Stream :
    /\ kept[s] = (IF written[s] < Limit THEN written[s] ELSE Limit)
    /\ truncated[s] <=> written[s] > Limit
==============================================================================
