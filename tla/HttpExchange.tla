----------------------------- MODULE HttpExchange ----------------------------
(***************************************************************************)
(* http_exchange_with_request and http_connect after the request is sent:  *)
(* one reads status lines, past informational responses, up to the final   *)
(* one, the other a single response with its headers.  The peer sends its  *)
(* bytes in any pieces, ends early, fails, or stalls until the timeout.    *)
(* What a BufReader reads ahead is dropped with it: after a HEAD exchange  *)
(* nothing reads on, and behind a CONNECT the target speaks second.        *)
(* A byte is a number: CR, LF, Other for text that is no status, or n for  *)
(* the text "HTTP/1.1 n" (one byte long here) of a status line.            *)
(***************************************************************************)
EXTENDS Naturals, Sequences, FiniteSets, FiniteSetsExt

CONSTANTS
  Codes,             \* status codes the peer may send
  MaxLine,           \* MAX_STATUS_LINE_BYTES = MAX_HEADER_LINE_BYTES
  MaxHeaders,        \* MAX_INFORMATIONAL_HEADER_BYTES
  MaxInformational,  \* MAX_INFORMATIONAL_RESPONSES
  Window,            \* bound: bytes under way at a time
  MaxSent            \* bound: bytes the peer sends

ASSUME HttpAssumption ==
  /\ Codes \subseteq 100..599
  /\ {MaxLine, MaxHeaders, MaxInformational, Window, MaxSent} \subseteq Nat

CR == 13
LF == 10
Other == 32
Byte == Codes \cup {CR, LF, Other}

VARIABLES
  method,   \* "HEAD": http_exchange_with_request, "CONNECT": http_connect
  sent,     \* every byte the peer sent so far
  closed,   \* the peer ended its side
  taken,    \* how many bytes were consumed
  at,       \* "status" and "headers" are the loops, "done" after them
  code,     \* status_code of the response being read, 0 before it is known
  count,    \* informational_count
  total,    \* `total` of drain_headers
  result    \* "none", "answered", "refused", "error", "timeout", "io"

vars == <<method, sent, closed, taken, at, code, count, total, result>>

Init ==
  /\ method \in {"HEAD", "CONNECT"}
  /\ sent = <<>>
  /\ closed = FALSE
  /\ taken = 0
  /\ at = "status"
  /\ code = 0
  /\ count = 0
  /\ total = 0
  /\ result = "none"

-----------------------------------------------------------------------------
Running == at # "done"

Send ==
  /\ Running
  /\ ~ closed
  /\ Len(sent) < MaxSent
  /\ Len(sent) - taken < Window
  /\ \E b \in Byte : sent' = Append(sent, b)
  /\ UNCHANGED <<method, closed, taken, at, code, count, total, result>>

Close ==
  /\ Running
  /\ ~ closed
  /\ closed' = TRUE
  /\ UNCHANGED <<method, sent, taken, at, code, count, total, result>>

\* read_until(LF) on take(MaxLine + 1): where the next line ends, by its LF,
\* by the limit, or by the end of the stream.
LineEnds(i) ==
  /\ i \in taken..Len(sent)
  /\ \/ i > taken /\ sent[i] = LF
     \/ i - taken = MaxLine + 1
     \/ i = Len(sent) /\ closed

Line(i) == SubSeq(sent, taken + 1, i)

\* What read_crlf_line accepts.
MutAccepted(line) ==   \* mutant: the limit off by one
  /\ Len(line) \in 2..MaxLine + 1
  /\ line[Len(line) - 1] = CR /\ line[Len(line)] = LF

Accepted(line) ==
  /\ Len(line) \in 2..MaxLine
  /\ line[Len(line) - 1] = CR /\ line[Len(line)] = LF

\* The code of a status line, 0 if it is none.
parse_http_status_line(line) ==
  IF Len(line) = 3 /\ line[1] \in Codes THEN line[1] ELSE 0

informational(c) == c \in 100..199 /\ c # 101

Finish(r) == at' = "done" /\ result' = r

\* read_crlf_line returns a line ending at i, with the least such i.
Reads(i) ==
  /\ LineEnds(i)
  /\ \A j \in taken..(i - 1) : ~ LineEnds(j)
  /\ taken' = i
  /\ UNCHANGED <<method, sent, closed>>

MalformedLine ==
  /\ Running
  /\ \E i \in taken..Len(sent) :
       /\ Reads(i)
       /\ ~ Accepted(Line(i)) \/ (at = "status" /\ parse_http_status_line(Line(i)) = 0)
  /\ Finish("error")
  /\ UNCHANGED <<code, count, total>>

\* A status line: final, one too many, or the start of headers to drain.
MutStatusLine ==   \* mutant: a response is counted without a limit
  /\ at = "status"
  /\ \E i \in taken..Len(sent) :
       /\ Reads(i)
       /\ Accepted(Line(i))
       /\ code' = parse_http_status_line(Line(i))
  /\ code' # 0
  /\ IF method = "HEAD" /\ ~ informational(code')
       THEN Finish("answered") /\ UNCHANGED <<count, total>>
       ELSE at' = "headers" /\ total' = 0 /\ UNCHANGED <<count, result>>

StatusLine ==
  /\ at = "status"
  /\ \E i \in taken..Len(sent) :
       /\ Reads(i)
       /\ Accepted(Line(i))
       /\ code' = parse_http_status_line(Line(i))
  /\ code' # 0
  /\ IF method = "HEAD" /\ ~ informational(code')
       THEN Finish("answered") /\ UNCHANGED <<count, total>>
     ELSE IF method = "HEAD" /\ count = MaxInformational
       THEN Finish("error") /\ UNCHANGED <<count, total>>
     ELSE at' = "headers" /\ total' = 0 /\ UNCHANGED <<count, result>>

\* After the blank line: the next response, or the verdict on the CONNECT.
Drained ==
  IF method = "HEAD"
    THEN at' = "status" /\ count' = count + 1 /\ UNCHANGED result
    ELSE /\ Finish(IF code \in 200..299 THEN "answered" ELSE "refused")
         /\ UNCHANGED count

MutHeaderLine ==   \* mutant: the blank line is seen before the limit
  /\ at = "headers"
  /\ \E i \in taken..Len(sent) :
       /\ Reads(i)
       /\ Accepted(Line(i))
       /\ total' = total + Len(Line(i))
       /\ IF Line(i) = <<CR, LF>> THEN Drained
          ELSE IF total' > MaxHeaders THEN Finish("error") /\ UNCHANGED count
          ELSE UNCHANGED <<at, count, result>>
  /\ UNCHANGED code

HeaderLine ==
  /\ at = "headers"
  /\ \E i \in taken..Len(sent) :
       /\ Reads(i)
       /\ Accepted(Line(i))
       /\ total' = total + Len(Line(i))
       /\ IF total' > MaxHeaders THEN Finish("error") /\ UNCHANGED count
          ELSE IF Line(i) = <<CR, LF>> THEN Drained
          ELSE UNCHANGED <<at, count, result>>
  /\ UNCHANGED code

\* The timer around the whole exchange, or an error of the connection.
Abandon(r) ==
  /\ Running
  /\ Finish(r)
  /\ UNCHANGED <<method, sent, closed, taken, code, count, total>>

Next ==
  \/ Send \/ Close
  \/ MalformedLine \/ StatusLine \/ HeaderLine
  \/ Abandon("timeout") \/ Abandon("io")

Spec == Init /\ [][Next]_vars

-----------------------------------------------------------------------------
(***************************************************************************)
(* The same responses read off the whole stream, without a reader: a line  *)
(* is the text up to an LF, a response starts where the stream does or     *)
(* after a blank line.                                                     *)
(***************************************************************************)
Ends == {i \in DOMAIN sent : sent[i] = LF}
Before(i) == {j \in Ends : j < i}
StartOf(i) == Max(Before(i) \cup {0})
LineAt(i) == SubSeq(sent, StartOf(i) + 1, i)
Blank(i) == LineAt(i) = <<CR, LF>>

\* The lines, named by their last byte, with which a response starts.
Heads == {i \in Ends : StartOf(i) = 0 \/ Blank(StartOf(i))}
CodeAt(i) == parse_http_status_line(LineAt(i))

WellFormed(i) ==
  /\ Len(LineAt(i)) <= MaxLine
  /\ StartOf(i) < i - 1 /\ sent[i - 1] = CR
  /\ i \in Heads => CodeAt(i) # 0

\* b is the blank line that ends the headers after status line h, within the
\* limit.
HeadersEnd(h, b) ==
  /\ b \in Ends /\ h < b /\ Blank(b)
  /\ \A j \in Before(b) : h < j => ~ Blank(j)
  /\ b - h <= MaxHeaders

\* The final status line of a HEAD exchange is i.
FinalStatus(i) ==
  /\ i \in Heads
  /\ \A j \in Before(i) \cup {i} : WellFormed(j)
  /\ ~ informational(CodeAt(i))
  /\ \A h \in Heads \cap Before(i) :
       informational(CodeAt(h)) /\ \E b \in Before(i) : HeadersEnd(h, b)
  /\ Cardinality(Heads \cap Before(i)) <= MaxInformational

\* The response to a CONNECT starts at line h and ends with the blank line b.
Response(h, b) ==
  /\ h \in Heads /\ Before(h) = {}
  /\ HeadersEnd(h, b)
  /\ \A j \in Before(b) \cup {b} : WellFormed(j)

\* Type invariant.
TypeOK ==
  /\ method \in {"HEAD", "CONNECT"}
  /\ sent \in Seq(Byte)
  /\ closed \in BOOLEAN
  /\ taken \in 0..Len(sent)
  /\ at \in {"status", "headers", "done"}
  /\ code \in Codes \cup {0}
  /\ count \in 0..MaxInformational
  /\ total \in 0..(MaxHeaders + MaxLine)
  /\ result \in {"none", "answered", "refused", "error", "timeout", "io"}

\* A HEAD exchange answers with the code of the final response in what the
\* peer sent, consumed up to that line and no further, and is an error
\* only if there is none, whatever pieces the bytes came in.
ExchangeAgrees ==
  method = "HEAD" =>
    /\ result = "answered" => FinalStatus(taken) /\ code = CodeAt(taken)
    /\ result = "error" => \A i \in Ends : ~ FinalStatus(i)

\* A tunnel is open exactly after a complete 2xx response, consumed to its
\* last byte; a complete response with another status is a refusal with that
\* status, anything else an error.
TunnelAgrees ==
  method = "CONNECT" =>
    /\ result \in {"answered", "refused"} =>
         \E h \in Ends : /\ Response(h, taken)
                         /\ code = CodeAt(h)
                         /\ result = "answered" <=> code \in 200..299
    /\ result = "error" => \A h, b \in Ends : ~ Response(h, b)

\* Whatever the peer sends, only so much of it is consumed: a peer that
\* never ends its informational responses or its headers is cut off.
BoundedReading ==
  LET limit(responses) == responses * (MaxLine + MaxHeaders) + MaxLine + 1
  IN taken <= limit(IF method = "HEAD" THEN MaxInformational ELSE 1)
==============================================================================
