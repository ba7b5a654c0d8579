---------------------------- MODULE ExchangeProofs ---------------------------
(***************************************************************************)
(* HttpExchange for every limit, window and set of status codes, and then  *)
(* Socks5 for every length of an address.  What the reader knows at every  *)
(* line, or at every read_exact, is what ExchangeAgrees, TunnelAgrees and  *)
(* Socks5Agrees say of the whole stream: which lines so far are well       *)
(* formed, which start a response, and where the headers of each end; how  *)
(* far the proxy's handshake and grant were followed.                      *)
(***************************************************************************)
EXTENDS HttpExchange, Socks5, FiniteSetTheorems, SequenceTheorems, WellFoundedInduction, TLAPS

\* The responses that start up to byte t are informational and end by then.
PastHeads(t) ==
  \A h \in Heads : h <= t =>
    informational(CodeAt(h)) /\ \E b \in Ends : b <= t /\ HeadersEnd(h, b)

\* Between two responses.
AwaitsStatus ==
  /\ taken = 0 \/ Blank(taken)
  /\ method = "CONNECT" => taken = 0
  /\ method = "HEAD" => PastHeads(taken) /\ count = Cardinality(Heads \cap (1..taken))

\* Within the headers of the response that starts at line h.
DrainsHeaders(h) ==
  /\ h \in Heads /\ h <= taken
  /\ code = CodeAt(h)
  /\ total = taken - h /\ total <= MaxHeaders
  /\ \A j \in Ends : h < j /\ j <= taken => ~ Blank(j)
  /\ method = "CONNECT" => Before(h) = {}
  /\ method = "HEAD" =>
       /\ informational(code)
       /\ PastHeads(h - 1)
       /\ count = Cardinality(Heads \cap (1..(h - 1)))
       /\ count < MaxInformational

Reader ==
  /\ at = "done" <=> result # "none"
  /\ Running => /\ taken \in Ends \cup {0}
                /\ \A j \in Ends : j <= taken => WellFormed(j)
  /\ at = "status" => AwaitsStatus
  /\ at = "headers" => \E h \in Ends : DrainsHeaders(h)

\* How far the stream was read, by what is left to read.
Budget ==
  LET response == MaxLine + MaxHeaders
  IN /\ method = "CONNECT" => count = 0
     /\ at = "status" => taken <= count * response
     /\ at = "headers" => taken <= count * response + MaxLine + total
     /\ at = "headers" => total <= MaxHeaders
     /\ at = "headers" /\ method = "HEAD" => count < MaxInformational

HInv == TypeOK /\ Reader /\ Budget /\ BoundedReading /\ ExchangeAgrees /\ TunnelAgrees

------------------------------------------------------------------------------
\* A set of numbers has a least element, and if it has a bound a greatest one.
LEMMA LeastNumber ==
  ASSUME NEW S, S \subseteq Nat, S # {}
  PROVE  \E x \in S : \A y \in S : x <= y
<1> DEFINE less == {ss \in Nat \X Nat : ss[1] < ss[2]}
<1>1. IsWellFoundedOn(less, Nat)
  BY NatLessThanWellFounded DEF OpToRel
<1> HIDE DEF less
<1>2. PICK x \in S : \A y \in S : <<y, x>> \notin less
  BY <1>1, WFMin
<1>3. \A y \in S : x <= y
  <2> SUFFICES ASSUME NEW y \in S, y < x PROVE FALSE
    OBVIOUS
  <2>1. <<y, x>> \in Nat \X Nat /\ <<y, x>>[1] = y /\ <<y, x>>[2] = x
    OBVIOUS
  <2>2. <<y, x>> \in less
    BY <2>1, Zenon DEF less
  <2>3. QED
    BY <1>2, <2>2
<1>4. QED
  BY <1>3

LEMMA GreatestNumber ==
  ASSUME NEW S, S \subseteq Nat, S # {}, NEW n \in Nat, \A x \in S : x <= n
  PROVE  Max(S) \in S /\ \A x \in S : x <= Max(S)
<1> DEFINE bounds == {k \in Nat : \A x \in S : x <= k}
<1>1. bounds \in SUBSET Nat /\ n \in bounds
  OBVIOUS
<1>2. PICK k \in bounds : \A y \in bounds : k <= y
  <2> HIDE DEF bounds
  <2>1. QED
    BY <1>1, LeastNumber
<1>3. k \in S
  <2> SUFFICES ASSUME k \notin S PROVE FALSE
    OBVIOUS
  <2>1. \A x \in S : x \in Nat /\ x <= k /\ x # k
    BY <1>2
  <2>2. k > 0
    <3>1. PICK x \in S : TRUE
      OBVIOUS
    <3>2. x \in Nat /\ k \in Nat /\ x <= k /\ x # k
      BY <1>2, <2>1
    <3>3. QED
      BY <3>2
  <2>3. k - 1 \in bounds
    BY <2>1, <2>2
  <2>4. QED
    BY <1>2, <2>3
<1>4. k \in S /\ \A x \in S : k >= x
  BY <1>2, <1>3
<1>5. QED
  BY <1>4 DEF Max

\* A line starts after the nearest LF before it.
LEMMA StartOfLine ==
  ASSUME sent \in Seq(Byte), NEW i \in Ends
  PROVE  /\ StartOf(i) \in Before(i) \cup {0}
         /\ \A j \in Before(i) : j <= StartOf(i)
         /\ i \in 1..Len(sent) /\ StartOf(i) \in 0..(i - 1)
<1>1. Len(sent) \in Nat /\ DOMAIN sent = 1..Len(sent)
  BY LenProperties
<1>2. i \in 1..Len(sent) /\ Before(i) \subseteq 1..(i - 1)
  BY <1>1 DEF Ends, Before
<1> DEFINE S == Before(i) \cup {0}
<1>3. S \subseteq Nat /\ S # {} /\ i \in Nat /\ \A x \in S : x <= i
  BY <1>1, <1>2
<1>4. Max(S) \in S /\ \A x \in S : x <= Max(S)
  <2> HIDE DEF S
  <2>1. QED
    BY <1>3, GreatestNumber
<1>5. StartOf(i) = Max(S)
  BY DEF StartOf
<1>6. StartOf(i) \in Before(i) \cup {0} /\ \A j \in Before(i) : j <= StartOf(i)
  BY <1>4, <1>5
<1>7. i \in Nat /\ 1 <= i /\ (StartOf(i) = 0 \/ StartOf(i) \in 1..(i - 1))
  BY <1>1, <1>2, <1>6
<1>8. QED
  BY <1>2, <1>6, <1>7

\* The line after byte t, when t is 0 or an LF.
LEMMA NextLine ==
  ASSUME sent \in Seq(Byte), NEW i \in Ends, NEW t \in Ends \cup {0}, t < i,
         \A j \in Ends : j < i => j <= t
  PROVE  StartOf(i) = t
<1>1. /\ StartOf(i) \in Before(i) \cup {0}
      /\ \A j \in Before(i) : j <= StartOf(i)
      /\ i \in 1..Len(sent) /\ StartOf(i) \in 0..(i - 1)
  BY StartOfLine
<1>2. Len(sent) \in Nat /\ Ends \subseteq 1..Len(sent)
  BY LenProperties DEF Ends
<1>3. t = 0 \/ t \in Before(i)
  BY DEF Before
<1>4. StartOf(i) <= t
  BY <1>1, <1>2 DEF Before
<1>5. QED
  BY <1>1, <1>2, <1>3, <1>4

\* The first line to end after byte t, if one does by byte f.
LEMMA NextLineExists ==
  ASSUME sent \in Seq(Byte), NEW t \in Ends \cup {0}, NEW f \in Ends, t < f
  PROVE  \E i \in Ends : /\ t < i /\ i <= f
                         /\ StartOf(i) = t
                         /\ \A j \in Ends : t < j => i <= j
<1> DEFINE S == {j \in Ends : t < j}
<1>1. Len(sent) \in Nat /\ Ends \subseteq 1..Len(sent)
  BY LenProperties DEF Ends
<1>2. S \subseteq Nat /\ f \in S
  <2>1. \A j \in Ends : j \in Nat
    BY <1>1
  <2>2. QED
    BY <2>1
<1>3. PICK i \in S : \A j \in S : i <= j
  <2> HIDE DEF S
  <2>1. QED
    BY <1>2, LeastNumber
<1>4. \A j \in Ends : j < i => j <= t
  BY <1>1, <1>3
<1>5. StartOf(i) = t
  BY <1>3, <1>4, NextLine
<1>6. QED
  BY <1>2, <1>3, <1>5

------------------------------------------------------------------------------
\* A line that is accepted ends with the first LF after what was consumed.
LEMMA AcceptedLine ==
  ASSUME TypeOK, NEW i \in taken..Len(sent), Reads(i), Accepted(Line(i))
  PROVE  /\ i \in Ends /\ i \in Nat /\ Len(Line(i)) = i - taken /\ i - taken \in 2..MaxLine
         /\ sent[i - 1] = CR
         /\ \A j \in Ends : j < i => j <= taken
<1>1. /\ sent \in Seq(Byte) /\ Len(sent) \in Nat /\ DOMAIN sent = 1..Len(sent)
      /\ taken \in 0..Len(sent) /\ i \in Nat /\ MaxLine \in Nat
  BY LenProperties, HttpAssumption DEF TypeOK
<1>2. /\ \A k \in 1..Len(Line(i)) : Line(i)[k] = sent[taken + k]
      /\ taken < i => Len(Line(i)) = i - taken
      /\ taken >= i => Len(Line(i)) = 0
  <2>1. CASE taken < i
    <3>1. taken + 1 \in 1..Len(sent) /\ i \in taken + 1 .. Len(sent)
      BY <1>1, <2>1
    <3>2. Len(Line(i)) = i - (taken + 1) + 1
          /\ \A k \in 1..(i - (taken + 1) + 1) : Line(i)[k] = sent[taken + 1 + k - 1]
      BY <1>1, <3>1, SubSeqProperties DEF Line
    <3>3. QED
      BY <1>1, <2>1, <3>2
  <2>2. CASE taken >= i
    <3>1. Len(Line(i)) = 0
      BY <1>1, <2>2, SubSeqProperties DEF Line
    <3>2. QED
      BY <1>1, <2>2, <3>1
  <2>3. QED
    BY <1>1, <2>1, <2>2
<1>3. Len(Line(i)) \in 2..MaxLine /\ taken < i /\ Len(Line(i)) = i - taken
  BY <1>1, <1>2 DEF Accepted
<1>4. sent[i] = LF /\ sent[i - 1] = CR
  BY <1>1, <1>2, <1>3 DEF Accepted
<1>5. i \in Ends
  BY <1>1, <1>3, <1>4 DEF Ends
<1>6. \A j \in Ends : j < i => j <= taken
  <2> SUFFICES ASSUME NEW j \in Ends, j < i, j > taken PROVE FALSE
    BY <1>1 DEF Ends
  <2>1. j \in taken..(i - 1) /\ j \in taken..Len(sent) /\ sent[j] = LF
    BY <1>1 DEF Ends
  <2>2. LineEnds(j)
    BY <2>1 DEF LineEnds
  <2>3. QED
    BY <2>1, <2>2 DEF Reads
<1>7. QED
  BY <1>1, <1>3, <1>4, <1>5, <1>6

\* No line, accepted or not, is read further than the limit on a line.
LEMMA LineIsBounded ==
  ASSUME TypeOK, NEW i \in taken..Len(sent), Reads(i)
  PROVE  i \in Nat /\ i <= taken + MaxLine + 1 /\ taken' = i /\ taken' \in 0..Len(sent')
<1>1. taken \in Nat /\ Len(sent) \in Nat /\ MaxLine \in Nat /\ i \in Nat /\ i <= Len(sent)
  BY LenProperties, HttpAssumption DEF TypeOK
<1>2. taken' = i /\ sent' = sent
  BY DEF Reads
<1>3. i <= taken + MaxLine + 1
  <2> SUFFICES ASSUME i > taken + MaxLine + 1 PROVE FALSE
    BY <1>1
  <2>1. taken + MaxLine + 1 \in taken..(i - 1) /\ taken + MaxLine + 1 \in taken..Len(sent)
    BY <1>1
  <2>2. LineEnds(taken + MaxLine + 1)
    BY <1>1, <2>1 DEF LineEnds
  <2>3. QED
    BY <2>1, <2>2 DEF Reads
<1>4. QED
  BY <1>1, <1>2, <1>3

LEMMA Products ==
  /\ \A a, b \in Nat : a * b \in Nat /\ (a + 1) * b = a * b + b
  /\ \A a, b, c \in Nat : a <= b => a * c <= b * c
OBVIOUS

\* The exchange still has a whole line left to read, and of a response too many
\* the headers as well.
LEMMA BudgetLeft ==
  ASSUME TypeOK, Budget, Running
  PROVE  /\ taken <= (IF method = "HEAD" THEN MaxInformational ELSE 1) * (MaxLine + MaxHeaders)
         /\ BoundedReading
<1> DEFINE response == MaxLine + MaxHeaders
           limit == IF method = "HEAD" THEN MaxInformational ELSE 1
<1>1. /\ MaxLine \in Nat /\ MaxHeaders \in Nat /\ MaxInformational \in Nat /\ response \in Nat
      /\ taken \in Nat /\ count \in Nat /\ count <= MaxInformational /\ total \in Nat
      /\ limit \in Nat
  BY HttpAssumption, LenProperties DEF TypeOK
<1>2. /\ 0 * response = 0 /\ 1 * response = response
      /\ count * response \in Nat /\ limit * response \in Nat
      /\ (count + 1) * response = count * response + response
      /\ count <= limit => count * response <= limit * response
      /\ count + 1 <= limit => (count + 1) * response <= limit * response
  <2> HIDE DEF response, limit
  <2>1. QED
    BY <1>1, Products
<1>3. taken <= limit * response
  <2>1. CASE at = "status"
    <3>1. taken <= count * response /\ count <= limit
      BY <1>1, <2>1 DEF Budget, TypeOK
    <3> HIDE DEF response, limit
    <3>2. QED
      BY <1>1, <1>2, <3>1
  <2>2. CASE at = "headers"
    <3>1. taken <= count * response + response /\ count + 1 <= limit
      <4>1. taken <= count * response + MaxLine + total /\ total <= MaxHeaders
        BY <2>2 DEF Budget
      <4>2. method = "HEAD" => count < MaxInformational
        BY <2>2 DEF Budget
      <4>3. method # "HEAD" => count = 0
        BY DEF Budget, TypeOK
      <4>4. count + 1 <= limit
        BY <1>1, <4>2, <4>3
      <4>5. QED
        BY <1>1, <1>2, <4>1, <4>4
    <3> HIDE DEF response, limit
    <3>2. QED
      BY <1>1, <1>2, <3>1
  <2>3. QED
    BY <2>1, <2>2 DEF TypeOK, Running
<1>4. BoundedReading
  <2>1. BoundedReading <=> taken <= limit * response + MaxLine + 1
    BY DEF BoundedReading
  <2> HIDE DEF response, limit
  <2>2. QED
    BY <1>1, <1>2, <1>3, <2>1
<1>5. QED
  BY <1>3, <1>4

LEMMA BudgetInit == Init => TypeOK /\ Budget /\ BoundedReading
<1> SUFFICES ASSUME Init PROVE TypeOK /\ Budget /\ BoundedReading
  OBVIOUS
<1>1. sent \in Seq(Byte) /\ Len(sent) = 0
  BY EmptySeq DEF Init
<1>2. 0 * (MaxLine + MaxHeaders) = 0
  BY HttpAssumption
<1>3. TypeOK /\ Budget
  <2>1. MaxInformational \in Nat /\ MaxHeaders + MaxLine \in Nat
    BY HttpAssumption
  <2>2. TypeOK
    <3>1. /\ taken \in 0..Len(sent) /\ count \in 0..MaxInformational
          /\ total \in 0..(MaxHeaders + MaxLine)
      BY <1>1, <2>1 DEF Init
    <3>2. QED
      BY <1>1, <3>1, Zenon DEF Init, TypeOK
  <2>3. Budget
    BY <1>2 DEF Init, Budget
  <2>4. QED
    BY <2>2, <2>3
<1>4. Running
  BY DEF Init, Running
<1>5. QED
  BY <1>3, <1>4, BudgetLeft

LEMMA BudgetStep ==
  TypeOK /\ Budget /\ BoundedReading /\ [Next]_vars => TypeOK' /\ Budget' /\ BoundedReading'
<1> SUFFICES ASSUME TypeOK, Budget, BoundedReading, [Next]_vars
             PROVE  TypeOK' /\ Budget' /\ BoundedReading'
  OBVIOUS
<1> DEFINE response == MaxLine + MaxHeaders
           limit == IF method = "HEAD" THEN MaxInformational ELSE 1
<1>0. /\ MaxLine \in Nat /\ MaxHeaders \in Nat /\ MaxInformational \in Nat /\ response \in Nat
      /\ taken \in Nat /\ count \in Nat /\ total \in Nat /\ limit \in Nat /\ Len(sent) \in Nat
      /\ limit * response \in Nat /\ count * response \in Nat
      /\ (count + 1) * response = count * response + response
  <2>1. /\ MaxLine \in Nat /\ MaxHeaders \in Nat /\ MaxInformational \in Nat /\ response \in Nat
        /\ taken \in Nat /\ count \in Nat /\ total \in Nat /\ limit \in Nat /\ Len(sent) \in Nat
    BY HttpAssumption, LenProperties DEF TypeOK
  <2> HIDE DEF response, limit
  <2>2. QED
    BY <2>1, Products
\* Any line read in a running exchange is still within the bound.
<1>1. ASSUME Running, NEW i \in taken..Len(sent), Reads(i)
      PROVE  BoundedReading'
  <2>1. i \in Nat /\ i <= taken + MaxLine + 1 /\ taken' = i /\ method' = method
    BY <1>1, LineIsBounded DEF Reads
  <2>2. taken <= limit * response
    BY <1>1, BudgetLeft
  <2>3. BoundedReading' <=> taken' <= limit * response + MaxLine + 1
    BY <2>1 DEF BoundedReading
  <2> HIDE DEF response, limit
  <2>4. QED
    BY <1>0, <2>1, <2>2, <2>3
<1>2. CASE UNCHANGED vars
  BY <1>2 DEF vars, TypeOK, Budget, BoundedReading
<1>3. CASE Send
  <2>1. PICK b \in Byte : sent' = Append(sent, b)
    BY <1>3 DEF Send
  <2>2. sent' \in Seq(Byte) /\ Len(sent') = Len(sent) + 1
    BY <2>1, AppendProperties DEF TypeOK
  <2>3. QED
    BY <1>0, <1>3, <2>2 DEF Send, TypeOK, Budget, BoundedReading
<1>4. CASE Close
  BY <1>4 DEF Close, TypeOK, Budget, BoundedReading
<1>5. CASE MalformedLine
  <2>1. PICK i \in taken..Len(sent) : Reads(i)
    BY <1>5 DEF MalformedLine
  <2>2. Running /\ at' = "done" /\ result' = "error" /\ UNCHANGED <<code, count, total>>
    BY <1>5 DEF MalformedLine, Finish
  <2>3. BoundedReading'
    BY <1>1, <2>1, <2>2
  <2>4. TypeOK' /\ Budget'
    BY <2>1, <2>2, LineIsBounded DEF Reads, TypeOK, Budget
  <2>5. QED
    BY <2>3, <2>4
<1>6. CASE StatusLine
  <2>1. PICK i \in taken..Len(sent) :
          Reads(i) /\ Accepted(Line(i)) /\ code' = parse_http_status_line(Line(i))
    BY <1>6 DEF StatusLine
  <2>2. at = "status" /\ code' \in Codes
    BY <1>6, <2>1 DEF StatusLine, parse_http_status_line
  <2>3. /\ taken' = i /\ taken' \in 0..Len(sent') /\ i \in Nat /\ UNCHANGED <<method, sent, closed>>
        /\ i - taken \in 2..MaxLine
    BY <2>1, LineIsBounded, AcceptedLine DEF Reads
  <2>4. BoundedReading'
    BY <1>1, <2>1, <2>2 DEF Running
  <2>5. CASE UNCHANGED <<count, total>> /\ at' = "done" /\ result' \in {"answered", "error"}
    BY <2>2, <2>3, <2>4, <2>5 DEF TypeOK, Budget
  <2>6. CASE /\ at' = "headers" /\ total' = 0 /\ UNCHANGED <<count, result>>
             /\ method = "HEAD" => count # MaxInformational
    <3>1. TypeOK'
      BY <1>0, <2>2, <2>3, <2>6 DEF TypeOK
    <3>2. taken' <= count' * response + MaxLine + total'
      <4>1. taken <= count * response
        BY <2>2 DEF Budget
      <4> HIDE DEF response
      <4>2. QED
        BY <1>0, <2>3, <2>6, <4>1
    <3>3. Budget'
      BY <1>0, <2>3, <2>6, <3>2 DEF Budget, TypeOK
    <3>4. QED
      BY <2>4, <3>1, <3>3
  <2>7. QED
    BY <1>6, <2>5, <2>6 DEF StatusLine, Finish
<1>7. CASE HeaderLine
  <2>1. PICK i \in taken..Len(sent) :
          /\ Reads(i) /\ Accepted(Line(i)) /\ total' = total + Len(Line(i))
          /\ IF total' > MaxHeaders THEN Finish("error") /\ UNCHANGED count
             ELSE IF Line(i) = <<CR, LF>> THEN Drained
             ELSE UNCHANGED <<at, count, result>>
    BY <1>7 DEF HeaderLine
  <2>2. at = "headers" /\ UNCHANGED code
    BY <1>7 DEF HeaderLine
  <2>3. /\ taken' = i /\ taken' \in 0..Len(sent') /\ i \in Nat /\ UNCHANGED <<method, sent, closed>>
        /\ Len(Line(i)) = i - taken /\ i - taken \in 2..MaxLine
    BY <2>1, LineIsBounded, AcceptedLine DEF Reads
  <2>4. BoundedReading'
    BY <1>1, <2>1, <2>2 DEF Running
  <2>5. /\ taken <= count * response + MaxLine + total /\ total <= MaxHeaders
        /\ method = "HEAD" => count < MaxInformational
        /\ method = "CONNECT" => count = 0
    BY <2>2 DEF Budget
  <2>6. /\ total' \in 0..(MaxHeaders + MaxLine)
        /\ taken' <= count * response + MaxLine + total'
    <3> HIDE DEF response
    <3>1. QED
      BY <1>0, <2>1, <2>3, <2>5
  <2>7. CASE UNCHANGED count /\ at' = "done" /\ result' \in {"error", "answered", "refused"}
    BY <2>2, <2>3, <2>4, <2>5, <2>6, <2>7 DEF TypeOK, Budget
  <2>8. CASE /\ method = "HEAD" /\ at' = "status" /\ count' = count + 1 /\ UNCHANGED result
             /\ total' <= MaxHeaders
    <3>1. TypeOK'
      BY <1>0, <2>2, <2>3, <2>5, <2>6, <2>8 DEF TypeOK
    <3>2. taken' <= count' * response
      <4> DEFINE read == count * response
      <4>1. read \in Nat /\ taken' \in Nat /\ total' \in Nat /\ response = MaxLine + MaxHeaders
            /\ taken' <= read + MaxLine + total' /\ total' <= MaxHeaders
        <5>1. read \in Nat
          BY <1>0
        <5>2. taken' \in Nat /\ total' \in Nat /\ total' <= MaxHeaders
          BY <2>3, <2>6, <2>8
        <5>3. taken' <= read + MaxLine + total'
          BY <2>6
        <5>4. QED
          BY <5>1, <5>2, <5>3
      <4>2. (count + 1) * response = read + response /\ count' = count + 1
        BY <1>0, <2>8
      <4> HIDE DEF response, read
      <4>3. taken' <= read + response
        <5>1. MaxLine \in Nat /\ MaxHeaders \in Nat
          BY <1>0
        <5>2. \A a, b, c, d, e \in Nat : a <= b + c + d /\ d <= e => a <= b + (c + e)
          OBVIOUS
        <5>3. QED
          BY <4>1, <5>1, <5>2
      <4>4. QED
        BY <4>2, <4>3
    <3>3. Budget'
      BY <2>3, <2>8, <3>2 DEF Budget
    <3>4. QED
      BY <2>4, <3>1, <3>3
  <2>9. CASE UNCHANGED <<at, count, result>> /\ total' <= MaxHeaders
    BY <2>2, <2>3, <2>4, <2>5, <2>6, <2>9 DEF TypeOK, Budget
  <2>10. QED
    <3>1. CASE total' > MaxHeaders
      BY <2>1, <2>7, <3>1 DEF Finish
    <3>2. CASE ~ (total' > MaxHeaders)
      <4>1. total' <= MaxHeaders
        BY <1>0, <2>6, <3>2
      <4>2. QED
        BY <2>1, <2>7, <2>8, <2>9, <3>2, <4>1 DEF Drained, Finish
    <3>3. QED
      BY <3>1, <3>2
<1>8. ASSUME NEW r \in {"timeout", "io"}, Abandon(r)
      PROVE  TypeOK' /\ Budget' /\ BoundedReading'
  BY <1>8 DEF Abandon, Finish, TypeOK, Budget, BoundedReading
<1>9. QED
  BY <1>2, <1>3, <1>4, <1>5, <1>6, <1>7, <1>8 DEF Next

------------------------------------------------------------------------------
\* What was sent so far reads the same when more of it arrives.
LEMMA MoreIsSent ==
  ASSUME TypeOK, NEW x \in Byte, sent' = Append(sent, x)
  PROVE  /\ \A i \in 1..Len(sent) : i \in Ends' <=> i \in Ends
         /\ Ends \subseteq 1..Len(sent) /\ Ends' \subseteq Nat /\ Len(sent) \in Nat
         /\ \A i \in Ends : /\ Before(i)' = Before(i)
                            /\ Blank(i)' <=> Blank(i)
                            /\ CodeAt(i)' = CodeAt(i)
                            /\ i \in Heads' <=> i \in Heads
                            /\ WellFormed(i)' <=> WellFormed(i)
                            /\ \A h : HeadersEnd(h, i)' <=> HeadersEnd(h, i)
<1> DEFINE n == Len(sent)
<1>1. /\ sent \in Seq(Byte) /\ n \in Nat /\ DOMAIN sent = 1..n
      /\ sent' \in Seq(Byte) /\ Len(sent') = n + 1 /\ DOMAIN sent' = 1..(n + 1)
      /\ \A j \in 1..n : sent'[j] = sent[j]
  BY AppendProperties, LenProperties DEF TypeOK
<1>2. /\ \A i \in 1..n : i \in Ends' <=> i \in Ends
      /\ Ends \subseteq 1..n /\ Ends' \subseteq 1..(n + 1)
  BY <1>1 DEF Ends
<1>3. \A i \in Ends : Before(i)' = Before(i)
  <2> SUFFICES ASSUME NEW i \in Ends PROVE Before(i)' = Before(i)
    OBVIOUS
  <2>1. i \in 1..n
    BY <1>2
  <2>2. \A j : j \in Ends' /\ j < i <=> j \in Ends /\ j < i
    <3>1. \A j \in Ends' : j < i => j \in 1..n
      BY <1>1, <1>2, <2>1
    <3>2. \A j \in Ends : j \in 1..n
      BY <1>2
    <3>3. QED
      BY <1>2, <3>1, <3>2
  <2>3. QED
    BY <2>2 DEF Before
<1>4. \A i \in Ends : StartOf(i)' = StartOf(i)
  BY <1>3 DEF StartOf
<1>5. \A i \in Ends : StartOf(i) \in Before(i) \cup {0} /\ StartOf(i) \in 0..(i - 1) /\ i \in 1..n
  BY <1>1, StartOfLine
<1>6. \A i \in Ends : LineAt(i)' = LineAt(i)
  <2> SUFFICES ASSUME NEW i \in Ends PROVE LineAt(i)' = LineAt(i)
    OBVIOUS
  <2>1. StartOf(i) + 1 \in 1..Len(sent) /\ i \in 1..Len(sent)
    BY <1>1, <1>5
  <2>2. sent' = sent \o <<x>> /\ <<x>> \in Seq(Byte)
    BY <1>1, AppendIsConcat
  <2>3. SubSeq(sent \o <<x>>, StartOf(i) + 1, i) = SubSeq(sent, StartOf(i) + 1, i)
    BY <1>1, <2>1, <2>2, SubSeqOfConcat1
  <2>4. QED
    BY <1>4, <2>2, <2>3 DEF LineAt
<1>7. \A i \in Ends : (Blank(i)' <=> Blank(i)) /\ CodeAt(i)' = CodeAt(i)
  BY <1>6 DEF Blank, CodeAt, parse_http_status_line
<1>8. \A i \in Ends : i \in Heads' <=> i \in Heads
  <2> SUFFICES ASSUME NEW i \in Ends PROVE i \in Heads' <=> i \in Heads
    OBVIOUS
  <2>1. StartOf(i) # 0 => StartOf(i) \in Ends
    BY <1>5 DEF Before
  <2>2. i \in Ends'
    BY <1>2
  <2>3. StartOf(i)' = 0 \/ Blank(StartOf(i))' <=> StartOf(i) = 0 \/ Blank(StartOf(i))
    BY <1>4, <1>7, <2>1
  <2>4. QED
    BY <2>2, <2>3 DEF Heads
<1>9. \A i \in Ends : WellFormed(i)' <=> WellFormed(i)
  <2> SUFFICES ASSUME NEW i \in Ends PROVE WellFormed(i)' <=> WellFormed(i)
    OBVIOUS
  <2>1. StartOf(i) < i - 1 => i - 1 \in 1..n
    BY <1>1, <1>5
  <2>2. StartOf(i) < i - 1 => sent'[i - 1] = sent[i - 1]
    BY <1>1, <2>1
  <2>3. QED
    BY <1>4, <1>6, <1>7, <1>8, <2>2 DEF WellFormed
<1>10. ASSUME NEW i \in Ends, NEW h PROVE HeadersEnd(h, i)' <=> HeadersEnd(h, i)
  <2>1. Before(i) \subseteq Ends /\ i \in Ends'
    BY <1>2 DEF Before
  <2>2. QED
    BY <1>3, <1>7, <2>1 DEF HeadersEnd
<1>11. QED
  <2>1. Ends' \subseteq Nat
    BY <1>1, <1>2
  <2>2. QED
    BY <1>1, <1>2, <1>3, <1>7, <1>8, <1>9, <1>10, <2>1

------------------------------------------------------------------------------
LEMMA LineText ==
  ASSUME sent \in Seq(Byte), NEW i \in Ends
  PROVE  /\ Len(LineAt(i)) = i - StartOf(i) /\ i \in Nat /\ StartOf(i) \in Nat /\ StartOf(i) < i
         /\ \A k \in 1..(i - StartOf(i)) : LineAt(i)[k] = sent[StartOf(i) + k]
<1>1. Len(sent) \in Nat /\ i \in 1..Len(sent) /\ StartOf(i) \in 0..(i - 1)
  BY LenProperties, StartOfLine
<1>2. StartOf(i) + 1 \in 1..Len(sent) /\ i \in StartOf(i) + 1 .. Len(sent)
  BY <1>1
<1>3. /\ Len(LineAt(i)) = i - (StartOf(i) + 1) + 1
      /\ \A k \in 1..(i - (StartOf(i) + 1) + 1) : LineAt(i)[k] = sent[StartOf(i) + 1 + k - 1]
  BY <1>1, <1>2, SubSeqProperties DEF LineAt
<1>4. QED
  BY <1>1, <1>3

\* A status line is not blank.
LEMMA StatusNotBlank ==
  ASSUME NEW i, CodeAt(i) # 0
  PROVE  ~ Blank(i)
<1>1. Len(LineAt(i)) = 3
  BY DEF CodeAt, parse_http_status_line
<1>2. Len(<<CR, LF>>) = 2
  OBVIOUS
<1>3. QED
  BY <1>1, <1>2 DEF Blank

\* After a line that is not blank no response starts.
LEMMA NoHead ==
  ASSUME sent \in Seq(Byte), NEW h \in Ends, NEW t \in Nat, NEW f \in Ends, h < f,
         \A j \in Ends : h <= j /\ j <= t => ~ Blank(j),
         \A j \in Ends : j < f => j <= t
  PROVE  f \notin Heads
<1>1. /\ StartOf(f) \in Before(f) \cup {0}
      /\ \A j \in Before(f) : j <= StartOf(f)
      /\ h \in Nat /\ h > 0
  BY StartOfLine, LenProperties DEF Ends
<1>2. h <= StartOf(f)
  BY <1>1 DEF Before
<1>3. StartOf(f) \in Ends /\ StartOf(f) < f
  BY <1>1, <1>2 DEF Before
<1>4. ~ Blank(StartOf(f)) /\ StartOf(f) # 0
  <2>1. StartOf(f) <= t
    BY <1>3
  <2>2. StartOf(f) # 0
    BY <1>1, <1>2
  <2>3. QED
    BY <1>2, <1>3, <2>1, <2>2
<1>5. QED
  BY <1>4 DEF Heads

\* The line that was read is the next of the stream.
LEMMA LineRead ==
  ASSUME TypeOK, taken \in Ends \cup {0},
         NEW i \in taken..Len(sent), Reads(i), Accepted(Line(i))
  PROVE  /\ i \in Ends /\ i \in Nat /\ taken \in Nat /\ taken < i
         /\ \A j \in Ends : j < i => j <= taken
         /\ \A j \in Ends : taken < j => i <= j
         /\ StartOf(i) = taken /\ LineAt(i) = Line(i) /\ Len(Line(i)) = i - taken
         /\ i \in Heads <=> taken = 0 \/ Blank(taken)
         /\ (i \in Heads => CodeAt(i) # 0) => WellFormed(i)
<1>1. /\ i \in Ends /\ i \in Nat /\ Len(Line(i)) = i - taken /\ i - taken \in 2..MaxLine
      /\ sent[i - 1] = CR
      /\ \A j \in Ends : j < i => j <= taken
  BY AcceptedLine
<1>2. /\ taken \in Nat /\ MaxLine \in Nat /\ sent \in Seq(Byte) /\ Ends \subseteq Nat
  BY HttpAssumption, LenProperties DEF TypeOK, Ends
<1>3. taken < i /\ StartOf(i) = taken
  BY <1>1, <1>2, NextLine
<1>4. LineAt(i) = Line(i)
  BY <1>3 DEF LineAt, Line
<1>5. i \in Heads <=> taken = 0 \/ Blank(taken)
  BY <1>1, <1>3 DEF Heads
<1>6. (i \in Heads => CodeAt(i) # 0) => WellFormed(i)
  BY <1>1, <1>2, <1>3, <1>4 DEF WellFormed
<1>7. \A j \in Ends : taken < j => i <= j
  BY <1>1, <1>2
<1>8. QED
  BY <1>1, <1>2, <1>3, <1>4, <1>5, <1>6, <1>7

\* A line that is not accepted spoils all that ends after it.
LEMMA BadLine ==
  ASSUME TypeOK, taken \in Ends \cup {0}, at = "status" => taken = 0 \/ Blank(taken),
         NEW i \in taken..Len(sent), Reads(i),
         \/ ~ Accepted(Line(i))
         \/ at = "status" /\ parse_http_status_line(Line(i)) = 0,
         NEW f \in Ends, taken < f
  PROVE  \E e \in Ends : e <= f /\ ~ WellFormed(e)
<1>1. /\ sent \in Seq(Byte) /\ Len(sent) \in Nat /\ DOMAIN sent = 1..Len(sent)
      /\ taken \in Nat /\ i \in Nat /\ MaxLine \in Nat
  BY LenProperties, HttpAssumption DEF TypeOK
<1>2. PICK e \in Ends : /\ taken < e /\ e <= f /\ StartOf(e) = taken
                        /\ \A j \in Ends : taken < j => e <= j
  BY <1>1, NextLineExists
<1>3. e \in 1..Len(sent) /\ sent[e] = LF
  BY <1>1 DEF Ends
<1>4. i <= e
  <2> SUFFICES ASSUME i > e PROVE FALSE
    BY <1>1, <1>3
  <2>1. e \in taken..(i - 1) /\ e \in taken..Len(sent)
    BY <1>1, <1>2, <1>3
  <2>2. LineEnds(e)
    BY <1>2, <1>3, <2>1 DEF LineEnds
  <2>3. QED
    BY <2>1, <2>2 DEF Reads
<1>5. /\ Len(LineAt(e)) = e - taken
      /\ \A k \in 1..(e - taken) : LineAt(e)[k] = sent[taken + k]
  BY <1>1, <1>2, LineText
<1>6. CASE i = e
  <2>1. LineAt(e) = Line(i)
    BY <1>2, <1>6 DEF LineAt, Line
  <2>2. ASSUME WellFormed(e) PROVE Accepted(Line(i))
    <3>1. Len(LineAt(e)) <= MaxLine /\ taken < e - 1 /\ sent[e - 1] = CR
      BY <1>2, <2>2 DEF WellFormed
    <3>2. e - taken \in 2..MaxLine
      BY <1>1, <1>3, <1>5, <3>1
    <3>3. LineAt(e)[e - taken] = sent[e] /\ LineAt(e)[e - taken - 1] = sent[e - 1]
      <4>1. /\ e - taken \in 1..(e - taken) /\ taken + (e - taken) = e
            /\ e - taken - 1 \in 1..(e - taken) /\ taken + (e - taken - 1) = e - 1
        BY <1>1, <1>3, <3>2
      <4>2. /\ LineAt(e)[e - taken] = sent[taken + (e - taken)]
            /\ LineAt(e)[e - taken - 1] = sent[taken + (e - taken - 1)]
        BY <1>5, <4>1, Zenon
      <4>3. QED
        BY <4>1, <4>2, Zenon
    <3>4. QED
      BY <1>3, <1>5, <2>1, <3>1, <3>2, <3>3 DEF Accepted
  <2>3. ASSUME WellFormed(e), at = "status" PROVE parse_http_status_line(Line(i)) # 0
    <3>1. e \in Heads
      BY <1>2, <2>3 DEF Heads
    <3>2. QED
      BY <2>1, <2>3, <3>1 DEF WellFormed, CodeAt
  <2>4. QED
    BY <1>2, <2>2, <2>3
<1>7. CASE i < e
  <2>1. LineEnds(i)
    BY DEF Reads
  <2>2. ~ (i > taken /\ sent[i] = LF)
    <3>1. i > taken => i \in 1..Len(sent)
      BY <1>1
    <3>2. i > taken => i \notin Ends
      BY <1>1, <1>2, <1>3, <1>7
    <3>3. QED
      BY <1>1, <3>1, <3>2 DEF Ends
  <2>3. i - taken = MaxLine + 1
    <3>1. i # Len(sent)
      <4>1. Len(sent) \in Nat /\ e \in Nat /\ i \in Nat
        BY <1>1, <1>3
      <4>2. e <= Len(sent)
        BY <1>3, <4>1
      <4>3. QED
        BY <1>7, <4>1, <4>2
    <3>2. QED
      BY <2>1, <2>2, <3>1, Zenon DEF LineEnds
  <2>4. Len(LineAt(e)) > MaxLine
    BY <1>1, <1>3, <1>5, <1>7, <2>3
  <2>5. ~ WellFormed(e)
    BY <1>1, <1>3, <1>5, <2>4 DEF WellFormed
  <2>6. QED
    BY <1>2, <2>5
<1>8. QED
  BY <1>1, <1>3, <1>4, <1>6, <1>7

------------------------------------------------------------------------------
LEMMA SameStream ==
  ASSUME sent' = sent
  PROVE  /\ Ends' = Ends /\ Heads' = Heads
         /\ \A i : /\ Before(i)' = Before(i)
                   /\ StartOf(i)' = StartOf(i)
                   /\ Blank(i)' <=> Blank(i)
                   /\ CodeAt(i)' = CodeAt(i)
                   /\ WellFormed(i)' <=> WellFormed(i)
                   /\ FinalStatus(i)' <=> FinalStatus(i)
                   /\ PastHeads(i)' <=> PastHeads(i)
         /\ \A h, b : /\ HeadersEnd(h, b)' <=> HeadersEnd(h, b)
                      /\ Response(h, b)' <=> Response(h, b)
<1>1. Ends' = Ends /\ \A i : Before(i)' = Before(i)
  BY DEF Ends, Before
<1>2. \A i : StartOf(i)' = StartOf(i)
  BY <1>1 DEF StartOf
<1>3. \A i : LineAt(i)' = LineAt(i)
  BY <1>2 DEF LineAt
<1>4. \A i : (Blank(i)' <=> Blank(i)) /\ CodeAt(i)' = CodeAt(i)
  BY <1>3 DEF Blank, CodeAt, parse_http_status_line
<1>5. Heads' = Heads
  BY <1>1, <1>2, <1>4 DEF Heads
<1>6. \A i : WellFormed(i)' <=> WellFormed(i)
  BY <1>2, <1>3, <1>4, <1>5 DEF WellFormed
<1>7. \A h, b : HeadersEnd(h, b)' <=> HeadersEnd(h, b)
  BY <1>1, <1>4 DEF HeadersEnd
<1>8. \A i : FinalStatus(i)' <=> FinalStatus(i)
  BY <1>1, <1>4, <1>5, <1>6, <1>7 DEF FinalStatus
<1>9. \A i : PastHeads(i)' <=> PastHeads(i)
  BY <1>1, <1>4, <1>5, <1>7 DEF PastHeads
<1>10. \A h, b : Response(h, b)' <=> Response(h, b)
  BY <1>1, <1>5, <1>6, <1>7 DEF Response
<1>11. QED
  BY <1>1, <1>2, <1>4, <1>5, <1>6, <1>7, <1>8, <1>9, <1>10

LEMMA ReaderInit == Init => Reader
<1> SUFFICES ASSUME Init PROVE Reader
  OBVIOUS
<1>1. Ends = {} /\ Heads = {}
  BY EmptySeq DEF Init, Ends, Heads
<1>2. PastHeads(0) /\ Cardinality(Heads \cap (1..0)) = 0
  <2>1. Heads \cap (1..0) = {}
    BY <1>1
  <2>2. QED
    BY <1>1, <2>1, FS_EmptySet DEF PastHeads
<1>3. AwaitsStatus
  BY <1>2 DEF Init, AwaitsStatus
<1>4. QED
  BY <1>1, <1>3 DEF Init, Reader, Running

\* More bytes leave what was read as it was.
LEMMA SendKeeps ==
  ASSUME TypeOK, Reader, Send
  PROVE  Reader'
<1>1. PICK x \in Byte : sent' = Append(sent, x)
  BY DEF Send
<1>2. UNCHANGED <<method, closed, taken, at, code, count, total, result>> /\ Running
  BY DEF Send
<1>3. /\ \A i \in 1..Len(sent) : i \in Ends' <=> i \in Ends
      /\ Ends \subseteq 1..Len(sent) /\ Ends' \subseteq Nat /\ Len(sent) \in Nat
      /\ \A i \in Ends : /\ Before(i)' = Before(i)
                         /\ Blank(i)' <=> Blank(i)
                         /\ CodeAt(i)' = CodeAt(i)
                         /\ i \in Heads' <=> i \in Heads
                         /\ WellFormed(i)' <=> WellFormed(i)
                         /\ \A h : HeadersEnd(h, i)' <=> HeadersEnd(h, i)
  BY <1>1, MoreIsSent
<1>4. /\ taken \in 0..Len(sent) /\ taken \in Nat
      /\ \A t \in 0..Len(sent) : t \in Nat
      /\ \A t \in 0..Len(sent), j \in Ends' : j <= t => j \in Ends
  <2>1. taken \in 0..Len(sent)
    BY DEF TypeOK
  <2>2. ASSUME NEW t \in 0..Len(sent), NEW j \in Ends', j <= t PROVE j \in Ends
    <3>1. j # 0
      BY <1>1, LenProperties, AppendProperties DEF Ends, TypeOK
    <3>2. j \in 1..Len(sent)
      BY <1>3, <2>2, <3>1
    <3>3. QED
      BY <1>3, <3>2
  <2>3. QED
    BY <1>3, <2>1, <2>2
<1>5. \A t \in 0..Len(sent) : PastHeads(t) => PastHeads(t)'
  <2> SUFFICES ASSUME NEW t \in 0..Len(sent), PastHeads(t) PROVE PastHeads(t)'
    OBVIOUS
  <2>1. SUFFICES ASSUME NEW h \in Heads', h <= t
                 PROVE  /\ informational(CodeAt(h)')
                        /\ \E b \in Ends' : b <= t /\ HeadersEnd(h, b)'
    BY DEF PastHeads
  <2>2. h \in Ends /\ h \in Heads
    BY <1>3, <1>4, <2>1 DEF Heads
  <2>3. informational(CodeAt(h)) /\ \E b \in Ends : b <= t /\ HeadersEnd(h, b)
    BY <2>1, <2>2 DEF PastHeads
  <2>4. QED
    BY <1>3, <2>2, <2>3
<1>6. \A t \in 0..Len(sent) : Heads' \cap (1..t) = Heads \cap (1..t)
  <2> SUFFICES ASSUME NEW t \in 0..Len(sent), NEW j \in 1..t PROVE j \in Heads' <=> j \in Heads
    OBVIOUS
  <2>1. j \in 1..Len(sent)
    BY <1>3
  <2>2. QED
    BY <1>3, <2>1 DEF Heads
<1>7. at = "status" => AwaitsStatus'
  <2> SUFFICES ASSUME AwaitsStatus PROVE AwaitsStatus'
    BY DEF Reader
  <2>1. PICK t \in 0..Len(sent) : t = taken
    BY <1>4
  <2>2. taken' = t /\ method' = method /\ count' = count
    BY <1>2, <2>1
  <2>3. t = 0 \/ (t \in Ends /\ Blank(t))
    BY <1>2, <2>1 DEF AwaitsStatus, Reader
  <2>4. taken' = 0 \/ Blank(taken)'
    <3>1. t = 0 \/ Blank(t)'
      BY <1>3, <2>3
    <3>2. QED
      BY <2>2, <3>1 DEF Blank, LineAt, StartOf, Before, Ends
  <2>5. method = "HEAD" =>
          PastHeads(t)' /\ count = Cardinality(Heads' \cap (1..t))
    BY <1>5, <1>6, <2>1 DEF AwaitsStatus
  <2>6. method = "HEAD" => PastHeads(taken)'
    BY <2>2, <2>5 DEF PastHeads
  <2>7. method = "CONNECT" => t = 0
    BY <2>1 DEF AwaitsStatus
  <2>8. QED
    BY <2>2, <2>4, <2>5, <2>6, <2>7 DEF AwaitsStatus
<1>8. ASSUME NEW h \in Ends, DrainsHeaders(h)
      PROVE  h \in Ends' /\ DrainsHeaders(h)'
  <2>1. h \in 1..Len(sent) /\ h \in Ends' /\ h - 1 \in 0..Len(sent) /\ h <= taken
    BY <1>3, <1>8 DEF DrainsHeaders
  <2>2. h \in Heads' /\ CodeAt(h)' = CodeAt(h) /\ Before(h)' = Before(h)
    BY <1>3, <1>8 DEF DrainsHeaders
  <2>3. \A j \in Ends' : h < j /\ j <= taken => ~ Blank(j)'
    <3> SUFFICES ASSUME NEW j \in Ends', h < j, j <= taken PROVE ~ Blank(j)'
      OBVIOUS
    <3>1. j \in Ends
      BY <1>4
    <3>2. QED
      BY <1>3, <1>8, <3>1 DEF DrainsHeaders
  <2>4. PICK g : g = h - 1
    OBVIOUS
  <2>5. PastHeads(g) => PastHeads(g)'
    BY <1>5, <2>1, <2>4
  <2>6. Heads' \cap (1..(h - 1)) = Heads \cap (1..(h - 1))
    BY <1>6, <2>1
  <2>7. PastHeads(h - 1) => PastHeads(h - 1)'
    BY <2>4, <2>5
  <2>8. QED
    BY <1>2, <1>8, <2>1, <2>2, <2>3, <2>6, <2>7 DEF DrainsHeaders
<1>9. at = "headers" => \E h \in Ends' : DrainsHeaders(h)'
  BY <1>8 DEF Reader
<1>10. taken' \in Ends' \cup {0} /\ \A j \in Ends' : j <= taken' => WellFormed(j)'
  <2>1. taken \in Ends \cup {0} /\ \A j \in Ends : j <= taken => WellFormed(j)
    BY <1>2 DEF Reader
  <2>2. taken \in Ends' \cup {0}
    BY <1>3, <2>1
  <2>3. \A j \in Ends' : j <= taken => WellFormed(j)'
    BY <1>3, <1>4, <2>1
  <2>4. QED
    BY <1>2, <2>2, <2>3
<1>11. QED
  <2>1. (at = "done" <=> result # "none")'
    BY <1>2 DEF Reader
  <2>2. QED
    BY <1>2, <1>7, <1>9, <1>10, <2>1 DEF Reader

------------------------------------------------------------------------------
\* Past the status line h no line up to the one being read is blank, and none
\* starts a response.
LEMMA InHeaders ==
  ASSUME TypeOK, Reader, Running, NEW h \in Ends, DrainsHeaders(h)
  PROVE  /\ h \in Nat /\ h <= taken /\ taken \in Nat
         /\ \A j \in Ends : j \in Nat /\ j > 0
         /\ \A j \in Ends : h <= j /\ j <= taken => ~ Blank(j)
         /\ \A f \in Ends : h < f /\ (\A j \in Ends : j < f => j <= taken) => f \notin Heads
<1>1. /\ sent \in Seq(Byte) /\ taken \in Nat /\ h <= taken /\ h \in Heads
      /\ \A j \in Ends : j \in Nat /\ j > 0
  BY LenProperties DEF TypeOK, Ends, DrainsHeaders
<1>2. CodeAt(h) # 0
  BY <1>1 DEF Reader, WellFormed
<1>3. \A j \in Ends : h <= j /\ j <= taken => ~ Blank(j)
  <2> SUFFICES ASSUME NEW j \in Ends, h <= j, j <= taken PROVE ~ Blank(j)
    OBVIOUS
  <2>1. CASE h = j
    BY <1>2, <2>1, StatusNotBlank
  <2>2. CASE h < j
    BY <2>2 DEF DrainsHeaders
  <2>3. QED
    BY <1>1, <2>1, <2>2
<1>4. \A f \in Ends : h < f /\ (\A j \in Ends : j < f => j <= taken) => f \notin Heads
  BY <1>1, <1>3, NoHead
<1>5. QED
  BY <1>1, <1>3, <1>4

\* The final response is not among the lines the reader has passed.
LEMMA NoFinalSoFar ==
  ASSUME TypeOK, Reader, Running, method = "HEAD", NEW f \in Ends, f <= taken
  PROVE  ~ FinalStatus(f)
<1> SUFFICES ASSUME FinalStatus(f) PROVE FALSE
  OBVIOUS
<1>1. f \in Heads /\ ~ informational(CodeAt(f))
  BY DEF FinalStatus
<1>2. CASE at = "status"
  BY <1>1, <1>2 DEF Reader, AwaitsStatus, PastHeads
<1>3. CASE at = "headers"
  <2>1. PICK h \in Ends : DrainsHeaders(h)
    BY <1>3 DEF Reader
  <2>2. /\ h \in Nat /\ h <= taken /\ taken \in Nat /\ f \in Nat
        /\ \A j \in Ends : j \in Nat
    BY <2>1, InHeaders
  <2>3. f # h
    BY <1>1, <2>1 DEF DrainsHeaders
  <2>4. ~ (h < f)
    <3>1. \A j \in Ends : j < f => j <= taken
      BY <2>2
    <3>2. QED
      BY <1>1, <2>1, <3>1, InHeaders
  <2>5. f <= h - 1
    BY <2>2, <2>3, <2>4
  <2>6. QED
    BY <1>1, <2>1, <2>5 DEF DrainsHeaders, PastHeads
<1>4. QED
  BY <1>2, <1>3 DEF TypeOK, Running

\* Nor has the response to a CONNECT ended.
LEMMA NoResponseSoFar ==
  ASSUME TypeOK, Reader, Running, method = "CONNECT", NEW h \in Ends, NEW b \in Ends, b <= taken
  PROVE  ~ Response(h, b)
<1> SUFFICES ASSUME Response(h, b) PROVE FALSE
  OBVIOUS
<1>1. \A j \in Ends : j \in Nat /\ j > 0
  BY LenProperties DEF TypeOK, Ends
<1>2. CASE at = "status"
  BY <1>1, <1>2 DEF Reader, AwaitsStatus
<1>3. CASE at = "headers"
  <2>1. PICK g \in Ends : DrainsHeaders(g)
    BY <1>3 DEF Reader
  <2>2. Before(g) = {} /\ Before(h) = {}
    BY <2>1 DEF DrainsHeaders, Response
  <2>3. g = h
    BY <1>1, <2>2 DEF Before
  <2>4. h < b /\ Blank(b)
    BY DEF Response, HeadersEnd
  <2>5. QED
    BY <2>1, <2>3, <2>4 DEF DrainsHeaders
<1>4. QED
  BY <1>2, <1>3 DEF TypeOK, Running

\* What the reader knows of a line is said of the line it has consumed.
LEMMA ConsumedTo ==
  ASSUME NEW i, taken' = i
  PROVE  /\ Blank(taken)' <=> Blank(i)'
         /\ CodeAt(taken)' = CodeAt(i)'
         /\ PastHeads(taken)' <=> PastHeads(i)'
         /\ FinalStatus(taken)' <=> FinalStatus(i)'
         /\ \A h : Response(h, taken)' <=> Response(h, i)'
<1>1. Before(taken)' = Before(i)'
  BY DEF Before
<1>2. StartOf(taken)' = StartOf(i)'
  BY <1>1 DEF StartOf
<1>3. LineAt(taken)' = LineAt(i)'
  BY <1>2 DEF LineAt
<1>4. Blank(taken)' <=> Blank(i)'
  BY <1>3 DEF Blank
<1>5. CodeAt(taken)' = CodeAt(i)'
  BY <1>3 DEF CodeAt, parse_http_status_line
<1>6. PastHeads(taken)' <=> PastHeads(i)'
  BY DEF PastHeads
<1>7. FinalStatus(taken)' <=> FinalStatus(i)'
  BY <1>1, <1>5 DEF FinalStatus
<1>8. \A h : HeadersEnd(h, taken)' <=> HeadersEnd(h, i)'
  BY <1>1, <1>4 DEF HeadersEnd
<1>9. \A h : Response(h, taken)' <=> Response(h, i)'
  BY <1>1, <1>8 DEF Response
<1>10. QED
  BY <1>4, <1>5, <1>6, <1>7, <1>9

------------------------------------------------------------------------------
\* While nothing is read the reader stays where it is.
LEMMA NothingRead ==
  ASSUME TypeOK, Reader, ExchangeAgrees, TunnelAgrees,
         UNCHANGED <<method, sent, taken, at, code, count, total, result>>
  PROVE  Reader' /\ ExchangeAgrees' /\ TunnelAgrees'
<1>1. PICK t : t = taken
  OBVIOUS
<1>2. taken' = t /\ sent' = sent /\ method' = method /\ at' = at /\ code' = code
      /\ count' = count /\ total' = total /\ result' = result
  BY <1>1
<1>3. /\ Ends' = Ends /\ Heads' = Heads
      /\ \A i : /\ Before(i)' = Before(i)
                /\ Blank(i)' <=> Blank(i)
                /\ CodeAt(i)' = CodeAt(i)
                /\ WellFormed(i)' <=> WellFormed(i)
                /\ FinalStatus(i)' <=> FinalStatus(i)
                /\ PastHeads(i)' <=> PastHeads(i)
      /\ \A h, b : Response(h, b)' <=> Response(h, b)
  BY <1>2, SameStream
<1>4. /\ Blank(taken)' <=> Blank(t)
      /\ CodeAt(taken)' = CodeAt(t)
      /\ PastHeads(taken)' <=> PastHeads(t)
      /\ FinalStatus(taken)' <=> FinalStatus(t)
      /\ \A h : Response(h, taken)' <=> Response(h, t)
  BY <1>2, <1>3, ConsumedTo
<1>5. AwaitsStatus => AwaitsStatus'
  BY <1>1, <1>2, <1>3, <1>4 DEF AwaitsStatus
<1>6. \A h \in Ends : DrainsHeaders(h) => DrainsHeaders(h)'
  <2> SUFFICES ASSUME NEW h \in Ends, DrainsHeaders(h) PROVE DrainsHeaders(h)'
    OBVIOUS
  <2>1. PastHeads(h - 1)' <=> PastHeads(h - 1)
    BY <1>3
  <2>2. QED
    BY <1>1, <1>2, <1>3, <2>1 DEF DrainsHeaders
<1>7. Reader'
  BY <1>2, <1>1, <1>3, <1>5, <1>6 DEF Reader, Running
<1>8. ExchangeAgrees'
  BY <1>1, <1>2, <1>3, <1>4 DEF ExchangeAgrees
<1>9. TunnelAgrees'
  BY <1>1, <1>2, <1>3, <1>4 DEF TunnelAgrees
<1>10. QED
  BY <1>7, <1>8, <1>9

\* Once it is over, what the verdict says of the stream is all that counts.
LEMMA Verdict ==
  ASSUME TypeOK, sent' = sent, method' = method, at' = "done", NEW i, taken' = i,
         \/ result' \in {"timeout", "io"}
         \/ /\ result' = "error"
            /\ method = "HEAD" => \A f \in Ends : ~ FinalStatus(f)
            /\ method = "CONNECT" => \A h, b \in Ends : ~ Response(h, b)
         \/ /\ result' = "answered" /\ method = "HEAD"
            /\ FinalStatus(i) /\ code' = CodeAt(i)
         \/ /\ result' \in {"answered", "refused"} /\ method = "CONNECT"
            /\ \E h \in Ends : /\ Response(h, i) /\ code' = CodeAt(h)
                               /\ result' = "answered" <=> code' \in 200..299
  PROVE  Reader' /\ ExchangeAgrees' /\ TunnelAgrees'
<1>1. /\ Ends' = Ends
      /\ \A f : CodeAt(f)' = CodeAt(f) /\ (FinalStatus(f)' <=> FinalStatus(f))
      /\ \A h, b : Response(h, b)' <=> Response(h, b)
  BY SameStream
<1>2. /\ CodeAt(taken)' = CodeAt(i)
      /\ FinalStatus(taken)' <=> FinalStatus(i)
      /\ \A h : Response(h, taken)' <=> Response(h, i)
  BY <1>1, ConsumedTo
<1>3. Reader'
  BY DEF Reader, Running
<1>4. ExchangeAgrees'
  BY <1>1, <1>2 DEF ExchangeAgrees
<1>5. TunnelAgrees'
  BY <1>1, <1>2 DEF TunnelAgrees
<1>6. QED
  BY <1>3, <1>4, <1>5

\* A malformed line is part of every answer that could still come.
LEMMA MalformedKeeps ==
  ASSUME TypeOK, Reader, MalformedLine
  PROVE  Reader' /\ ExchangeAgrees' /\ TunnelAgrees'
<1>1. PICK i \in taken..Len(sent) :
        /\ Reads(i)
        /\ ~ Accepted(Line(i)) \/ (at = "status" /\ parse_http_status_line(Line(i)) = 0)
  BY DEF MalformedLine
<1>2. Running /\ at' = "done" /\ result' = "error"
  BY DEF MalformedLine, Finish
<1>3. taken' = i /\ sent' = sent /\ method' = method
  BY <1>1 DEF Reads
<1>4. /\ taken \in Ends \cup {0} /\ taken \in Nat /\ \A j \in Ends : j \in Nat
      /\ at = "status" => taken = 0 \/ Blank(taken)
  BY <1>2, LenProperties DEF Reader, AwaitsStatus, TypeOK, Ends
<1>5. \A f \in Ends : taken < f => \E e \in Before(f) \cup {f} : ~ WellFormed(e)
  <2> SUFFICES ASSUME NEW f \in Ends, taken < f
               PROVE  \E e \in Before(f) \cup {f} : ~ WellFormed(e)
    OBVIOUS
  <2>1. PICK e \in Ends : e <= f /\ ~ WellFormed(e)
    BY <1>1, <1>4, BadLine
  <2>2. e \in Before(f) \cup {f}
    BY <1>4, <2>1 DEF Before
  <2>3. QED
    BY <2>1, <2>2
<1>6. method = "HEAD" => \A f \in Ends : ~ FinalStatus(f)
  BY <1>2, <1>4, <1>5, NoFinalSoFar DEF FinalStatus
<1>7. method = "CONNECT" => \A h, b \in Ends : ~ Response(h, b)
  BY <1>2, <1>4, <1>5, NoResponseSoFar DEF Response
<1>8. QED
  BY <1>2, <1>3, <1>6, <1>7, Verdict

\* The responses up to a line are finitely many.
LEMMA HeadsFinite ==
  ASSUME TypeOK, NEW t \in Nat
  PROVE  IsFiniteSet(Heads \cap (1..t)) /\ Cardinality(Heads \cap (1..t)) \in Nat
<1>1. IsFiniteSet(1..t)
  BY FS_Interval
<1>2. IsFiniteSet(Heads \cap (1..t))
  BY <1>1, FS_Subset
<1>3. QED
  BY <1>2, FS_CardinalityType

\* The next response starts with the line that was read.
LEMMA NextHead ==
  ASSUME TypeOK, Reader, at = "status", NEW i \in taken..Len(sent), Reads(i),
         Accepted(Line(i)), code' = parse_http_status_line(Line(i)), code' # 0
  PROVE  /\ i \in Heads /\ code' = CodeAt(i) /\ taken < i
         /\ \A j \in Before(i) \cup {i} : WellFormed(j)
         /\ \A j \in Ends : j < i <=> j <= taken
         /\ Heads \cap Before(i) = Heads \cap (1..taken)
         /\ Heads \cap (1..(i - 1)) = Heads \cap (1..taken)
<1>1. taken \in Ends \cup {0} /\ AwaitsStatus
  BY DEF Reader, Running
<1>2. /\ i \in Ends /\ i \in Nat /\ taken \in Nat /\ taken < i
      /\ \A j \in Ends : j < i => j <= taken
      /\ LineAt(i) = Line(i)
      /\ i \in Heads <=> taken = 0 \/ Blank(taken)
      /\ (i \in Heads => CodeAt(i) # 0) => WellFormed(i)
  BY <1>1, LineRead
<1>3. i \in Heads /\ code' = CodeAt(i)
  BY <1>1, <1>2 DEF AwaitsStatus, CodeAt
<1>4. \A j \in Ends : j \in Nat /\ j > 0
  BY LenProperties DEF TypeOK, Ends
<1>5. \A j \in Ends : j < i <=> j <= taken
  BY <1>2, <1>4
<1>6. \A j \in Before(i) \cup {i} : WellFormed(j)
  BY <1>2, <1>3, <1>5 DEF Reader, Running, Before
<1>7. \A j \in Heads : j \in Ends
  BY DEF Heads
<1>8. \A j \in Heads : /\ j \in Before(i) <=> j \in 1..taken
                       /\ j \in 1..(i - 1) <=> j \in 1..taken
  <2> SUFFICES ASSUME NEW j \in Heads
               PROVE  /\ j \in Before(i) <=> j \in 1..taken
                      /\ j \in 1..(i - 1) <=> j \in 1..taken
    OBVIOUS
  <2>1. j \in Ends /\ j \in Nat /\ j > 0 /\ (j < i <=> j <= taken)
    BY <1>4, <1>5, <1>7
  <2>2. j \in Before(i) <=> j < i
    BY <2>1 DEF Before
  <2>3. QED
    BY <1>2, <2>1, <2>2
<1>9. QED
  BY <1>2, <1>3, <1>5, <1>6, <1>8

LEMMA StatusKeeps ==
  ASSUME TypeOK, Reader, StatusLine
  PROVE  Reader' /\ ExchangeAgrees' /\ TunnelAgrees'
<1>1. PICK i \in taken..Len(sent) :
        Reads(i) /\ Accepted(Line(i)) /\ code' = parse_http_status_line(Line(i))
  BY DEF StatusLine
<1>2. at = "status" /\ code' # 0 /\ Running /\ AwaitsStatus
  BY DEF StatusLine, Running, Reader
<1>3. taken' = i /\ sent' = sent /\ method' = method /\ taken \in Nat /\ i \in Nat
  BY <1>1, LenProperties DEF Reads, TypeOK
<1>4. /\ i \in Heads /\ code' = CodeAt(i) /\ taken < i
      /\ \A j \in Before(i) \cup {i} : WellFormed(j)
      /\ \A j \in Ends : j < i <=> j <= taken
      /\ Heads \cap Before(i) = Heads \cap (1..taken)
      /\ Heads \cap (1..(i - 1)) = Heads \cap (1..taken)
  BY <1>1, <1>2, NextHead
<1>5. i \in Ends /\ \A j \in Ends : j \in Nat /\ j > 0
  BY <1>4, LenProperties DEF Heads, Ends, TypeOK
<1>6. method = "HEAD" => PastHeads(taken) /\ count = Cardinality(Heads \cap (1..taken))
  BY <1>2 DEF AwaitsStatus
<1>7. CASE method = "HEAD" /\ ~ informational(code')
  <2>1. ASSUME NEW h \in Heads \cap Before(i)
        PROVE  informational(CodeAt(h)) /\ \E b \in Before(i) : HeadersEnd(h, b)
    <3>1. h \in Ends /\ h <= taken
      BY <1>4 DEF Before
    <3>2. informational(CodeAt(h)) /\ \E b \in Ends : b <= taken /\ HeadersEnd(h, b)
      BY <1>6, <1>7, <3>1 DEF PastHeads
    <3>3. QED
      BY <1>4, <3>2 DEF Before
  <2>2. Cardinality(Heads \cap Before(i)) <= MaxInformational
    <3>1. Cardinality(Heads \cap Before(i)) = count
      BY <1>4, <1>6, <1>7
    <3>2. count <= MaxInformational
      BY HttpAssumption DEF TypeOK
    <3>3. QED
      BY <3>1, <3>2
  <2>3. FinalStatus(i)
    BY <1>4, <1>7, <2>1, <2>2 DEF FinalStatus
  <2>4. at' = "done" /\ result' = "answered"
    BY <1>7 DEF StatusLine, Finish
  <2>5. QED
    BY <1>3, <1>4, <1>7, <2>3, <2>4, Verdict
<1>8. CASE method = "HEAD" /\ informational(code') /\ count = MaxInformational
  <2>1. ASSUME NEW f \in Ends, FinalStatus(f) PROVE FALSE
    <3>1. taken < f
      BY <1>2, <1>3, <1>5, <1>8, <2>1, NoFinalSoFar
    <3>2. f # i
      BY <1>4, <1>8, <2>1 DEF FinalStatus
    <3>3. i < f
      BY <1>3, <1>4, <1>5, <3>1, <3>2
    <3>4. (Heads \cap (1..taken)) \cup {i} \subseteq Heads \cap Before(f)
      <4> SUFFICES ASSUME NEW j \in (Heads \cap (1..taken)) \cup {i}
                   PROVE  j \in Heads \cap Before(f)
        OBVIOUS
      <4>1. j \in Heads /\ j \in Ends
        BY <1>4 DEF Heads
      <4>2. j \in Nat /\ f \in Nat /\ (j <= taken \/ j = i)
        BY <1>3, <1>5
      <4>3. j < f
        BY <1>3, <3>1, <3>3, <4>2
      <4>4. QED
        BY <4>1, <4>3 DEF Before
    <3>5. /\ IsFiniteSet(Heads \cap (1..taken))
          /\ Cardinality((Heads \cap (1..taken)) \cup {i}) = count + 1
      <4>1. IsFiniteSet(Heads \cap (1..taken)) /\ i \notin Heads \cap (1..taken)
        BY <1>3, <1>4, HeadsFinite
      <4>2. QED
        BY <1>6, <1>8, <4>1, FS_AddElement
    <3>6. /\ IsFiniteSet(Heads \cap Before(f))
          /\ Cardinality(Heads \cap Before(f)) \in Nat
      <4>1. f \in Nat /\ Heads \cap Before(f) \subseteq Heads \cap (1..f)
        <5>1. \A j \in Before(f) : j \in Nat /\ j > 0 /\ j < f
          BY <1>5 DEF Before
        <5>2. f \in Nat
          BY <1>5
        <5>3. \A j \in Before(f) : j \in 1..f
          BY <5>1, <5>2
        <5>4. QED
          BY <5>2, <5>3
      <4>2. IsFiniteSet(Heads \cap (1..f))
        BY <4>1, HeadsFinite
      <4>3. QED
        BY <4>1, <4>2, FS_Subset, FS_CardinalityType
    <3>7. count + 1 <= Cardinality(Heads \cap Before(f))
      BY <3>4, <3>5, <3>6, FS_Subset
    <3>8. Cardinality(Heads \cap Before(f)) <= MaxInformational
      BY <2>1 DEF FinalStatus
    <3>9. QED
      BY <1>8, <3>6, <3>7, <3>8, HttpAssumption
  <2>2. at' = "done" /\ result' = "error"
    BY <1>8 DEF StatusLine, Finish
  <2>3. QED
    BY <1>3, <1>8, <2>1, <2>2, Verdict
<1>9. CASE ~ (method = "HEAD" /\ (~ informational(code') \/ count = MaxInformational))
  <2>1. at' = "headers" /\ total' = 0 /\ count' = count /\ result' = result
    BY <1>9 DEF StatusLine
  <2>2. DrainsHeaders(i)'
    <3>1. /\ Ends' = Ends /\ Heads' = Heads
          /\ \A j : /\ Before(j)' = Before(j)
                    /\ CodeAt(j)' = CodeAt(j)
                    /\ PastHeads(j)' <=> PastHeads(j)
      BY <1>3, SameStream
    <3>2. i \in Heads' /\ i <= taken' /\ code' = CodeAt(i)'
      BY <1>3, <1>4, <3>1
    <3>3. total' = taken' - i /\ total' <= MaxHeaders
      BY <1>3, <2>1, HttpAssumption
    <3>4. \A j \in Ends' : ~ (i < j /\ j <= taken')
      BY <1>3, <1>5, <3>1
    <3>5. method = "CONNECT" => Before(i) = {}
      <4> SUFFICES ASSUME method = "CONNECT", NEW j \in Before(i) PROVE FALSE
        OBVIOUS
      <4>1. taken = 0
        BY <1>2 DEF AwaitsStatus
      <4>2. QED
        BY <1>4, <1>5, <4>1 DEF Before
    <3>6. method = "HEAD" => informational(code') /\ count < MaxInformational
      BY <1>9, HttpAssumption DEF TypeOK
    <3>7. method = "HEAD" => PastHeads(i - 1)
      <4> SUFFICES ASSUME method = "HEAD", NEW h \in Heads, h <= i - 1
                   PROVE  /\ informational(CodeAt(h))
                          /\ \E b \in Ends : b <= i - 1 /\ HeadersEnd(h, b)
        BY DEF PastHeads
      <4>1. h \in Ends /\ h \in Nat
        BY <1>5 DEF Heads
      <4>2. h <= taken
        BY <1>3, <1>4, <4>1
      <4>3. PICK b \in Ends : b <= taken /\ HeadersEnd(h, b)
        BY <1>6, <4>2 DEF PastHeads
      <4>4. informational(CodeAt(h))
        BY <1>6, <4>2 DEF PastHeads
      <4>5. b <= i - 1
        BY <1>3, <1>4, <1>5, <4>3
      <4>6. QED
        BY <4>3, <4>4, <4>5
    <3>8. method = "HEAD" => PastHeads(i - 1)' /\ count = Cardinality(Heads \cap (1..(i - 1)))
      BY <1>4, <1>6, <3>1, <3>7
    <3>9. QED
      BY <1>3, <2>1, <3>1, <3>2, <3>3, <3>4, <3>5, <3>6, <3>8 DEF DrainsHeaders
  <2>3. result = "none" /\ result' = "none"
    BY <1>2, <2>1 DEF Reader
  <2>4. Reader'
    <3>1. Ends' = Ends /\ \A j : WellFormed(j)' <=> WellFormed(j)
      BY <1>3, SameStream
    <3>2. \A j \in Ends' : j <= taken' => WellFormed(j)'
      <4> SUFFICES ASSUME NEW j \in Ends, j <= i PROVE WellFormed(j)
        BY <1>3, <3>1
      <4>1. j \in Before(i) \cup {i}
        BY <1>3, <1>5 DEF Before
      <4>2. QED
        BY <1>4, <4>1
    <3>3. QED
      BY <1>3, <1>5, <2>1, <2>2, <2>3, <3>1, <3>2 DEF Reader
  <2>5. QED
    BY <2>3, <2>4 DEF ExchangeAgrees, TunnelAgrees
<1>10. QED
  BY <1>7, <1>8, <1>9

\* A line of the headers, unless it is the last, leaves the reader within them.
LEMMA NextHeader ==
  ASSUME TypeOK, Reader, Running, NEW h \in Ends, DrainsHeaders(h),
         NEW i \in taken..Len(sent), Reads(i), Accepted(Line(i))
  PROVE  /\ i \in Ends /\ i \in Nat /\ h \in Nat /\ h < i /\ h <= taken /\ taken \in Nat
         /\ taken < i /\ LineAt(i) = Line(i) /\ Len(Line(i)) = i - taken
         /\ \A j \in Ends : j \in Nat /\ j > 0 /\ (j < i => j <= taken) /\ (taken < j => i <= j)
         /\ \A j \in Ends : h < j /\ j <= i => j \notin Heads
         /\ \A j \in Ends : h < j /\ j < i => ~ Blank(j)
         /\ \A j \in Ends : j <= i => WellFormed(j)
<1>1. taken \in Ends \cup {0} /\ \A j \in Ends : j <= taken => WellFormed(j)
  BY DEF Reader
<1>2. /\ i \in Ends /\ i \in Nat /\ taken \in Nat /\ taken < i
      /\ \A j \in Ends : j < i => j <= taken
      /\ \A j \in Ends : taken < j => i <= j
      /\ LineAt(i) = Line(i) /\ Len(Line(i)) = i - taken
      /\ (i \in Heads => CodeAt(i) # 0) => WellFormed(i)
  BY <1>1, LineRead
<1>3. /\ h \in Nat /\ h <= taken /\ \A j \in Ends : j \in Nat /\ j > 0
      /\ \A j \in Ends : h <= j /\ j <= taken => ~ Blank(j)
      /\ \A f \in Ends : h < f /\ (\A j \in Ends : j < f => j <= taken) => f \notin Heads
  BY InHeaders
<1>4. \A j \in Ends : h < j /\ j <= i => j \notin Heads
  <2> SUFFICES ASSUME NEW j \in Ends, h < j, j <= i PROVE j \notin Heads
    OBVIOUS
  <2>1. \A k \in Ends : k < j => k <= taken
    BY <1>2, <1>3
  <2>2. QED
    BY <1>3, <2>1
<1>5. h < i /\ i \notin Heads
  BY <1>2, <1>3, <1>4
<1>6. \A j \in Ends : j <= i => WellFormed(j)
  BY <1>1, <1>2, <1>3, <1>5
<1>7. \A j \in Ends : h < j /\ j < i => ~ Blank(j)
  BY <1>2, <1>3
<1>8. QED
  BY <1>2, <1>3, <1>4, <1>5, <1>6, <1>7

LEMMA HeaderKeeps ==
  ASSUME TypeOK, Reader, HeaderLine
  PROVE  Reader' /\ ExchangeAgrees' /\ TunnelAgrees'
<1>1. PICK i \in taken..Len(sent) :
        /\ Reads(i) /\ Accepted(Line(i)) /\ total' = total + Len(Line(i))
        /\ IF total' > MaxHeaders THEN Finish("error") /\ UNCHANGED count
           ELSE IF Line(i) = <<CR, LF>> THEN Drained
           ELSE UNCHANGED <<at, count, result>>
  BY DEF HeaderLine
<1>2. at = "headers" /\ code' = code /\ Running
  BY DEF HeaderLine, Running
<1>3. taken' = i /\ sent' = sent /\ method' = method
  BY <1>1 DEF Reads
<1>4. PICK h \in Ends : DrainsHeaders(h)
  BY <1>2 DEF Reader
<1>5. /\ i \in Ends /\ i \in Nat /\ h \in Nat /\ h < i /\ h <= taken /\ taken \in Nat
      /\ taken < i /\ LineAt(i) = Line(i) /\ Len(Line(i)) = i - taken
      /\ \A j \in Ends : j \in Nat /\ j > 0 /\ (j < i => j <= taken) /\ (taken < j => i <= j)
      /\ \A j \in Ends : h < j /\ j <= i => j \notin Heads
      /\ \A j \in Ends : h < j /\ j < i => ~ Blank(j)
      /\ \A j \in Ends : j <= i => WellFormed(j)
  BY <1>1, <1>2, <1>4, NextHeader
<1>6. total' = i - h
  <2>1. total = taken - h /\ total' = total + (i - taken)
    BY <1>1, <1>4, <1>5 DEF DrainsHeaders
  <2>2. QED
    BY <1>5, <2>1
<1>7. h \in Heads /\ code = CodeAt(h) /\ (method = "CONNECT" => Before(h) = {})
  BY <1>4 DEF DrainsHeaders
<1>8. method = "HEAD" => /\ informational(code) /\ PastHeads(h - 1)
                         /\ count = Cardinality(Heads \cap (1..(h - 1)))
  BY <1>4 DEF DrainsHeaders
<1>9. CASE total' > MaxHeaders
  <2>1. ASSUME NEW b \in Ends, HeadersEnd(h, b) PROVE FALSE
    <3>1. h < b /\ Blank(b) /\ b - h <= MaxHeaders
      BY <2>1 DEF HeadersEnd
    <3>2. ~ (b < i)
      BY <1>5, <3>1
    <3>3. b \in Nat /\ MaxHeaders \in Nat
      BY <1>5, HttpAssumption
    <3>4. QED
      BY <1>5, <1>6, <1>9, <3>1, <3>2, <3>3
  <2>2. ASSUME method = "HEAD", NEW f \in Ends, FinalStatus(f) PROVE FALSE
    <3>1. taken < f
      BY <1>2, <1>5, <2>2, NoFinalSoFar
    <3>2. h \in Heads \cap Before(f)
      <4>1. f \in Nat /\ h < f
        BY <1>5, <3>1
      <4>2. QED
        BY <1>7, <4>1 DEF Before
    <3>3. PICK b \in Before(f) : HeadersEnd(h, b)
      BY <2>2, <3>2 DEF FinalStatus
    <3>4. QED
      BY <2>1, <3>3 DEF Before
  <2>3. ASSUME method = "CONNECT", NEW g \in Ends, NEW b \in Ends, Response(g, b) PROVE FALSE
    <3>1. Before(g) = {} /\ Before(h) = {} /\ HeadersEnd(g, b)
      BY <1>7, <2>3 DEF Response
    <3>2. g = h
      BY <1>5, <3>1 DEF Before
    <3>3. QED
      BY <2>1, <3>1, <3>2
  <2>4. at' = "done" /\ result' = "error"
    BY <1>1, <1>9 DEF Finish
  <2>5. QED
    BY <1>3, <2>2, <2>3, <2>4, Verdict
<1>10. CASE total' <= MaxHeaders /\ Line(i) = <<CR, LF>>
  <2>1. Drained
    <3>1. ~ (total' > MaxHeaders)
      BY <1>5, <1>6, <1>10, HttpAssumption
    <3>2. QED
      BY <1>1, <1>10, <3>1
  <2>2. HeadersEnd(h, i)
    <3>1. Blank(i)
      BY <1>5, <1>10 DEF Blank
    <3>2. QED
      BY <1>5, <1>6, <1>10, <3>1 DEF HeadersEnd, Before
  <2>3. CASE method = "HEAD"
    <3>1. at' = "status" /\ count' = count + 1 /\ result' = result
      BY <2>1, <2>3 DEF Drained
    <3>2. PastHeads(i)
      <4> SUFFICES ASSUME NEW g \in Heads, g <= i
                   PROVE  /\ informational(CodeAt(g))
                          /\ \E b \in Ends : b <= i /\ HeadersEnd(g, b)
        BY DEF PastHeads
      <4>1. g \in Ends /\ g \in Nat
        BY <1>5 DEF Heads
      <4>2. CASE g <= h - 1
        <5>1. informational(CodeAt(g)) /\ \E b \in Ends : b <= h - 1 /\ HeadersEnd(g, b)
          BY <1>8, <2>3, <4>2 DEF PastHeads
        <5>2. QED
          BY <1>5, <5>1
      <4>3. CASE g = h
        BY <1>5, <1>7, <1>8, <2>2, <2>3, <4>3
      <4>4. QED
        BY <1>5, <4>1, <4>2, <4>3
    <3>3. count' = Cardinality(Heads \cap (1..i))
      <4>1. Heads \cap (1..i) = (Heads \cap (1..(h - 1))) \cup {h}
        <5>1. \A g \in Heads : g \in Ends /\ g \in Nat /\ g > 0
          BY <1>5 DEF Heads
        <5>2. \A g \in Heads : g \in 1..i <=> g \in 1..(h - 1) \/ g = h
          BY <1>5, <5>1
        <5>3. QED
          BY <1>7, <5>2
      <4>2. h - 1 \in Nat /\ h \notin Heads \cap (1..(h - 1))
        BY <1>5
      <4>3. IsFiniteSet(Heads \cap (1..(h - 1)))
        BY <4>2, HeadsFinite
      <4>4. Cardinality((Heads \cap (1..(h - 1))) \cup {h}) = count + 1
        BY <1>8, <2>3, <4>2, <4>3, FS_AddElement
      <4>5. QED
        BY <3>1, <4>1, <4>4
    <3>4. /\ Ends' = Ends /\ Heads' = Heads
          /\ Blank(i)' /\ PastHeads(i)' /\ \A j : WellFormed(j)' <=> WellFormed(j)
      BY <1>3, <2>2, <3>2, SameStream DEF HeadersEnd
    <3>5. Blank(taken)' /\ PastHeads(taken)'
      BY <1>3, <3>4, ConsumedTo
    <3>6. AwaitsStatus'
      BY <1>3, <2>3, <3>3, <3>4, <3>5 DEF AwaitsStatus
    <3>7. result' = "none"
      BY <1>2, <3>1 DEF Reader
    <3>8. Reader'
      BY <1>3, <1>5, <3>1, <3>4, <3>6, <3>7 DEF Reader
    <3>9. QED
      BY <3>7, <3>8 DEF ExchangeAgrees, TunnelAgrees
  <2>4. CASE method = "CONNECT"
    <3>1. Response(h, i)
      BY <1>5, <1>7, <2>2, <2>4 DEF Response, Before
    <3>2. /\ at' = "done" /\ result' \in {"answered", "refused"}
          /\ result' = "answered" <=> code \in 200..299
      BY <2>1, <2>4 DEF Drained, Finish
    <3>3. code' = CodeAt(h) /\ (result' = "answered" <=> code' \in 200..299)
      BY <1>2, <1>7, <3>2
    <3>4. QED
      BY <1>3, <2>4, <3>1, <3>2, <3>3, Verdict
  <2>5. QED
    BY <2>3, <2>4 DEF TypeOK
<1>11. CASE total' <= MaxHeaders /\ Line(i) # <<CR, LF>>
  <2>1. UNCHANGED <<at, count, result>>
    <3>1. ~ (total' > MaxHeaders)
      BY <1>5, <1>6, <1>11, HttpAssumption
    <3>2. QED
      BY <1>1, <1>11, <3>1
  <2>2. /\ Ends' = Ends /\ Heads' = Heads
        /\ \A j : /\ Before(j)' = Before(j)
                  /\ Blank(j)' <=> Blank(j)
                  /\ CodeAt(j)' = CodeAt(j)
                  /\ WellFormed(j)' <=> WellFormed(j)
                  /\ PastHeads(j)' <=> PastHeads(j)
    BY <1>3, SameStream
  <2>3. ~ Blank(i)
    BY <1>5, <1>11 DEF Blank
  <2>4. DrainsHeaders(h)'
    <3>1. h \in Heads' /\ h <= taken' /\ code' = CodeAt(h)'
      BY <1>2, <1>3, <1>5, <1>7, <2>2
    <3>2. total' = taken' - h /\ total' <= MaxHeaders
      BY <1>3, <1>6, <1>11
    <3>3. \A j \in Ends' : h < j /\ j <= taken' => ~ Blank(j)'
      BY <1>3, <1>5, <2>2, <2>3
    <3>4. PastHeads(h - 1)' <=> PastHeads(h - 1)
      BY <2>2
    <3>5. method = "HEAD" => count < MaxInformational
      BY <1>4 DEF DrainsHeaders
    <3>6. QED
      BY <1>2, <1>3, <1>7, <1>8, <2>1, <2>2, <3>1, <3>2, <3>3, <3>4, <3>5 DEF DrainsHeaders
  <2>5. result' = "none"
    BY <1>2, <2>1 DEF Reader
  <2>6. Reader'
    BY <1>2, <1>3, <1>5, <2>1, <2>2, <2>4, <2>5 DEF Reader
  <2>7. QED
    BY <2>5, <2>6 DEF ExchangeAgrees, TunnelAgrees
<1>12. QED
  <2>1. total' \in Nat /\ MaxHeaders \in Nat
    BY <1>5, <1>6, HttpAssumption
  <2>2. QED
    BY <1>9, <1>10, <1>11, <2>1

------------------------------------------------------------------------------
LEMMA HInvHolds == Spec => []HInv
<1>1. Init => HInv
  <2>1. Init => ExchangeAgrees /\ TunnelAgrees
    BY DEF Init, ExchangeAgrees, TunnelAgrees
  <2>2. QED
    BY <2>1, BudgetInit, ReaderInit DEF HInv
<1>2. HInv /\ [Next]_vars => HInv'
  <2> SUFFICES ASSUME HInv, [Next]_vars PROVE HInv'
    OBVIOUS
  <2>1. TypeOK /\ Reader /\ Budget /\ BoundedReading /\ ExchangeAgrees /\ TunnelAgrees
    BY DEF HInv
  <2>2. TypeOK' /\ Budget' /\ BoundedReading'
    BY <2>1, BudgetStep
  <2>3. Reader' /\ ExchangeAgrees' /\ TunnelAgrees'
    <3>1. CASE UNCHANGED vars
      BY <2>1, <3>1, NothingRead DEF vars
    <3>2. CASE Close
      BY <2>1, <3>2, NothingRead DEF Close
    <3>3. CASE Send
      <4>1. Reader'
        BY <2>1, <3>3, SendKeeps
      <4>2. result' = "none"
        BY <2>1, <3>3 DEF Send, Reader, Running
      <4>3. QED
        BY <4>1, <4>2 DEF ExchangeAgrees, TunnelAgrees
    <3>4. CASE MalformedLine
      BY <2>1, <3>4, MalformedKeeps
    <3>5. CASE StatusLine
      BY <2>1, <3>5, StatusKeeps
    <3>6. CASE HeaderLine
      BY <2>1, <3>6, HeaderKeeps
    <3>7. ASSUME NEW r \in {"timeout", "io"}, Abandon(r)
          PROVE  Reader' /\ ExchangeAgrees' /\ TunnelAgrees'
      <4>1. PICK t : taken' = t
        OBVIOUS
      <4>2. sent' = sent /\ method' = method /\ at' = "done" /\ result' \in {"timeout", "io"}
        BY <3>7 DEF Abandon, Finish
      <4>3. QED
        BY <2>1, <4>1, <4>2, Verdict
    <3>8. QED
      BY <3>1, <3>2, <3>3, <3>4, <3>5, <3>6, <3>7 DEF Next
  <2>4. QED
    BY <2>2, <2>3 DEF HInv
<1>3. QED
  BY <1>1, <1>2, PTL DEF Spec

\* Every variable keeps its range: no more informational responses are counted
\* than MAX_INFORMATIONAL_RESPONSES, no more header bytes than the limit and a line.
THEOREM HttpTypeOK == Spec => []TypeOK
<1>1. HInv => TypeOK
  BY DEF HInv
<1>2. QED
  BY <1>1, HInvHolds, PTL

\* Whatever the peer sends, http_exchange_with_request and http_connect consume
\* only so much of it before they give up.
THEOREM HttpBoundedReading == Spec => []BoundedReading
<1>1. HInv => BoundedReading
  BY DEF HInv
<1>2. QED
  BY <1>1, HInvHolds, PTL

\* http_exchange_with_request answers with the final response of the stream,
\* read to the end of its status line, and is an error only if there is none.
THEOREM HttpExchangeAgrees == Spec => []ExchangeAgrees
<1>1. HInv => ExchangeAgrees
  BY DEF HInv
<1>2. QED
  BY <1>1, HInvHolds, PTL

\* http_connect opens a tunnel exactly after a complete 2xx response read to
\* its last byte, and reports an error only if the stream holds no response.
THEOREM HttpTunnelAgrees == Spec => []TunnelAgrees
<1>1. HInv => TunnelAgrees
  BY DEF HInv
<1>2. QED
  BY <1>1, HInvHolds, PTL

------------------------------------------------------------------------------
\* The replies read so far, by their bytes.
Opened == Len(replies) >= 2 /\ replies[1] = 5 /\ replies[2] = Method

LetIn ==
  /\ Opened
  /\ credentials # "none" => Len(replies) >= 4 /\ replies[3] = 1 /\ replies[4] = 0

Opening == IF credentials = "none" THEN 2 ELSE 4

\* What the client has read when it waits for more.
Client ==
  /\ reading = "done" <=> outcome # "none"
  /\ reading = "greeting" => used = 0 /\ needed = 2
  /\ reading = "auth" => used = 2 /\ needed = 2 /\ credentials = "fit" /\ Opened
  /\ reading = "request" => used = Opening /\ needed = 0 /\ LetIn
  /\ reading = "header" => used = Opening /\ needed = 4 /\ LetIn
  /\ reading \in {"length", "remainder"} =>
       LetIn /\ replies[Opening + 1] = 5 /\ replies[Opening + 2] = 0
  /\ reading = "length" =>
       used = Opening + 4 /\ needed = 1 /\ replies[Opening + 4] = 3
  /\ reading = "remainder" =>
       \/ /\ used = Opening + 4 /\ replies[Opening + 4] \in {1, 4}
          /\ needed = AddressBytes[replies[Opening + 4]] + 2
       \/ /\ used = Opening + 5 /\ replies[Opening + 4] = 3
          /\ needed = replies[Opening + 5] + 2
  /\ reading \in {"header", "length", "remainder"} =>
       Len(wrote) > 0 /\ wrote[Len(wrote)] = "request"

SocksInv == SocksTypeOK /\ Client /\ Socks5Agrees

LEMMA PrefixElements ==
  ASSUME NEW S, NEW s \in Seq(S), NEW t \in Seq(S)
  PROVE  IsPrefix(s, t) <=> Len(s) <= Len(t) /\ \A k \in 1..Len(s) : s[k] = t[k]
<1>1. Len(s) \in Nat /\ Len(t) \in Nat
  BY LenProperties
<1>2. ASSUME Len(s) <= Len(t)
      PROVE  /\ SubSeq(s, 1, Len(s)) = s
             /\ SubSeq(t, 1, Len(s)) \in Seq(S) /\ Len(SubSeq(t, 1, Len(s))) = Len(s)
             /\ \A k \in 1..Len(s) : SubSeq(t, 1, Len(s))[k] = t[k]
  <2>1. \A k \in 1..Len(s) : k \in 1..Len(t)
    BY <1>1, <1>2
  <2>2. SubSeq(s, 1, Len(s)) = s
    BY SubSeqFull
  <2>3. CASE Len(s) = 0
    BY <1>1, <2>2, <2>3, SubSeqProperties
  <2>4. CASE Len(s) > 0
    <3>1. 1 \in 1..Len(t) /\ Len(s) \in 1..Len(t)
      BY <1>1, <1>2, <2>4
    <3>2. /\ SubSeq(t, 1, Len(s)) \in Seq(S) /\ Len(SubSeq(t, 1, Len(s))) = Len(s) - 1 + 1
          /\ \A k \in 1..(Len(s) - 1 + 1) : SubSeq(t, 1, Len(s))[k] = t[1 + k - 1]
      BY <1>1, <2>4, <3>1, SubSeqProperties
    <3>3. QED
      BY <1>1, <2>2, <3>2
  <2>5. QED
    BY <1>1, <2>3, <2>4
<1>3. QED
  BY <1>1, <1>2, SeqEqual DEF IsPrefix

\* What is matched against the replies, by their bytes.
LEMMA PrefixBytes ==
  ASSUME SocksTypeOK
  PROVE  /\ Len(Handshake) = Opening
         /\ IsPrefix(Handshake, replies) <=> LetIn
         /\ IsPrefix(<<5, 2>>, replies) <=>
              Len(replies) >= 2 /\ replies[1] = 5 /\ replies[2] = 2
<1>1. replies \in Seq(Octet) /\ Len(replies) \in Nat
  BY LenProperties DEF SocksTypeOK
<1>8. \A s, u \in Seq(Octet) :
        IsPrefix(s, u) <=> Len(s) <= Len(u) /\ \A k \in 1..Len(s) : s[k] = u[k]
  BY PrefixElements
<1>2. ASSUME NEW a \in Octet, NEW b \in Octet
      PROVE  IsPrefix(<<a, b>>, replies) <=>
               Len(replies) >= 2 /\ replies[1] = a /\ replies[2] = b
  <2>1. <<a, b>> \in Seq(Octet) /\ Len(<<a, b>>) = 2
    OBVIOUS
  <2>2. IsPrefix(<<a, b>>, replies) <=>
          2 <= Len(replies) /\ \A k \in 1..2 : <<a, b>>[k] = replies[k]
    <3> DEFINE t == <<a, b>>
    <3>1. t \in Seq(Octet) /\ Len(t) = 2
      BY <2>1
    <3> HIDE DEF t
    <3>2. IsPrefix(t, replies) <=>
            Len(t) <= Len(replies) /\ \A k \in 1..Len(t) : t[k] = replies[k]
      BY <1>1, <1>8, <3>1, Zenon
    <3>3. QED
      BY <3>1, <3>2 DEF t
  <2>3. \A k : k \in 1..2 <=> k = 1 \/ k = 2
    OBVIOUS
  <2>4. QED
    BY <1>1, <2>2, <2>3
<1>3. ASSUME NEW a \in Octet, NEW b \in Octet, NEW c \in Octet, NEW d \in Octet
      PROVE  IsPrefix(<<a, b, c, d>>, replies) <=>
               /\ Len(replies) >= 4 /\ replies[1] = a /\ replies[2] = b
               /\ replies[3] = c /\ replies[4] = d
  <2>1. <<a, b, c, d>> \in Seq(Octet) /\ Len(<<a, b, c, d>>) = 4
    OBVIOUS
  <2>2. IsPrefix(<<a, b, c, d>>, replies) <=>
          4 <= Len(replies) /\ \A k \in 1..4 : <<a, b, c, d>>[k] = replies[k]
    <3> DEFINE t == <<a, b, c, d>>
    <3>1. t \in Seq(Octet) /\ Len(t) = 4
      BY <2>1
    <3> HIDE DEF t
    <3>2. IsPrefix(t, replies) <=>
            Len(t) <= Len(replies) /\ \A k \in 1..Len(t) : t[k] = replies[k]
      BY <1>1, <1>8, <3>1, Zenon
    <3>3. QED
      BY <3>1, <3>2 DEF t
  <2>3. \A k : k \in 1..4 <=> k = 1 \/ k = 2 \/ k = 3 \/ k = 4
    OBVIOUS
  <2>4. QED
    BY <1>1, <2>2, <2>3
<1>4. CASE credentials = "none"
  <2>1. IsPrefix(<<5, 0>>, replies) <=> LetIn
    BY <1>2, <1>4, OctetAssumption DEF LetIn, Opened, Method
  <2>2. QED
    BY <1>2, <1>4, <2>1, OctetAssumption DEF Handshake, Opening
<1>5. CASE credentials # "none"
  <2>1. IsPrefix(<<5, 2, 1, 0>>, replies) <=> LetIn
    BY <1>1, <1>3, <1>5, OctetAssumption DEF LetIn, Opened, Method
  <2>2. QED
    BY <1>2, <1>5, <2>1, OctetAssumption DEF Handshake, Opening
<1>6. QED
  BY <1>4, <1>5

LEMMA GrantBytes ==
  ASSUME SocksTypeOK, NEW n \in 1..Len(replies)
  PROVE  Grants(n) <=>
           /\ LetIn /\ n >= Opening + 5
           /\ replies[Opening + 1] = 5 /\ replies[Opening + 2] = 0
           /\ \/ /\ replies[Opening + 4] \in {1, 4}
                 /\ n = Opening + 4 + AddressBytes[replies[Opening + 4]] + 2
              \/ /\ replies[Opening + 4] = 3
                 /\ n = Opening + 4 + 1 + replies[Opening + 5] + 2
<1> DEFINE grant == SubSeq(replies, Opening + 1, n)
<1>1. /\ Len(Handshake) = Opening /\ Opening \in Nat /\ (IsPrefix(Handshake, replies) <=> LetIn)
      /\ replies \in Seq(Octet) /\ Len(replies) \in Nat /\ n \in Nat
  BY PrefixBytes, LenProperties DEF SocksTypeOK, Opening
<1>2. /\ n >= Opening + 1 => Len(grant) = n - Opening
      /\ n >= Opening + 1 => \A k \in 1..(n - Opening) : grant[k] = replies[Opening + k]
      /\ n < Opening + 1 => Len(grant) = 0
  <2>1. CASE n >= Opening + 1
    <3>1. Opening + 1 \in 1..Len(replies) /\ n \in Opening + 1 .. Len(replies)
      BY <1>1, <2>1
    <3>2. /\ Len(grant) = n - (Opening + 1) + 1
          /\ \A k \in 1..(n - (Opening + 1) + 1) : grant[k] = replies[Opening + 1 + k - 1]
      BY <1>1, <3>1, SubSeqProperties
    <3> HIDE DEF grant
    <3>3. QED
      BY <1>1, <2>1, <3>2
  <2>2. CASE n < Opening + 1
    BY <1>1, <2>2, SubSeqProperties
  <2>3. QED
    BY <1>1, <2>1, <2>2
<1>3. Grants(n) <=> /\ LetIn /\ Len(grant) >= 5
                    /\ grant[1] = 5 /\ grant[2] = 0 /\ grant[4] \in {1, 3, 4}
                    /\ Len(grant) = 4 + (IF grant[4] = 3 THEN 1 + grant[5]
                                         ELSE AddressBytes[grant[4]]) + 2
  BY <1>1 DEF Grants
<1> HIDE DEF grant
<1>4. Len(grant) >= 5 <=> n >= Opening + 5
  BY <1>1, <1>2
<1>5. CASE n >= Opening + 5
  <2>1. /\ Len(grant) = n - Opening
        /\ grant[1] = replies[Opening + 1] /\ grant[2] = replies[Opening + 2]
        /\ grant[4] = replies[Opening + 4] /\ grant[5] = replies[Opening + 5]
    BY <1>1, <1>2, <1>5
  <2>2. replies[Opening + 5] \in Nat /\ \A k \in {1, 4} : AddressBytes[k] \in Nat
    <3>1. Opening + 5 \in 1..Len(replies)
      BY <1>1, <1>5
    <3>2. replies[Opening + 5] \in Octet
      BY <1>1, <3>1, ElementOfSeq
    <3>3. \A o \in Octet : o \in Nat
      BY OctetAssumption
    <3>4. \A k \in {1, 4} : AddressBytes[k] \in Nat
      BY AddressBytesAssumption
    <3>5. QED
      BY <3>2, <3>3, <3>4
  <2>3. PICK k : k = replies[Opening + 4]
    OBVIOUS
  <2>4. PICK l : l = replies[Opening + 5] /\ l \in Nat
    BY <2>2
  <2>5. Grants(n) <=> /\ LetIn /\ replies[Opening + 1] = 5 /\ replies[Opening + 2] = 0
                      /\ k \in {1, 3, 4}
                      /\ n - Opening = 4 + (IF k = 3 THEN 1 + l ELSE AddressBytes[k]) + 2
    <3>1. Len(grant) >= 5 /\ Len(grant) = n - Opening
      BY <1>4, <1>5, <2>1
    <3>2. grant[4] = k /\ grant[5] = l
      BY <2>1, <2>3, <2>4
    <3>3. grant[1] = replies[Opening + 1] /\ grant[2] = replies[Opening + 2]
      BY <2>1
    <3>4. QED
      BY <1>3, <3>1, <3>2, <3>3, Zenon
  <2>6. CASE k = 3
    <3>1. n - Opening = 4 + (1 + l) + 2 <=> n = Opening + 4 + 1 + l + 2
      <4>1. \A x, y, z \in Nat : x - y = 4 + (1 + z) + 2 <=> x = y + 4 + 1 + z + 2
        OBVIOUS
      <4>2. n \in Nat /\ Opening \in Nat /\ l \in Nat
        BY <1>1, <2>4
      <4>3. QED
        BY <4>1, <4>2
    <3>2. QED
      BY <1>5, <2>3, <2>4, <2>5, <2>6, <3>1
  <2>7. CASE k \in {1, 4}
    <3>1. PICK m \in Nat : m = AddressBytes[k]
      BY <2>2, <2>7
    <3>2. n - Opening = 4 + m + 2 <=> n = Opening + 4 + m + 2
      <4>1. \A x, y, z \in Nat : x - y = 4 + z + 2 <=> x = y + 4 + z + 2
        OBVIOUS
      <4>2. n \in Nat /\ Opening \in Nat /\ m \in Nat
        BY <1>1, <3>1
      <4>3. QED
        BY <4>1, <4>2
    <3>3. k # 3 /\ k \in {1, 3, 4}
      BY <2>7
    <3>4. Grants(n) <=> /\ LetIn /\ replies[Opening + 1] = 5 /\ replies[Opening + 2] = 0
                        /\ n = Opening + 4 + m + 2
      BY <2>5, <3>1, <3>2, <3>3
    <3>5. QED
      BY <1>5, <2>3, <2>7, <3>1, <3>3, <3>4
  <2>8. CASE k \notin {1, 3, 4}
    BY <2>3, <2>5, <2>8
  <2>9. QED
    BY <2>6, <2>7, <2>8
<1>6. QED
  BY <1>3, <1>4, <1>5

\* Socks5Agrees by its conjuncts.
Tunnelled == outcome = "connected" => Grants(used) /\ wrote[Len(wrote)] = "request"
Faulted == outcome \in {"denied", "refused", "invalid_data", "eof"} =>
             \A n \in DOMAIN replies : ~ Grants(n)
Written ==
  \A i \in DOMAIN wrote :
    /\ wrote[i] = "credentials" => IsPrefix(<<5, 2>>, replies)
    /\ wrote[i] = "request" => IsPrefix(Handshake, replies)

LEMMA SocksParts ==
  ASSUME SocksInv
  PROVE  /\ SocksTypeOK /\ Client /\ Tunnelled /\ Faulted /\ Written
         /\ replies \in Seq(Octet) /\ Len(replies) \in Nat /\ used \in Nat /\ needed \in Nat
         /\ used <= Len(replies) /\ DOMAIN replies = 1..Len(replies) /\ Opening \in {2, 4}
<1>1. SocksTypeOK /\ Client /\ Tunnelled /\ Faulted /\ Written
  BY DEF SocksInv, Socks5Agrees, Tunnelled, Faulted, Written
<1>2. replies \in Seq(Octet) /\ Len(replies) \in Nat /\ DOMAIN replies = 1..Len(replies)
  BY <1>1, LenProperties DEF SocksTypeOK
<1>3. used \in Nat /\ needed \in Nat /\ used <= Len(replies)
  BY <1>1, <1>2 DEF SocksTypeOK
<1>4. QED
  BY <1>1, <1>2, <1>3 DEF Opening

LEMMA SocksInitial == SocksInit => SocksInv
<1> SUFFICES ASSUME SocksInit PROVE SocksInv
  OBVIOUS
<1>1. /\ replies \in Seq(Octet) /\ Len(replies) = 0
      /\ wrote \in Seq({"greeting", "credentials", "request"}) /\ DOMAIN wrote = {1}
  BY EmptySeq DEF SocksInit
<1>2. SocksTypeOK
  <2>1. used \in 0..Len(replies) /\ needed \in 0..257
    BY <1>1 DEF SocksInit
  <2>2. QED
    BY <1>1, <2>1, Zenon DEF SocksInit, SocksTypeOK
<1>3. Client
  BY DEF SocksInit, Client
<1>4. Socks5Agrees
  BY <1>1 DEF SocksInit, Socks5Agrees
<1>5. QED
  BY <1>2, <1>3, <1>4 DEF SocksInv

\* As long as no reply arrives what they say is the same.
LEMMA SameReplies ==
  ASSUME replies' = replies, credentials' = credentials
  PROVE  /\ (Opened' <=> Opened) /\ (LetIn' <=> LetIn) /\ Opening' = Opening
         /\ Handshake' = Handshake
         /\ IsPrefix(Handshake, replies)' <=> IsPrefix(Handshake, replies)
         /\ \A n : Grants(n)' <=> Grants(n)
<1>1. (Opened' <=> Opened) /\ Opening' = Opening /\ Handshake' = Handshake
  BY DEF Opened, Opening, Handshake, Method
<1>2. LetIn' <=> LetIn
  BY <1>1 DEF LetIn
<1>3. IsPrefix(Handshake, replies)' <=> IsPrefix(Handshake, replies)
  BY <1>1
<1>4. \A n : Grants(n)' <=> Grants(n)
  BY <1>1 DEF Grants
<1>5. QED
  BY <1>1, <1>2, <1>3, <1>4

\* The error of a client that gives up is the proxy's fault only if no grant came.
LEMMA FailKeeps ==
  ASSUME SocksInv, UNCHANGED <<credentials, replies>>, ended' \in BOOLEAN,
         used' \in 0..Len(replies),
         NEW error \in {"denied", "invalid_input", "no_request", "refused",
                        "invalid_data", "eof", "timeout", "io"},
         Fail(error),
         error \in {"denied", "refused", "invalid_data", "eof"} =>
           \A n \in DOMAIN replies : ~ Grants(n)
  PROVE  SocksInv'
<1>1. /\ reading' = "done" /\ outcome' = error /\ needed' = needed /\ wrote' = wrote
      /\ replies' = replies /\ credentials' = credentials
  BY DEF Fail
<1>2. SocksTypeOK /\ Written
  BY SocksParts
<1>3. SocksTypeOK'
  BY <1>1, <1>2 DEF SocksTypeOK
<1>4. Client'
  BY <1>1 DEF Client
<1>5. /\ Handshake' = Handshake
      /\ \A n : Grants(n)' <=> Grants(n)
  BY <1>1, SameReplies
<1>6. Socks5Agrees'
  BY <1>1, <1>2, <1>5 DEF Socks5Agrees, Written
<1>7. QED
  BY <1>3, <1>4, <1>6 DEF SocksInv

\* A client that reads on has been denied nothing yet.
LEMMA AwaitKeeps ==
  ASSUME SocksInv, UNCHANGED <<credentials, replies, ended, wrote>>, Negotiating,
         reading' # "done", outcome' = outcome, SocksTypeOK', Client'
  PROVE  SocksInv'
<1>1. Written /\ outcome = "none"
  BY SocksParts DEF Client, Negotiating
<1>2. Handshake' = Handshake
  BY SameReplies
<1>3. Socks5Agrees'
  BY <1>1, <1>2 DEF Socks5Agrees, Written
<1>4. QED
  BY <1>3 DEF SocksInv

\* A message goes out after what the proxy must have said before it.
LEMMA WriteKeeps ==
  ASSUME SocksInv, UNCHANGED <<credentials, replies, ended>>, Negotiating,
         NEW message \in {"credentials", "request"}, wrote' = Append(wrote, message),
         message = "credentials" => IsPrefix(<<5, 2>>, replies),
         message = "request" => IsPrefix(Handshake, replies),
         reading' # "done", outcome' = outcome, SocksTypeOK', Client'
  PROVE  SocksInv'
<1>1. Written /\ outcome = "none" /\ SocksTypeOK
  BY SocksParts DEF Client, Negotiating
<1>2. Handshake' = Handshake
  BY SameReplies
<1>3. /\ Len(wrote) \in Nat /\ DOMAIN wrote = 1..Len(wrote)
      /\ Len(wrote') = Len(wrote) + 1 /\ DOMAIN wrote' = 1..(Len(wrote) + 1)
      /\ \A i \in 1..Len(wrote) : wrote'[i] = wrote[i]
      /\ wrote'[Len(wrote) + 1] = message
  BY <1>1, LenProperties, AppendProperties DEF SocksTypeOK
<1>4. \A i \in DOMAIN wrote' : /\ wrote'[i] = "credentials" => IsPrefix(<<5, 2>>, replies)
                               /\ wrote'[i] = "request" => IsPrefix(Handshake, replies)
  <2> SUFFICES ASSUME NEW i \in DOMAIN wrote'
               PROVE  /\ wrote'[i] = "credentials" => IsPrefix(<<5, 2>>, replies)
                      /\ wrote'[i] = "request" => IsPrefix(Handshake, replies)
    OBVIOUS
  <2>1. CASE i \in 1..Len(wrote)
    BY <1>1, <1>3, <2>1 DEF Written
  <2>2. CASE i = Len(wrote) + 1
    BY <1>3, <2>2
  <2>3. QED
    BY <1>3, <2>1, <2>2
<1>5. Socks5Agrees'
  BY <1>1, <1>2, <1>4 DEF Socks5Agrees
<1>6. QED
  BY <1>5 DEF SocksInv

\* One more byte of the replies changes nothing about those before it.
LEMMA ReplyKeeps ==
  ASSUME SocksInv, Reply
  PROVE  SocksInv'
<1>1. PICK b \in Octet : replies' = Append(replies, b)
  BY DEF Reply
<1>2. UNCHANGED <<credentials, ended, used, reading, needed, wrote, outcome>> /\ Negotiating
  BY DEF Reply
<1>3. /\ SocksTypeOK /\ Client /\ Written
      /\ replies \in Seq(Octet) /\ Len(replies) \in Nat /\ used \in Nat /\ needed \in Nat
      /\ used <= Len(replies) /\ Opening \in {2, 4}
  BY SocksParts
<1>4. /\ replies' \in Seq(Octet) /\ Len(replies') = Len(replies) + 1
      /\ \A k \in 1..Len(replies) : replies'[k] = replies[k]
  BY <1>1, <1>3, AppendProperties
<1>5. SocksTypeOK'
  <2>1. used' \in 0..Len(replies')
    BY <1>2, <1>3, <1>4
  <2>2. QED
    BY <1>2, <1>3, <1>4, <2>1 DEF SocksTypeOK
<1>6. Opening' = Opening /\ Method' = Method /\ Handshake' = Handshake
  BY <1>2 DEF Opening, Method, Handshake
<1>7. (Opened => Opened') /\ (LetIn => LetIn')
  BY <1>2, <1>3, <1>4, <1>6 DEF Opened, LetIn
<1>8. ASSUME used >= Opening + 4
      PROVE  \A k \in 1..4 : replies'[Opening + k] = replies[Opening + k]
  BY <1>3, <1>4, <1>8
<1>9. ASSUME used >= Opening + 5
      PROVE  replies'[Opening + 5] = replies[Opening + 5]
  BY <1>3, <1>4, <1>9
<1>10. Client'
  <2>1. /\ used' = used /\ reading' = reading /\ needed' = needed /\ wrote' = wrote
        /\ outcome' = outcome /\ credentials' = credentials
    BY <1>2
  <2>2. reading = "length" => used = Opening + 4 /\ used >= Opening + 4
    BY <1>3 DEF Client
  <2>3. reading = "remainder" => used >= Opening + 4
    BY <1>3 DEF Client
  <2>4. reading \in {"length", "remainder"} =>
          /\ replies'[Opening + 1] = replies[Opening + 1]
          /\ replies'[Opening + 2] = replies[Opening + 2]
          /\ replies'[Opening + 4] = replies[Opening + 4]
    BY <1>8, <2>2, <2>3
  <2>5. reading = "remainder" =>
          \/ /\ used = Opening + 4 /\ replies'[Opening + 4] \in {1, 4}
             /\ needed = AddressBytes[replies'[Opening + 4]] + 2
          \/ /\ used = Opening + 5 /\ replies'[Opening + 4] = 3
             /\ needed = replies'[Opening + 5] + 2
    BY <1>3, <1>9, <2>4 DEF Client
  <2>6. QED
    BY <1>3, <1>6, <1>7, <2>1, <2>4, <2>5 DEF Client
<1>11. Written'
  <2>1. ASSUME NEW s \in Seq(Octet), IsPrefix(s, replies) PROVE IsPrefix(s, replies')
    <3>1. Len(s) \in Nat /\ Len(s) <= Len(replies) /\ \A k \in 1..Len(s) : s[k] = replies[k]
      BY <1>3, <2>1, PrefixElements, LenProperties
    <3>2. Len(s) <= Len(replies') /\ \A k \in 1..Len(s) : s[k] = replies'[k]
      BY <1>3, <1>4, <3>1
    <3>3. QED
      BY <1>4, <3>2, PrefixElements
  <2>2. <<5, 2>> \in Seq(Octet) /\ Handshake \in Seq(Octet)
    BY OctetAssumption DEF Handshake
  <2>3. /\ IsPrefix(<<5, 2>>, replies) => IsPrefix(<<5, 2>>, replies')
        /\ IsPrefix(Handshake, replies) => IsPrefix(Handshake, replies')
    BY <2>1, <2>2
  <2>4. QED
    BY <1>2, <1>3, <1>6, <2>3 DEF Written
<1>12. Socks5Agrees'
  <2>1. outcome' = "none"
    BY <1>2, <1>3 DEF Client, Negotiating
  <2>2. QED
    BY <1>11, <2>1 DEF Socks5Agrees, Written
<1>13. QED
  BY <1>5, <1>10, <1>12 DEF SocksInv

\* What read_exact returns.
LEMMA ReceivedBytes ==
  ASSUME SocksInv, NEW what, read_exact(what)
  PROVE  /\ Len(replies) >= used + needed /\ used + needed \in 0..Len(replies)
         /\ \A k \in 1..needed : /\ Received[k] = replies[used + k]
                                 /\ Received[k] \in Octet /\ Received[k] \in 0..255
         /\ needed > 0 => Received \in Seq(Octet) /\ Len(Received) = needed
<1>1. /\ replies \in Seq(Octet) /\ Len(replies) \in Nat /\ used \in Nat /\ needed \in Nat
      /\ Len(replies) >= used + needed
  BY SocksParts DEF read_exact
<1>2. CASE needed > 0
  <2>1. used + 1 \in 1..Len(replies) /\ used + needed \in used + 1 .. Len(replies)
    BY <1>1, <1>2
  <2>2. /\ Received \in Seq(Octet) /\ Len(Received) = used + needed - (used + 1) + 1
        /\ \A k \in 1..(used + needed - (used + 1) + 1) : Received[k] = replies[used + 1 + k - 1]
    BY <1>1, <2>1, SubSeqProperties DEF Received
  <2>3. \A k \in 1..needed : used + k \in 1..Len(replies) /\ used + 1 + k - 1 = used + k
    BY <1>1
  <2>4. \A k \in 1..Len(replies) : replies[k] \in Octet /\ replies[k] \in 0..255
    BY <1>1, ElementOfSeq, OctetAssumption
  <2>5. used + needed - (used + 1) + 1 = needed
    BY <1>1
  <2>6. /\ Received \in Seq(Octet) /\ Len(Received) = needed
        /\ \A k \in 1..needed : Received[k] = replies[used + 1 + k - 1]
    BY <2>2, <2>5
  <2>7. \A k \in 1..needed : /\ Received[k] = replies[used + k]
                            /\ Received[k] \in Octet /\ Received[k] \in 0..255
    BY <2>3, <2>4, <2>6
  <2>8. QED
    BY <1>1, <2>6, <2>7
<1>3. CASE needed = 0
  BY <1>1, <1>3
<1>4. QED
  BY <1>1, <1>2, <1>3

\* Two bytes are compared as a reply.
LEMMA ReceivedPair ==
  ASSUME SocksInv, NEW what, read_exact(what), needed = 2, NEW a \in Octet, NEW b \in Octet
  PROVE  Received = <<a, b>> <=> replies[used + 1] = a /\ replies[used + 2] = b
<1>1. /\ Received \in Seq(Octet) /\ Len(Received) = 2
      /\ Received[1] = replies[used + 1] /\ Received[2] = replies[used + 2]
  BY ReceivedBytes
<1> DEFINE t == <<a, b>>
<1>2. t \in Seq(Octet) /\ Len(t) = 2 /\ t[1] = a /\ t[2] = b
  OBVIOUS
<1> HIDE DEF t
<1>3. \A k \in 1..2 : k = 1 \/ k = 2
  OBVIOUS
<1>4. ASSUME Received[1] = a, Received[2] = b PROVE Received = t
  <2>1. Len(Received) = Len(t) /\ \A k \in 1..Len(Received) : Received[k] = t[k]
    BY <1>1, <1>2, <1>3, <1>4
  <2>2. QED
    BY <1>1, <1>2, <2>1, SeqEqual
<1>5. Received = t <=> Received[1] = a /\ Received[2] = b
  BY <1>2, <1>4
<1>6. QED
  BY <1>1, <1>5 DEF t

\* No grant is complete before the client has read it.
LEMMA NoGrant ==
  ASSUME SocksInv, NEW n \in DOMAIN replies, Grants(n)
  PROVE  /\ LetIn /\ n \in Nat /\ n <= Len(replies) /\ n >= Opening + 5
         /\ replies[Opening + 1] = 5 /\ replies[Opening + 2] = 0
         /\ replies[Opening + 4] \in {1, 3, 4}
<1>1. n \in 1..Len(replies) /\ SocksTypeOK
  BY SocksParts
<1>2. QED
  BY <1>1, GrantBytes, SocksParts

LEMMA GreetingKeeps ==
  ASSUME SocksInv, Greeting
  PROVE  SocksInv'
<1>1. /\ reading = "greeting" /\ read_exact("greeting") /\ used' = used + needed
      /\ UNCHANGED <<credentials, replies, ended>> /\ Negotiating
  BY DEF Greeting, read_exact, Negotiating
<1>2. /\ SocksTypeOK /\ used = 0 /\ needed = 2 /\ used + needed \in 0..Len(replies)
      /\ Len(replies) \in Nat
  BY <1>1, SocksParts, ReceivedBytes DEF Client
<1>3. Received = <<5, Method>> <=> Opened
  <2>1. Received = <<5, Method>> <=> replies[1] = 5 /\ replies[2] = Method
    <3>1. 5 \in Octet /\ Method \in Octet /\ used + 1 = 1 /\ used + 2 = 2
      BY <1>2, OctetAssumption DEF Method
    <3>2. QED
      BY <1>1, <1>2, <3>1, ReceivedPair
  <2>2. QED
    BY <1>2, <2>1 DEF Opened
<1>4. (Opened' <=> Opened) /\ (LetIn' <=> LetIn) /\ Opening' = Opening
  BY <1>1, SameReplies
<1>5. CASE Fail("denied") /\ ~ Opened
  <2>1. \A n \in DOMAIN replies : ~ Grants(n)
    BY <1>5, NoGrant DEF LetIn
  <2>2. QED
    BY <1>1, <1>2, <1>5, <2>1, FailKeeps DEF SocksTypeOK
<1>6. CASE Opened /\ credentials = "none" /\ Await("request", 0) /\ UNCHANGED wrote
  <2>1. /\ reading' = "request" /\ needed' = 0 /\ outcome' = outcome /\ wrote' = wrote
        /\ used' = 2
    BY <1>1, <1>2, <1>6 DEF Await
  <2>2. SocksTypeOK'
    BY <1>1, <1>2, <2>1 DEF SocksTypeOK
  <2>3. LetIn' /\ Opening' = 2
    BY <1>4, <1>6 DEF LetIn, Opening
  <2>4. Client'
    BY <1>1, <2>1, <2>3, SocksParts DEF Client
  <2>5. QED
    BY <1>1, <2>1, <2>2, <2>4, AwaitKeeps
<1>7. CASE Fail("invalid_input")
  BY <1>1, <1>2, <1>7, FailKeeps DEF SocksTypeOK
<1>8. CASE /\ Opened /\ credentials = "fit"
           /\ Await("auth", 2) /\ wrote' = Append(wrote, "credentials")
  <2>1. /\ reading' = "auth" /\ needed' = 2 /\ outcome' = outcome /\ used' = 2
    BY <1>1, <1>2, <1>8 DEF Await
  <2>2. wrote' \in Seq({"greeting", "credentials", "request"})
    BY <1>2, <1>8, AppendProperties DEF SocksTypeOK
  <2>3. SocksTypeOK'
    BY <1>1, <1>2, <2>1, <2>2 DEF SocksTypeOK
  <2>4. Client'
    BY <1>1, <1>4, <1>8, <2>1, SocksParts DEF Client
  <2>5. IsPrefix(<<5, 2>>, replies)
    <3>1. Len(replies) >= 2 /\ replies[1] = 5 /\ replies[2] = 2
      BY <1>8 DEF Opened, Method
    <3>2. QED
      BY <1>2, <3>1, PrefixBytes
  <2>6. QED
    BY <1>1, <1>8, <2>1, <2>3, <2>4, <2>5, WriteKeeps
<1>9. QED
  <2>1. credentials \in {"none", "fit", "long"}
    BY <1>2 DEF SocksTypeOK
  <2>2. IF ~ Opened THEN Fail("denied")
        ELSE IF credentials = "none" THEN Await("request", 0) /\ UNCHANGED wrote
        ELSE IF credentials = "long" THEN Fail("invalid_input")
        ELSE Await("auth", 2) /\ wrote' = Append(wrote, "credentials")
    BY <1>3 DEF Greeting
  <2>3. QED
    BY <1>5, <1>6, <1>7, <1>8, <2>1, <2>2

LEMMA AuthenticatedKeeps ==
  ASSUME SocksInv, Authenticated
  PROVE  SocksInv'
<1>1. /\ reading = "auth" /\ read_exact("auth") /\ used' = used + needed
      /\ UNCHANGED <<credentials, replies, ended>> /\ Negotiating
  BY DEF Authenticated, read_exact, Negotiating
<1>2. /\ SocksTypeOK /\ used = 2 /\ needed = 2 /\ used + needed \in 0..Len(replies)
      /\ Len(replies) \in Nat /\ credentials = "fit" /\ Opened
  BY <1>1, SocksParts, ReceivedBytes DEF Client
<1>3. Received = <<1, 0>> <=> LetIn
  <2>1. Received = <<1, 0>> <=> replies[3] = 1 /\ replies[4] = 0
    <3>1. 1 \in Octet /\ 0 \in Octet /\ used + 1 = 3 /\ used + 2 = 4
      BY <1>2, OctetAssumption
    <3>2. QED
      BY <1>1, <1>2, <3>1, ReceivedPair
  <2>2. QED
    BY <1>2, <2>1 DEF LetIn
<1>4. (LetIn' <=> LetIn) /\ Opening' = 4
  BY <1>1, <1>2, SameReplies DEF Opening
<1>5. CASE Fail("denied") /\ ~ LetIn
  <2>1. \A n \in DOMAIN replies : ~ Grants(n)
    BY <1>5, NoGrant
  <2>2. QED
    BY <1>1, <1>2, <1>5, <2>1, FailKeeps DEF SocksTypeOK
<1>6. CASE LetIn /\ Await("request", 0) /\ UNCHANGED wrote
  <2>1. /\ reading' = "request" /\ needed' = 0 /\ outcome' = outcome /\ wrote' = wrote
        /\ used' = 4
    BY <1>1, <1>2, <1>6 DEF Await
  <2>2. SocksTypeOK'
    BY <1>1, <1>2, <2>1 DEF SocksTypeOK
  <2>3. Client'
    BY <1>1, <1>4, <1>6, <2>1, SocksParts DEF Client
  <2>4. QED
    BY <1>1, <2>1, <2>2, <2>3, AwaitKeeps
<1>7. QED
  BY <1>3, <1>5, <1>6 DEF Authenticated

LEMMA HeaderReplyKeeps ==
  ASSUME SocksInv, Header
  PROVE  SocksInv'
<1>1. /\ reading = "header" /\ read_exact("header") /\ used' = used + needed
      /\ UNCHANGED <<credentials, replies, ended>> /\ Negotiating
  BY DEF Header, read_exact, Negotiating
<1>2. /\ SocksTypeOK /\ used = Opening /\ needed = 4 /\ used + needed \in 0..Len(replies)
      /\ Len(replies) \in Nat /\ LetIn /\ Opening \in {2, 4}
      /\ Len(wrote) > 0 /\ wrote[Len(wrote)] = "request"
  BY <1>1, SocksParts, ReceivedBytes DEF Client
<1>3. /\ Received[1] = replies[Opening + 1] /\ Received[2] = replies[Opening + 2]
      /\ Received[4] = replies[Opening + 4]
  BY <1>1, <1>2, ReceivedBytes
<1>4. (LetIn' <=> LetIn) /\ Opening' = Opening
  BY <1>1, SameReplies
<1>5. CASE ~ (replies[Opening + 1] = 5 /\ replies[Opening + 2] = 0) /\ Fail("refused")
  <2>1. \A n \in DOMAIN replies : ~ Grants(n)
    BY <1>5, NoGrant
  <2>2. QED
    BY <1>1, <1>2, <1>5, <2>1, FailKeeps DEF SocksTypeOK
<1>6. CASE replies[Opening + 4] \notin {1, 3, 4} /\ Fail("invalid_data")
  <2>1. \A n \in DOMAIN replies : ~ Grants(n)
    BY <1>6, NoGrant
  <2>2. QED
    BY <1>1, <1>2, <1>6, <2>1, FailKeeps DEF SocksTypeOK
<1>7. CASE /\ replies[Opening + 1] = 5 /\ replies[Opening + 2] = 0
           /\ replies[Opening + 4] \in {1, 4}
           /\ Await("remainder", AddressBytes[replies[Opening + 4]] + 2) /\ UNCHANGED wrote
  <2>1. /\ reading' = "remainder" /\ needed' = AddressBytes[replies[Opening + 4]] + 2
        /\ outcome' = outcome /\ wrote' = wrote /\ used' = Opening + 4
    BY <1>1, <1>2, <1>7 DEF Await
  <2>2. needed' \in 0..257
    <3>1. AddressBytes[replies[Opening + 4]] \in 1..16
      BY <1>7, AddressBytesAssumption
    <3>2. QED
      BY <2>1, <3>1
  <2>3. SocksTypeOK'
    BY <1>1, <1>2, <2>1, <2>2 DEF SocksTypeOK
  <2>4. Client'
    BY <1>1, <1>2, <1>4, <1>7, <2>1, SocksParts DEF Client
  <2>5. QED
    BY <1>1, <2>1, <2>3, <2>4, AwaitKeeps
<1>8. CASE /\ replies[Opening + 1] = 5 /\ replies[Opening + 2] = 0
           /\ replies[Opening + 4] = 3
           /\ Await("length", 1) /\ UNCHANGED wrote
  <2>1. /\ reading' = "length" /\ needed' = 1
        /\ outcome' = outcome /\ wrote' = wrote /\ used' = Opening + 4
    BY <1>1, <1>2, <1>8 DEF Await
  <2>2. SocksTypeOK'
    BY <1>1, <1>2, <2>1 DEF SocksTypeOK
  <2>3. Client'
    BY <1>1, <1>2, <1>4, <1>8, <2>1, SocksParts DEF Client
  <2>4. QED
    BY <1>1, <2>1, <2>2, <2>3, AwaitKeeps
<1>9. QED
  <2>1. PICK kind : kind = replies[Opening + 4]
    OBVIOUS
  <2>2. IF ~ (replies[Opening + 1] = 5 /\ replies[Opening + 2] = 0) THEN Fail("refused")
        ELSE IF kind \in {1, 4}
          THEN Await("remainder", AddressBytes[kind] + 2) /\ UNCHANGED wrote
        ELSE IF kind = 3 THEN Await("length", 1) /\ UNCHANGED wrote
        ELSE Fail("invalid_data")
    BY <1>3, <2>1 DEF Header
  <2>3. QED
    BY <1>5, <1>6, <1>7, <1>8, <2>1, <2>2

LEMMA NameLengthKeeps ==
  ASSUME SocksInv, NameLength
  PROVE  SocksInv'
<1>1. /\ reading = "length" /\ read_exact("length") /\ used' = used + needed
      /\ UNCHANGED <<credentials, replies, ended>> /\ Negotiating
      /\ reading' = "remainder" /\ needed' = Received[1] + 2 /\ outcome' = outcome
      /\ wrote' = wrote
  BY DEF NameLength, read_exact, Negotiating, Await
<1>2. /\ SocksTypeOK /\ used = Opening + 4 /\ needed = 1 /\ used + needed \in 0..Len(replies)
      /\ Len(replies) \in Nat /\ Opening \in {2, 4} /\ LetIn
      /\ replies[Opening + 1] = 5 /\ replies[Opening + 2] = 0 /\ replies[Opening + 4] = 3
      /\ Len(wrote) > 0 /\ wrote[Len(wrote)] = "request"
  BY <1>1, SocksParts, ReceivedBytes DEF Client
<1>3. Received[1] = replies[Opening + 5] /\ Received[1] \in 0..255
  <2>1. Received[1] = replies[used + 1] /\ Received[1] \in 0..255 /\ used + 1 = Opening + 5
    BY <1>1, <1>2, ReceivedBytes
  <2>2. QED
    BY <2>1
<1>4. (LetIn' <=> LetIn) /\ Opening' = Opening
  BY <1>1, SameReplies
<1>5. used' = Opening + 5 /\ needed' = replies[Opening + 5] + 2 /\ needed' \in 0..257
  <2>1. used' = Opening + 5
    BY <1>1, <1>2
  <2>2. PICK l \in 0..255 : l = Received[1]
    BY <1>3
  <2>3. needed' = l + 2 /\ l = replies[Opening + 5] /\ l + 2 \in 0..257
    BY <1>1, <1>3, <2>2
  <2>4. QED
    BY <2>1, <2>3
<1>6. SocksTypeOK'
  BY <1>1, <1>2, <1>5 DEF SocksTypeOK
<1>7. Client'
  BY <1>1, <1>2, <1>4, <1>5, SocksParts DEF Client
<1>8. QED
  BY <1>1, <1>6, <1>7, AwaitKeeps

\* Behind the fixed part of the grant what is left of it is read to its end.
LEMMA GrantEnds ==
  ASSUME SocksInv, reading = "remainder"
  PROVE  /\ used + needed \in Nat /\ used + needed >= 1
         /\ \A n \in DOMAIN replies : Grants(n) <=> n = used + needed
<1>1. /\ SocksTypeOK /\ Client /\ DOMAIN replies = 1..Len(replies) /\ Len(replies) \in Nat
      /\ used \in Nat /\ needed \in Nat /\ Opening \in {2, 4}
      /\ replies \in Seq(Octet) /\ used <= Len(replies)
  BY SocksParts
<1>2. LetIn /\ replies[Opening + 1] = 5 /\ replies[Opening + 2] = 0
  BY <1>1 DEF Client
<1>3. CASE /\ used = Opening + 4 /\ replies[Opening + 4] \in {1, 4}
           /\ needed = AddressBytes[replies[Opening + 4]] + 2
  <2>1. PICK m \in 1..16 : m = AddressBytes[replies[Opening + 4]]
    BY <1>3, AddressBytesAssumption
  <2>2. used + needed = Opening + 4 + m + 2 /\ used + needed >= Opening + 5
    <3>1. used + needed = Opening + 4 + (m + 2)
      BY <1>3, <2>1
    <3>2. \A x, y \in Nat : x + 4 + (y + 2) = x + 4 + y + 2
      OBVIOUS
    <3>3. Opening \in {2, 4}
      BY <1>1, Zenon
    <3>4. Opening \in Nat /\ m \in Nat /\ m >= 1
      BY <3>3
    <3>5. QED
      BY <3>1, <3>2, <3>4
  <2>3. ASSUME NEW n \in DOMAIN replies PROVE Grants(n) <=> n = used + needed
    <3>1. n \in 1..Len(replies) /\ replies[Opening + 4] # 3
      BY <1>1, <1>3
    <3>2. Grants(n) <=> n >= Opening + 5 /\ n = Opening + 4 + m + 2
      BY <1>1, <1>2, <1>3, <2>1, <3>1, GrantBytes
    <3>3. QED
      BY <2>2, <3>2
  <2>4. QED
    BY <1>1, <2>2, <2>3
<1>4. CASE /\ used = Opening + 5 /\ replies[Opening + 4] = 3
           /\ needed = replies[Opening + 5] + 2
  <2>1. PICK l \in Nat : l = replies[Opening + 5]
    <3>1. Opening + 5 \in 1..Len(replies) /\ \A o \in Octet : o \in Nat
      BY <1>1, <1>4, OctetAssumption
    <3>2. QED
      BY <1>1, <3>1, ElementOfSeq
  <2>2. used + needed = Opening + 4 + 1 + l + 2 /\ used + needed >= Opening + 5
    BY <1>1, <1>4, <2>1
  <2>3. ASSUME NEW n \in DOMAIN replies PROVE Grants(n) <=> n = used + needed
    <3>1. n \in 1..Len(replies) /\ replies[Opening + 4] \notin {1, 4}
      BY <1>1, <1>4
    <3>2. Grants(n) <=> n >= Opening + 5 /\ n = Opening + 4 + 1 + l + 2
      BY <1>1, <1>2, <1>4, <2>1, <3>1, GrantBytes
    <3>3. QED
      BY <2>2, <3>2
  <2>4. QED
    BY <1>1, <2>2, <2>3
<1>5. QED
  BY <1>1, <1>3, <1>4 DEF Client

LEMMA RemainderKeeps ==
  ASSUME SocksInv, Remainder
  PROVE  SocksInv'
<1>1. /\ reading = "remainder" /\ read_exact("remainder") /\ used' = used + needed
      /\ UNCHANGED <<credentials, replies, ended, needed, wrote>>
      /\ reading' = "done" /\ outcome' = "connected"
  BY DEF Remainder, read_exact
<1>2. /\ SocksTypeOK /\ Written /\ used + needed \in 0..Len(replies) /\ Len(replies) \in Nat
      /\ DOMAIN replies = 1..Len(replies) /\ wrote[Len(wrote)] = "request"
  BY <1>1, SocksParts, ReceivedBytes DEF Client
<1>3. PICK n \in DOMAIN replies : n = used + needed /\ Grants(n)
  BY <1>1, <1>2, GrantEnds
<1>4. Handshake' = Handshake /\ Grants(n)'
  BY <1>1, <1>3, SameReplies
<1>5. Grants(used)'
  <2>1. used' = n
    BY <1>1, <1>3
  <2>2. QED
    BY <1>4, <2>1 DEF Grants
<1>6. SocksTypeOK'
  BY <1>1, <1>2 DEF SocksTypeOK
<1>7. Client'
  BY <1>1 DEF Client
<1>8. Socks5Agrees'
  BY <1>1, <1>2, <1>4, <1>5 DEF Socks5Agrees, Written
<1>9. QED
  BY <1>6, <1>7, <1>8 DEF SocksInv

LEMMA WriteRequestKeeps ==
  ASSUME SocksInv, WriteRequest
  PROVE  SocksInv'
<1>1. /\ reading = "request" /\ reading' = "header" /\ needed' = 4 /\ outcome' = outcome
      /\ wrote' = Append(wrote, "request") /\ UNCHANGED <<credentials, replies, ended, used>>
      /\ Negotiating
  BY DEF WriteRequest, Await, Negotiating
<1>2. SocksTypeOK /\ used = Opening /\ LetIn
  BY <1>1, SocksParts DEF Client
<1>3. /\ wrote' \in Seq({"greeting", "credentials", "request"})
      /\ Len(wrote') > 0 /\ wrote'[Len(wrote')] = "request"
  BY <1>1, <1>2, AppendProperties, LenProperties DEF SocksTypeOK
<1>4. (LetIn' <=> LetIn) /\ Opening' = Opening
  BY <1>1, SameReplies
<1>5. SocksTypeOK'
  BY <1>1, <1>2, <1>3 DEF SocksTypeOK
<1>6. Client'
  BY <1>1, <1>2, <1>3, <1>4, SocksParts DEF Client
<1>7. IsPrefix(Handshake, replies)
  BY <1>2, PrefixBytes
<1>8. QED
  BY <1>1, <1>5, <1>6, <1>7, WriteKeeps

LEMMA EofKeeps ==
  ASSUME SocksInv, UnexpectedEof
  PROVE  SocksInv'
<1>1. /\ Negotiating /\ reading # "request" /\ Len(replies) < used + needed
      /\ Fail("eof") /\ UNCHANGED <<credentials, replies, ended, used>>
  BY DEF UnexpectedEof
<1>2. /\ SocksTypeOK /\ Client /\ Len(replies) \in Nat /\ used \in Nat /\ needed \in Nat
      /\ Opening \in {2, 4}
  BY SocksParts
<1>3. ASSUME NEW n \in DOMAIN replies, Grants(n) PROVE FALSE
  <2>1. n \in Nat /\ n <= Len(replies) /\ n >= Opening + 5 /\ n < used + needed
    BY <1>1, <1>2, <1>3, NoGrant
  <2>2. CASE reading \in {"greeting", "auth"}
    BY <1>2, <2>1, <2>2 DEF Client
  <2>3. CASE reading \in {"header", "length"}
    BY <1>2, <2>1, <2>3 DEF Client
  <2>4. CASE reading = "remainder"
    BY <1>3, <2>1, <2>4, GrantEnds
  <2>5. QED
    BY <1>1, <1>2, <2>2, <2>3, <2>4 DEF SocksTypeOK, Negotiating
<1>4. QED
  BY <1>1, <1>2, <1>3, FailKeeps DEF SocksTypeOK

LEMMA SocksInvHolds == SocksSpec => []SocksInv
<1>1. SocksInv /\ [SocksNext]_socksVars => SocksInv'
  <2> SUFFICES ASSUME SocksInv, [SocksNext]_socksVars PROVE SocksInv'
    OBVIOUS
  <2>1. CASE Reply
    BY <2>1, ReplyKeeps
  <2>2. CASE End \/ UNCHANGED socksVars
    <3>1. /\ UNCHANGED <<credentials, replies, used, reading, needed, wrote, outcome>>
          /\ SocksTypeOK /\ Client /\ Tunnelled /\ Faulted /\ Written
      BY <2>2, SocksParts DEF End, socksVars
    <3>2. ended' \in BOOLEAN
      BY <2>2, <3>1 DEF End, socksVars, SocksTypeOK
    <3>3. SocksTypeOK'
      BY <3>1, <3>2 DEF SocksTypeOK
    <3>4. /\ (Opened' <=> Opened) /\ (LetIn' <=> LetIn) /\ Opening' = Opening
          /\ Handshake' = Handshake /\ \A n : Grants(n)' <=> Grants(n)
      BY <3>1, SameReplies
    <3>5. Client'
      BY <3>1, <3>4 DEF Client
    <3>6. Grants(used)' <=> Grants(used)
      <4>1. PICK u : u = used
        OBVIOUS
      <4>2. (Grants(u)' <=> Grants(u)) /\ used' = u
        BY <3>1, <3>4, <4>1
      <4>3. Grants(used)' <=> Grants(u)'
        BY <4>2 DEF Grants
      <4>4. QED
        BY <4>1, <4>2, <4>3
    <3>7. Socks5Agrees'
      BY <3>1, <3>4, <3>6 DEF Socks5Agrees, Tunnelled, Faulted, Written
    <3>8. QED
      BY <3>3, <3>5, <3>7 DEF SocksInv
  <2>3. CASE UnexpectedEof
    BY <2>3, EofKeeps
  <2>4. CASE Greeting
    BY <2>4, GreetingKeeps
  <2>5. CASE Authenticated
    BY <2>5, AuthenticatedKeeps
  <2>6. CASE RequestFails
    <3>1. Fail("no_request") /\ UNCHANGED <<credentials, replies, ended, used>> /\ SocksTypeOK
      BY <2>6, SocksParts DEF RequestFails
    <3>2. QED
      BY <3>1, FailKeeps DEF SocksTypeOK
  <2>7. CASE WriteRequest
    BY <2>7, WriteRequestKeeps
  <2>8. CASE Header
    BY <2>8, HeaderReplyKeeps
  <2>9. CASE NameLength
    BY <2>9, NameLengthKeeps
  <2>10. CASE Remainder
    BY <2>10, RemainderKeeps
  <2>11. ASSUME NEW error \in {"timeout", "io"}, GiveUp(error) PROVE SocksInv'
    <3>1. Fail(error) /\ UNCHANGED <<credentials, replies, ended, used>> /\ SocksTypeOK
      BY <2>11, SocksParts DEF GiveUp
    <3>2. QED
      BY <3>1, FailKeeps DEF SocksTypeOK
  <2>12. QED
    BY <2>1, <2>2, <2>3, <2>4, <2>5, <2>6, <2>7, <2>8, <2>9, <2>10, <2>11 DEF SocksNext
<1>2. QED
  BY <1>1, SocksInitial, PTL DEF SocksSpec

\* Every variable keeps its range: no read_exact of socks5_connect asks for more
\* than 257 bytes, and it never consumes more than the proxy sent.
THEOREM Socks5TypeOK == SocksSpec => []SocksTypeOK
<1>1. SocksInv => SocksTypeOK
  BY DEF SocksInv
<1>2. QED
  BY <1>1, SocksInvHolds, PTL

\* socks5_connect opens a tunnel exactly after a complete grant, consumed to its
\* last byte and no further; it finds the proxy at fault only if none came, and
\* sends credentials and request only to a proxy that let it.
THEOREM SocksAgrees == SocksSpec => []Socks5Agrees
<1>1. SocksInv => Socks5Agrees
  BY DEF SocksInv
<1>2. QED
  BY <1>1, SocksInvHolds, PTL
==============================================================================
