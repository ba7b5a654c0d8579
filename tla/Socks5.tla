-------------------------------- MODULE Socks5 -------------------------------
(***************************************************************************)
(* socks5_connect: greeting, credentials and request are written one after *)
(* the other, each after the proxy's reply to the one before was read with *)
(* read_exact.  The proxy sends its bytes in any pieces and of any value,  *)
(* ends early, fails, or stalls until the timer around all of it fires.    *)
(* What it sends after its last reply belongs to the target.               *)
(***************************************************************************)
EXTENDS Naturals, Sequences, SequencesExt

CONSTANTS
  Octet,         \* byte values the proxy may send
  AddressBytes,  \* length of an address by its type: 1 for IPv4, 4 for IPv6
  MaxReplies     \* bound: bytes the proxy sends

ASSUME OctetAssumption == {0, 1, 2, 3, 4, 5} \subseteq Octet /\ Octet \subseteq 0..255
ASSUME AddressBytesAssumption == AddressBytes \in [{1, 4} -> 1..16]

VARIABLES
  credentials,  \* of the proxy: "none", "fit" or "long" (over 255 bytes), fixed
  replies,      \* every byte the proxy sent so far
  ended,        \* the proxy ended its side
  used,         \* how many bytes were consumed
  reading,      \* what is awaited: "greeting", "auth", "request" (its
                \* preparation), "header", "length", "remainder", "done"
  needed,       \* bytes the read_exact under way asks for
  wrote,        \* the messages written
  outcome       \* "none", "connected" or the kind of error

socksVars == <<credentials, replies, ended, used, reading, needed, wrote, outcome>>

SocksInit ==
  /\ credentials \in {"none", "fit", "long"}
  /\ replies = <<>>
  /\ ended = FALSE
  /\ used = 0
  /\ reading = "greeting"
  /\ needed = 2
  /\ wrote = <<"greeting">>
  /\ outcome = "none"

-----------------------------------------------------------------------------
Negotiating == reading # "done"

Fail(error) ==
  /\ reading' = "done" /\ outcome' = error
  /\ UNCHANGED <<needed, wrote>>

Await(what, n) ==
  /\ reading' = what /\ needed' = n
  /\ UNCHANGED outcome

\* The proxy: at most one byte more than is being waited for is under way.
Reply ==
  /\ Negotiating
  /\ ~ ended
  /\ Len(replies) < MaxReplies
  /\ Len(replies) <= used + needed
  /\ \E b \in Octet : replies' = Append(replies, b)
  /\ UNCHANGED <<credentials, ended, used, reading, needed, wrote, outcome>>

End ==
  /\ Negotiating
  /\ ~ ended
  /\ ended' = TRUE
  /\ UNCHANGED <<credentials, replies, used, reading, needed, wrote, outcome>>

Received == SubSeq(replies, used + 1, used + needed)

read_exact(what) ==
  /\ reading = what
  /\ Len(replies) >= used + needed
  /\ used' = used + needed
  /\ UNCHANGED <<credentials, replies, ended>>

UnexpectedEof ==
  /\ Negotiating
  /\ reading # "request"
  /\ ended
  /\ Len(replies) < used + needed
  /\ Fail("eof")
  /\ UNCHANGED <<credentials, replies, ended, used>>

Method == IF credentials = "none" THEN 0 ELSE 2

\* socks5_authenticate, up to and after the reply to the credentials.
Greeting ==
  /\ read_exact("greeting")
  /\ IF Received # <<5, Method>> THEN Fail("denied")
     ELSE IF credentials = "none" THEN Await("request", 0) /\ UNCHANGED wrote
     ELSE IF credentials = "long" THEN Fail("invalid_input")
     ELSE Await("auth", 2) /\ wrote' = Append(wrote, "credentials")

Authenticated ==
  /\ read_exact("auth")
  /\ IF Received # <<1, 0>> THEN Fail("denied")
     ELSE Await("request", 0) /\ UNCHANGED wrote

\* socks5_request yields what to ask for, or fails: in its lookup, because of
\* the family, or because the name is too long.
RequestFails ==
  /\ reading = "request"
  /\ Fail("no_request")
  /\ UNCHANGED <<credentials, replies, ended, used>>

WriteRequest ==
  /\ reading = "request"
  /\ Await("header", 4)
  /\ wrote' = Append(wrote, "request")
  /\ UNCHANGED <<credentials, replies, ended, used>>

\* read_socks5_response.
MutHeader ==   \* mutant: a name is taken for an address of fixed length
  /\ read_exact("header")
  /\ LET kind == Received[4]
     IN IF Received[1] # 5 \/ Received[2] # 0 THEN Fail("refused")
        ELSE IF kind \in {1, 3, 4}
          THEN Await("remainder", AddressBytes[IF kind = 3 THEN 4 ELSE kind] + 2)
               /\ UNCHANGED wrote
        ELSE Fail("invalid_data")

Header ==
  /\ read_exact("header")
  /\ LET kind == Received[4]
     IN IF Received[1] # 5 \/ Received[2] # 0 THEN Fail("refused")
        ELSE IF kind \in {1, 4}
          THEN Await("remainder", AddressBytes[kind] + 2) /\ UNCHANGED wrote
        ELSE IF kind = 3 THEN Await("length", 1) /\ UNCHANGED wrote
        ELSE Fail("invalid_data")

NameLength ==
  /\ read_exact("length")
  /\ Await("remainder", Received[1] + 2)
  /\ UNCHANGED wrote

Remainder ==
  /\ read_exact("remainder")
  /\ reading' = "done" /\ outcome' = "connected"
  /\ UNCHANGED <<needed, wrote>>

\* The timer, or an error of the connection.
GiveUp(error) ==
  /\ Negotiating
  /\ Fail(error)
  /\ UNCHANGED <<credentials, replies, ended, used>>

SocksNext ==
  \/ Reply \/ End \/ UnexpectedEof
  \/ Greeting \/ Authenticated \/ RequestFails \/ WriteRequest
  \/ Header \/ NameLength \/ Remainder
  \/ GiveUp("timeout") \/ GiveUp("io")

SocksSpec == SocksInit /\ [][SocksNext]_socksVars

-----------------------------------------------------------------------------
SocksTypeOK ==
  /\ credentials \in {"none", "fit", "long"}
  /\ replies \in Seq(Octet)
  /\ ended \in BOOLEAN
  /\ used \in 0..Len(replies)
  /\ reading \in {"greeting", "auth", "request", "header", "length", "remainder", "done"}
  /\ needed \in 0..257
  /\ wrote \in Seq({"greeting", "credentials", "request"})
  /\ outcome \in {"none", "connected", "denied", "invalid_input", "no_request",
                  "refused", "invalid_data", "eof", "timeout", "io"}

\* The replies of a proxy that accepts, read off the whole stream: the first n
\* bytes are its handshake and the grant of the request.
Handshake == IF credentials = "none" THEN <<5, 0>> ELSE <<5, 2, 1, 0>>

Grants(n) ==
  LET grant == SubSeq(replies, Len(Handshake) + 1, n)
      length(kind) == IF kind = 3 THEN 1 + grant[5] ELSE AddressBytes[kind]
  IN /\ IsPrefix(Handshake, replies)
     /\ Len(grant) >= 5
     /\ grant[1] = 5 /\ grant[2] = 0 /\ grant[4] \in {1, 3, 4}
     /\ Len(grant) = 4 + length(grant[4]) + 2

\* A tunnel through SOCKS5 is open exactly when the proxy granted it with
\* replies complete to their last byte, of which not one byte more was taken
\* (it is the target's), whatever pieces they came in; a proxy is only found at
\* fault if its replies were no such grant; and credentials go out only to
\* a proxy that asked for them, the request only to one that let us in.
Socks5Agrees ==
  /\ outcome = "connected" => Grants(used) /\ wrote[Len(wrote)] = "request"
  /\ outcome \in {"denied", "refused", "invalid_data", "eof"} =>
       \A n \in DOMAIN replies : ~ Grants(n)
  /\ \A i \in DOMAIN wrote :
       /\ wrote[i] = "credentials" => IsPrefix(<<5, 2>>, replies)
       /\ wrote[i] = "request" => IsPrefix(Handshake, replies)
==============================================================================
