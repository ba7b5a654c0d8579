---------------------------- MODULE MCHttpExchange ---------------------------
(***************************************************************************)
(* The two conversations with a peer that speaks HTTP and the one with a   *)
(* SOCKS5 proxy, one of them per behaviour: the other machine stays ended. *)
(* HTTP: an informational, a final and an upgrade status, lines of three   *)
(* bytes (a bare status line), headers of seven (one header line and the   *)
(* blank, but not two) and one informational response.  SOCKS5: bytes up   *)
(* to the version number, addresses of one and two bytes, names of up to   *)
(* two.                                                                    *)
(***************************************************************************)
EXTENDS HttpExchange, Socks5

MCCodes == {100, 101, 200}
MCOctet == 0..5
MCAddressBytes == [t \in {1, 4} |-> IF t = 1 THEN 1 ELSE 2]

NoHttp ==
  /\ method = "HEAD" /\ sent = <<>> /\ closed = FALSE /\ taken = 0
  /\ at = "done" /\ code = 0 /\ count = 0 /\ total = 0 /\ result = "none"
NoSocks ==
  /\ credentials = "none" /\ replies = <<>> /\ ended = FALSE /\ used = 0
  /\ reading = "done" /\ needed = 0 /\ wrote = <<>> /\ outcome = "none"

MCInit == (Init /\ NoSocks) \/ (SocksInit /\ NoHttp)

MCNext == (Next /\ UNCHANGED socksVars) \/ (SocksNext /\ UNCHANGED vars)

MCSpec == MCInit /\ [][MCNext]_<<vars, socksVars>>

\* Type invariant of both machines.
MCTypeOK == TypeOK /\ SocksTypeOK
==============================================================================
