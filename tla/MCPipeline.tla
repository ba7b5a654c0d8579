------------------------------ MODULE MCPipeline -----------------------------
(***************************************************************************)
(* A target with two IPv4 addresses and an IPv6 one, a proxy with two.     *)
(* One HTTP code is a success, one a client error.                         *)
(***************************************************************************)
EXTENDS Pipeline

MCAddress == 1..3
MCFamily == [a \in MCAddress |-> IF a = 3 THEN "ipv6" ELSE "ipv4"]
MCAnswers == {<<2, 1, 3>>, <<3>>}
MCProxyAnswers == {<<1, 2>>}
MCCodes == {200, 404}
MCTcpErrors == {"connection_refused", "network_unreachable", "timeout"}
==============================================================================
