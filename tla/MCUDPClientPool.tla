-------------------------- MODULE MCUDPClientPool --------------------------
(* Model values for UDPClientPool: two name servers, one forwarder, one   *)
(* question.                                                             *)
EXTENDS UDPClientPool

CONSTANTS ns1, ns2, f1, q1

MCNameServers == <<ns1, ns2>>
MCOneQuestion == {q1}
MCOneForwarder == {f1}
=============================================================================
