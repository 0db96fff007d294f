----------------------------- MODULE MCWsClient -----------------------------
(* Enough sockets for the one in use and those that network changes leave      *)
(* without an owner.                                                           *)
EXTENDS WsClient

CONSTANTS s1, s2, p1
=============================================================================
