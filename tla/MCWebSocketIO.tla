---------------------------- MODULE MCWebSocketIO ----------------------------
(* WebSocketIO for TLC with maxBuffer = 2: a packet longer than one chunk, *)
(* one of exactly one chunk, and a short one.                              *)
EXTENDS WebSocketIO

MCMsgs == <<3, 2, 1>>
=============================================================================
