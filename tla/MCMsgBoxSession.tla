-------------------------- MODULE MCMsgBoxSession --------------------------
(* Two starts of a node, and four sockets for them and their reconnects.   *)
EXTENDS MsgBoxSession
=============================================================================
