-------------------------- MODULE MCResponseBridge --------------------------
(* The Response Bridge with two completions, one of them for a requester   *)
(* that can be reached.                                                    *)
EXTENDS ResponseBridge
=============================================================================
