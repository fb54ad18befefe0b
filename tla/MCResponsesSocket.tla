------------------------- MODULE MCResponsesSocket -------------------------
(* A session with two requests, two pieces of steering and responses of up *)
(* to two output items.                                                     *)
EXTENDS ResponsesSocket, TLC
=============================================================================
