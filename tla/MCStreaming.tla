------------------------------ MODULE MCStreaming -----------------------------
(* Instances of Streaming: several requests for one track.                     *)
EXTENDS Streaming

CONSTANTS t1, r1, r2, r3
===============================================================================
