------------------------------ MODULE MCStreams -----------------------------
(* Instances of Streams for TLC: a source of two bytes, read one at a time,    *)
(* and one of one byte, read with room for two.                                *)
EXTENDS Streams, TLC
CONSTANTS p, q
MCLength == p :> 2 @@ q :> 1
MCHighWaterMark == p :> 1 @@ q :> 2
=============================================================================
