---------------------------- MODULE MCStreaming ----------------------------
(***************************************************************************)
(* Streaming for TLC: blocks of 2 bytes, video vidA of 3 and vidB of 2.    *)
(***************************************************************************)
EXTENDS Streaming

CONSTANTS vidA, vidB

MCFileSize == [v \in Video |-> IF v = vidA THEN 3 ELSE 2]

=============================================================================
