----------------------------- MODULE MCPcWorker -----------------------------
(* PcWorker with two workers and two cameras, of which one has two frames in work. *)
EXTENDS PcWorker, TLC

CONSTANTS c1, c2

MCMaxSeq == c1 :> 2 @@ c2 :> 1

=============================================================================
