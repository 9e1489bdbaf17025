-------------------------- MODULE MCCommandBridge --------------------------
(* Instances of CommandBridge for TLC.                                     *)
EXTENDS CommandBridge, TLC

\* Servers and ids are interchangeable; calls are not, one of them being a
\* browser's and the other a REST request.
BridgeSymmetry == Permutations(Servers) \cup Permutations(CmdIds)
=============================================================================
