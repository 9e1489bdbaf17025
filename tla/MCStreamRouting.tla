-------------------------- MODULE MCStreamRouting --------------------------
(* Instance of StreamRouting for TLC.  The browsers and streams are
   interchangeable, but the run checks liveness, so no symmetry is declared. *)
EXTENDS StreamRouting, TLC
=============================================================================
