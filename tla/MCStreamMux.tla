----------------------------- MODULE MCStreamMux -----------------------------
(***************************************************************************)
(* An instance of StreamMux.  The capacities are one frame instead of a    *)
(* hundred: every channel fills up and blocks.                             *)
(***************************************************************************)
EXTENDS StreamMux
=============================================================================
