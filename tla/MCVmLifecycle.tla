---------------------------- MODULE MCVmLifecycle ----------------------------
(***************************************************************************)
(* Instances of VmLifecycle: two starts, of one VM or of two, with a       *)
(* deletion; one start and two stops of a VM.                              *)
(***************************************************************************)
EXTENDS VmLifecycle, TLC

\* Symmetry is for the run without temporal properties.
LifeSymmetry == Permutations(Vms) \cup Permutations(Boots)
=============================================================================
