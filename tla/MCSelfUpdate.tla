---------------------------- MODULE MCSelfUpdate ----------------------------
(* Instances of SelfUpdate for TLC.                                        *)
EXTENDS SelfUpdate, TLC

\* Processes are interchangeable: no definition singles one out.
ProcSymmetry == Permutations(Procs)
=============================================================================
