---------------------------- MODULE MCMirrorDump ----------------------------
(***************************************************************************)
(* Small instances of MirrorDump for TLC.                                  *)
(***************************************************************************)
EXTENDS MirrorDump, TLC

FileSymmetry == Permutations(Files) \cup Permutations(Dumpers)
=============================================================================
