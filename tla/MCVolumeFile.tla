----------------------------- MODULE MCVolumeFile -----------------------------
(***************************************************************************)
(* Instances of VolumeFile for TLC.  Credentials are interchangeable, so   *)
(* runs without temporal properties may use Symmetry.                      *)
(***************************************************************************)
EXTENDS VolumeFile, TLC

Symmetry == Permutations(Creds)
=============================================================================
