----------------------------- MODULE MCRunlevel -----------------------------
(* Model values and symmetry for Runlevel.                                  *)
EXTENDS Runlevel, TLC

PanelSymmetry == Permutations(Panels)
=============================================================================
