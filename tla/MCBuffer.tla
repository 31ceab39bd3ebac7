------------------------------- MODULE MCBuffer -------------------------------
EXTENDS Buffer

\* The layouts are interchangeable.
LayoutSymmetry == Permutations(Layouts)
=============================================================================
