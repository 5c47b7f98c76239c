--------------------------- MODULE MCCourseSales ---------------------------
(* Small instances of CourseSales for TLC.                                 *)
EXTENDS CourseSales, TLC

CONSTANTS c1, mills

\* One course at two cents, or as the configuration says.
MCPrice == (c1 :> mills)

Symmetry == Permutations(Request)
SymmetryRS == Permutations(Request) \cup Permutations(Student)
=============================================================================
