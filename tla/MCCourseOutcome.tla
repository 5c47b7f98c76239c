--------------------------- MODULE MCCourseOutcome ---------------------------
(* Small instances of CourseOutcome for TLC.                               *)
EXTENDS CourseOutcome, TLC

Symmetry == Permutations(Request)
SymmetryRS == Permutations(Request) \cup Permutations(Student)
SymmetryRST == SymmetryRS \cup Permutations(Time)
=============================================================================
