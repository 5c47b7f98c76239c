------------------------------ MODULE MCCampus ------------------------------
(***************************************************************************)
(* An instance of Campus for TLC.  Students, titles, items, classes, users *)
(* and countries are the same two model values: no two desks are open in   *)
(* one behaviour.                                                          *)
(***************************************************************************)
EXTENDS Campus, TLC

MCChosen == {<<t, 1>> : t \in Title}

MCTopics == {<<>>} \cup {<<t, t>> : t \in Topic}

MCDrift == {-60, 0, 60}

MCLater == {-480, 0, 480}

MCSymmetry == Permutations(Request) \cup Permutations(Title)
=============================================================================
