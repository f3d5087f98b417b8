------------------------------- MODULE MCIniFile -------------------------------
(* IniFile for TLC: two structures, one that names a group before each of its  *)
(* two items and has one without a default, and one that starts with its only  *)
(* item and leaves the first name to load_ini and save_ini; three values, one  *)
(* of which has white space around it.                                         *)
EXTENDS IniFile

MCStructures ==
  { << [group |-> "G"], [item |-> "size", default |-> "2", hide |-> FALSE],
       [group |-> "H"], [item |-> "name", default |-> Nothing, hide |-> TRUE] >>,
    << [item |-> "size", default |-> "2", hide |-> FALSE], [group |-> "G"] >> }

MCTrim == [v \in Values |-> IF v = " 2" THEN "2" ELSE v]

=============================================================================
