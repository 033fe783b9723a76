-------------------------- MODULE MCSkillBaseline --------------------------
(* A project root with one file and a user root with two, and one name of a
   skill: two roots to walk, a directory in which two files may claim a name. *)
EXTENDS SkillBaseline, TLC

CONSTANTS b, c

TwoRoots == <<"project", "user">>
ThreeFiles == [project |-> {"a"}, user |-> {b, c}]
Alike == Permutations({b, c})
====
