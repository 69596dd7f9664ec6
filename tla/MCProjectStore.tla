--------------------------- MODULE MCProjectStore ---------------------------
(* An instance of ProjectRecords, and with it of ProjectStore: of the five *)
(* tables that requests insert into, one that delete_project empties and   *)
(* the one it does not; a conclusion of another project and one to come;   *)
(* a clause that the project's template has and one that it has not.       *)
EXTENDS ProjectRecords, TLC

MCInserted == {"conclusions", "comments"}

Alike == Permutations(Handlers) \cup Permutations(Projects)
=============================================================================
