------------------------------ MODULE MCFiles ------------------------------
(* Two tasks, a file in RAM, two FAT volumes with one place each.           *)
EXTENDS Files, TLC

Alike == Permutations(Task)

=============================================================================
