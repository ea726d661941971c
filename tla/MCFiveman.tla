----------------------------- MODULE MCFiveman ------------------------------
EXTENDS Fiveman, TLC

PidSymmetry == Permutations(Pids)
=============================================================================
