---------------------------- MODULE MCWorkstreams ----------------------------
EXTENDS Workstreams, TLC

Symmetry == Permutations(Workstream) \cup Permutations(Task)
              \cup Permutations(Job) \cup Permutations(Call)
=============================================================================
