----------------------------- MODULE MCKnowledge -----------------------------
EXTENDS Knowledge, TLC

\* Commands race each other in behaviours without a copy; two of them race the
\* worker of a copy.
FewCommands == [c \in Copies |-> IF c = "none" THEN 3 ELSE 2]

Symmetry == Permutations(Subject) \cup Permutations(Event)
=============================================================================
