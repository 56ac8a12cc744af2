------------------------------- MODULE MCMzCo -------------------------------
EXTENDS MzCo, TLC

\* Coroutines, stacks and words are interchangeable.
Symmetry == Permutations(Co) \cup Permutations(Stack) \cup Permutations(Word)
=============================================================================
