-------------------------- MODULE MCContextAnchor --------------------------
EXTENDS ContextAnchor, TLC

\* The contexts are alike.
ContextSymmetry == Permutations(Contexts)
=============================================================================
