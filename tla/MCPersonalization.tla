------------------------- MODULE MCPersonalization -------------------------
\* Personalization instantiated for TLC; the stores, the phrases and the targets are
\* each interchangeable.
EXTENDS Personalization, TLC

Interchangeable == Permutations(Stores) \cup Permutations(Phrases) \cup Permutations(Targets)
=============================================================================
